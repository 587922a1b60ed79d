---------------------------- MODULE DeliveryProofs ----------------------------
(***************************************************************************)
(* Proofs about Delivery, for every set of messages, addresses and slots   *)
(* and every bound.  The first part holds whatever happens: types,         *)
(* deliveries, suppressions, content.  The second is what becomes of an    *)
(* accepted message as long as no slot loses the lock of its job and no    *)
(* message gets a week old with its job still pending: the conditions      *)
(* under which MCDelivery checks those properties on small instances.  The *)
(* last is about bounces, suppressions and failure notices.                *)
(***************************************************************************)
EXTENDS Delivery, TLAPS, FiniteSetTheorems

(* A job that may still run has attempts left, and only a running job has   *)
(* an owner: a result can be charged to it.                                 *)
JobOK ==
    \A m \in Messages :
        /\ job[m].state \in {"waiting", "active"} => job[m].made < MaxAttempts
        /\ job[m].owner # NoWorker => job[m].state = "active"

(* A busy slot works on a message, and applyResult on a recipient of it     *)
(* whose status is the type of an event.                                    *)
SlotOK(r) ==
    /\ r.pc # "idle" => r.msg \in Messages
    /\ r.pc \in {"suppress", "notify", "record"} =>
          r.cur \in Addresses /\ r.to[r.cur] \in EventType

RunOK == \A w \in Workers : SlotOK(run[w])

TypeInv == TypeOK /\ JobOK /\ RunOK

(* Changing one slot keeps the others. *)
LEMMA BecomeOK ==
    ASSUME run \in [Workers -> Run], RunOK,
           NEW w \in Workers, NEW r, Become(w, r), r \in Run, SlotOK(r)
    PROVE  run' \in [Workers -> Run] /\ RunOK'
<1>1. run' = [run EXCEPT ![w] = r]
  BY DEF Become
<1>2. run' \in [Workers -> Run]
  BY <1>1
<1>3. ASSUME NEW v \in Workers PROVE SlotOK(run'[v])
  BY <1>1 DEF RunOK
<1> QED
  BY <1>2, <1>3 DEF RunOK

LEMMA InitTypeInv == Init => TypeInv
<1> SUFFICES ASSUME Init PROVE TypeInv
  OBVIOUS
<1>1. StoreTypeOK
  BY StoreAssumption DEF Init, StoreInit, StoreTypeOK, MessageDoc, Accepted, RecipientStatus,
         Job, NonTerminal, Terminal
<1>2. ProcessorTypeOK
  BY StoreAssumption, ProcessorAssumption DEF Init, ProcessorInit, ProcessorTypeOK, Run, Idle, PC, Phase, Outcome,
         NoResults, RecipientStatus, NonTerminal, Terminal
<1>3. RetentionTypeOK /\ domainChanges \in 0 .. MaxDomainChanges
  BY RetentionAssumption, DeliveryAssumption DEF Init, RetentionInit, RetentionTypeOK, AtRest, Sweep
<1>4. JobOK
  BY StoreAssumption DEF Init, StoreInit, JobOK
<1>5. RunOK
  BY DEF Init, ProcessorInit, RunOK, SlotOK, Idle
<1> QED
  BY <1>1, <1>2, <1>3, <1>4, <1>5 DEF TypeInv, TypeOK

(* What a slot's step may change besides the slot. *)
DataOK ==
    /\ message \in [Messages -> MessageDoc]
    /\ events \subseteq Messages \X EventType \X Addresses
    /\ suppression \subseteq Addresses
    /\ usage \in [Terminal -> Nat]
    /\ inbox \in [Messages -> [Addresses -> Nat]]
    /\ refused \subseteq Addresses
    /\ dsn \subseteq Messages \X Addresses
    /\ faults \in [FaultKinds -> Nat]

QueueOK == job \in [Messages -> Job] /\ JobOK

LEMMA TypeInvParts ==
    ASSUME TypeInv
    PROVE  DataOK /\ QueueOK /\ run \in [Workers -> Run] /\ RunOK
BY DEF TypeInv, TypeOK, StoreTypeOK, ProcessorTypeOK, DataOK, QueueOK

(* The step of one slot, the retention job standing still. *)
LEMMA SlotStep ==
    ASSUME TypeInv, NEW w \in Workers, NEW r \in Run, SlotOK(r), Become(w, r),
           Others, UNCHANGED <<raw, verified>>, DataOK', QueueOK'
    PROVE  TypeInv'
<1>1. run' \in [Workers -> Run] /\ RunOK'
  BY TypeInvParts, BecomeOK
<1>2. StoreTypeOK'
  BY DEF TypeInv, TypeOK, StoreTypeOK, DataOK, QueueOK
<1>3. ProcessorTypeOK'
  BY <1>1 DEF ProcessorTypeOK, DataOK
<1>4. RetentionTypeOK' /\ (domainChanges \in 0 .. MaxDomainChanges)'
  BY DEF TypeInv, TypeOK, RetentionTypeOK, Others, retentionVars
<1> QED
  BY <1>1, <1>2, <1>3, <1>4 DEF TypeInv, TypeOK, QueueOK

(* Moving on without recording anything. *)
LEMMA GotoOK ==
    ASSUME TypeInv, NEW w \in Workers, run[w].pc # "idle",
           NEW pc \in PC \ {"suppress", "notify", "record"}
    PROVE  [run[w] EXCEPT !.pc = pc] \in Run /\ SlotOK([run[w] EXCEPT !.pc = pc])
<1> DEFINE r == run[w]
           q == [r EXCEPT !.pc = pc]
<1>1. r \in Run /\ r.msg \in Messages
  BY TypeInvParts DEF RunOK, SlotOK
<1> HIDE DEF r
<1>2. q \in Run
  BY <1>1 DEF Run
<1>3. q.pc = pc /\ q.msg = r.msg
  BY <1>1 DEF Run
<1>4. SlotOK(q)
  BY <1>1, <1>3 DEF SlotOK
<1> QED
  BY <1>2, <1>4 DEF r

LEMMA IdleOK == Idle \in Run /\ SlotOK(Idle)
<1>1. NoResults \in [Addresses -> Outcome]
  BY DEF NoResults, Outcome
<1>2. [a \in Addresses |-> "absent"] \in [Addresses -> RecipientStatus]
  BY DEF RecipientStatus
<1>3. Idle \in Run
  BY StoreAssumption, ProcessorAssumption, <1>1, <1>2 DEF Idle, Run, PC, Phase, NonTerminal
<1>4. SlotOK(Idle)
  BY DEF Idle, SlotOK
<1> QED
  BY <1>3, <1>4

LEMMA TakeJobOK ==
    ASSUME TypeInv, NEW w \in Workers, NEW m \in Messages, TakeJob(w, m), Others
    PROVE  TypeInv'
<1> DEFINE r == [Idle EXCEPT !.pc = "load", !.msg = m, !.made = job[m].made,
                             !.knew = suppression]
<1>1. r \in Run
  <2>1. job[m].made \in 0 .. MaxAttempts /\ suppression \subseteq Addresses
    BY TypeInvParts DEF QueueOK, Job, DataOK
  <2> QED
    BY <2>1, IdleOK DEF Run, PC
<1>2. SlotOK(r)
  <2>1. r.pc = "load" /\ r.msg = m
    BY <1>1, IdleOK DEF Run
  <2> QED
    BY <2>1 DEF SlotOK
<1>3. QueueOK'
  <2>1. job' = [job EXCEPT ![m] = [job[m] EXCEPT !.state = "active", !.owner = w]]
    BY DEF TakeJob
  <2>2. [job[m] EXCEPT !.state = "active", !.owner = w] \in Job
    <3>1. job[m] \in Job
      BY TypeInvParts DEF QueueOK
    <3> QED
      BY <3>1 DEF Job
  <2>3. job' \in [Messages -> Job]
    BY <2>1, <2>2, TypeInvParts DEF QueueOK
  <2>4. JobOK'
    BY <2>1, TypeInvParts DEF QueueOK, JobOK, Job, TakeJob
  <2> QED
    BY <2>3, <2>4 DEF QueueOK
<1>4. DataOK'
  BY TypeInvParts DEF TakeJob, DataOK
<1>5. Become(w, r)
  BY DEF TakeJob
<1> QED
  BY <1>1, <1>2, <1>3, <1>4, <1>5, SlotStep DEF TakeJob

LEMMA FindMessageOK ==
    ASSUME TypeInv, NEW w \in Workers, FindMessage(w), Others
    PROVE  TypeInv'
<1> DEFINE r == run[w]
           doc == message[r.msg]
           q == [r EXCEPT !.pc = "start", !.to = doc.to, !.status = "sending",
                          !.touched = doc.status # "sending"]
<1>1. r \in Run /\ r.pc = "load" /\ r.msg \in Messages
  BY TypeInvParts DEF FindMessage, At, RunOK, SlotOK
<1>2. DataOK' /\ QueueOK' /\ UNCHANGED <<raw, verified>>
  BY TypeInvParts DEF FindMessage, DataOK, QueueOK, JobOK, storeVars
<1>3. CASE Become(w, q)
  <2>1. doc \in MessageDoc
    BY <1>1, TypeInvParts DEF DataOK
  <2>2. q \in Run
    BY ZenonT(40), <1>1, <2>1 DEF Run, PC, MessageDoc, NonTerminal
  <2>3. SlotOK(q)
    BY <1>1 DEF SlotOK, Run
  <2> QED
    BY <1>2, <1>3, <2>2, <2>3, SlotStep
<1>4. CASE Goto(w, "ack")
  BY <1>1, <1>2, <1>4, GotoOK, SlotStep DEF Goto, PC
<1> QED
  BY <1>3, <1>4 DEF FindMessage

(* save() keeps the documents well-formed. *)
LEMMA SaveThenOK ==
    ASSUME TypeInv, NEW w \in Workers, run[w].pc # "idle",
           NEW pc \in PC \ {"suppress", "notify", "record"}, SaveThen(w, pc), Others,
           UNCHANGED <<raw, events, suppression, usage, verified, job,
                       inbox, refused, dsn, faults>>
    PROVE  TypeInv'
<1> DEFINE r == run[w]
           m == r.msg
           q == [r EXCEPT !.pc = pc, !.touched = FALSE, !.dirty = {}]
<1>1. r \in Run /\ m \in Messages
  BY TypeInvParts DEF RunOK, SlotOK
<1>2. QueueOK'
  BY TypeInvParts DEF QueueOK, JobOK
<1>3. CASE message' = [message EXCEPT ![m] = Written(m, r)] /\ Become(w, q)
  <2>1. Written(m, r) \in MessageDoc
    <3>1. message[m] \in MessageDoc
      BY <1>1, TypeInvParts DEF DataOK
    <3>2. [a \in Addresses |-> IF a \in r.dirty THEN r.to[a] ELSE message[m].to[a]]
             \in [Addresses -> RecipientStatus]
      BY <1>1, <3>1 DEF Run, MessageDoc
    <3>3. (IF r.touched THEN r.status ELSE message[m].status) \in NonTerminal \cup Terminal
      BY <1>1, <3>1 DEF Run, MessageDoc
    <3> QED
      BY <3>1, <3>2, <3>3 DEF Written, MessageDoc
  <2>2. DataOK'
    BY <1>3, <2>1, TypeInvParts DEF DataOK
  <2>3. q \in Run
    BY <1>1 DEF Run
  <2>4. SlotOK(q)
    BY <1>1 DEF SlotOK, Run
  <2> QED
    BY <1>2, <1>3, <2>2, <2>3, <2>4, SlotStep
<1>4. CASE Goto(w, "throw") /\ UNCHANGED message
  <2>1. DataOK'
    BY <1>4, TypeInvParts DEF DataOK
  <2> QED
    BY <1>2, <1>4, <2>1, GotoOK, SlotStep DEF Goto, PC
<1> QED
  BY <1>3, <1>4 DEF SaveThen

LEMMA SaveStartOK ==
    ASSUME TypeInv, NEW w \in Workers, SaveStart(w), Others
    PROVE  TypeInv'
BY SaveThenOK DEF SaveStart, At, PC

LEMMA SaveOutcomeOK ==
    ASSUME TypeInv, NEW w \in Workers, SaveOutcome(w), Others
    PROVE  TypeInv'
BY SaveThenOK DEF SaveOutcome, At, PC, AfterSave

LEMMA ResultForOK ==
    ASSUME NEW A, NEW o \in Outcome
    PROVE  ResultFor(A, o) \in [Addresses -> Outcome]
BY DEF ResultFor, Outcome

LEMMA CheckDomainOK ==
    ASSUME TypeInv, NEW w \in Workers, CheckDomain(w), Others
    PROVE  TypeInv'
<1> DEFINE r == run[w]
           q == [r EXCEPT !.pc = "apply", !.phase = "unverified",
                          !.results = ResultFor(Pending(r), "bounced")]
<1>1. r \in Run /\ r.pc = "domain" /\ r.msg \in Messages
  BY TypeInvParts DEF CheckDomain, At, RunOK, SlotOK
<1>2. DataOK' /\ QueueOK' /\ UNCHANGED <<raw, verified>>
  BY TypeInvParts DEF CheckDomain, DataOK, QueueOK, JobOK, storeVars
<1>3. CASE Become(w, q)
  <2>1. ResultFor(Pending(r), "bounced") \in [Addresses -> Outcome]
    BY ResultForOK DEF Outcome
  <2>2. q \in Run
    BY <1>1, <2>1 DEF Run, PC, Phase
  <2>3. SlotOK(q)
    BY <1>1 DEF SlotOK, Run
  <2> QED
    BY <1>2, <1>3, <2>2, <2>3, SlotStep
<1>4. CASE Goto(w, "raw")
  BY <1>1, <1>2, <1>4, GotoOK, SlotStep DEF Goto, PC
<1> QED
  BY <1>3, <1>4 DEF CheckDomain

LEMMA LoadRawOK ==
    ASSUME TypeInv, NEW w \in Workers, LoadRaw(w), Others
    PROVE  TypeInv'
<1>1. run[w].pc = "raw"
  BY DEF LoadRaw, At
<1>2. DataOK' /\ QueueOK' /\ UNCHANGED <<raw, verified>>
  BY TypeInvParts DEF LoadRaw, DataOK, QueueOK, JobOK, storeVars
<1>3. PICK pc \in {"suppressions", "throw"} : Goto(w, pc)
  BY DEF LoadRaw
<1> QED
  BY <1>1, <1>2, <1>3, GotoOK, SlotStep DEF Goto, PC

LEMMA ReadSuppressionsOK ==
    ASSUME TypeInv, NEW w \in Workers, ReadSuppressions(w), Others
    PROVE  TypeInv'
<1> DEFINE r == run[w]
           q == [r EXCEPT !.pc = "apply", !.phase = "send",
                          !.results = ResultFor(Suppressed(r), "bounced"),
                          !.todo = Pending(r) \ Suppressed(r)]
<1>1. r \in Run /\ r.pc = "suppressions" /\ r.msg \in Messages
  BY TypeInvParts DEF ReadSuppressions, At, RunOK, SlotOK
<1>2. DataOK' /\ QueueOK' /\ UNCHANGED <<raw, verified>>
  BY TypeInvParts DEF ReadSuppressions, DataOK, QueueOK, JobOK, storeVars
<1>3. ResultFor(Suppressed(r), "bounced") \in [Addresses -> Outcome]
  BY ResultForOK DEF Outcome
<1>4. Pending(r) \ Suppressed(r) \in SUBSET Addresses
  BY DEF Pending
<1>5. q \in Run
  BY <1>1, <1>3, <1>4 DEF Run, PC, Phase
<1>6. SlotOK(q)
  BY <1>1 DEF SlotOK, Run
<1>7. Become(w, q)
  BY DEF ReadSuppressions
<1> QED
  BY <1>2, <1>5, <1>6, <1>7, SlotStep

LEMMA ApplyResultOK ==
    ASSUME TypeInv, NEW w \in Workers, NEW a \in Addresses, ApplyResult(w, a), Others
    PROVE  TypeInv'
<1> DEFINE r == run[w]
           o == r.results[a]
           q == [r EXCEPT !.pc = AfterApply(r, o),
                          !.cur = a,
                          !.results = [@ EXCEPT ![a] = "none"],
                          !.to = [@ EXCEPT ![a] = o],
                          !.dirty = IF r.to[a] = o THEN @ ELSE @ \cup {a}]
<1>1. r \in Run /\ r.pc = "apply" /\ r.msg \in Messages /\ o \in EventType
  BY TypeInvParts DEF ApplyResult, At, RunOK, SlotOK, Run, Outcome, EventType
<1>2. q \in Run
  <2>1. AfterApply(r, o) \in PC
    BY DEF AfterApply, PC
  <2>2. [r.results EXCEPT ![a] = "none"] \in [Addresses -> Outcome]
    BY <1>1 DEF Run, Outcome
  <2>3. [r.to EXCEPT ![a] = o] \in [Addresses -> RecipientStatus]
    BY <1>1 DEF Run, EventType, RecipientStatus, NonTerminal, Terminal
  <2>4. (IF r.to[a] = o THEN r.dirty ELSE r.dirty \cup {a}) \in SUBSET Addresses
    BY <1>1 DEF Run
  <2> HIDE DEF o
  <2> QED
    BY <1>1, <2>1, <2>2, <2>3, <2>4 DEF Run
<1>3. SlotOK(q)
  BY <1>1 DEF SlotOK, Run
<1>4. Become(w, q)
  BY DEF ApplyResult
<1>5. usage' \in [Terminal -> Nat]
  BY <1>1, TypeInvParts DEF ApplyResult, Counted, DataOK, EventType, Terminal
<1>6. DataOK' /\ QueueOK' /\ UNCHANGED <<raw, verified>>
  BY <1>5, TypeInvParts DEF ApplyResult, DataOK, QueueOK, JobOK
<1> QED
  BY <1>2, <1>3, <1>4, <1>6, SlotStep

LEMMA FailDeferredOK ==
    ASSUME TypeInv, NEW w \in Workers, NEW a \in Addresses, FailDeferred(w, a), Others
    PROVE  TypeInv'
<1> DEFINE r == run[w]
           q == [r EXCEPT !.pc = "record", !.cur = a,
                          !.results = [@ EXCEPT ![a] = "none"],
                          !.to = [@ EXCEPT ![a] = "failed"],
                          !.dirty = @ \cup {a}]
<1>1. r \in Run /\ r.pc = "apply" /\ r.msg \in Messages
  BY TypeInvParts DEF FailDeferred, At, RunOK, SlotOK
<1>2. q \in Run
  <2>1. [r.results EXCEPT ![a] = "none"] \in [Addresses -> Outcome]
    BY <1>1 DEF Run, Outcome
  <2>2. [r.to EXCEPT ![a] = "failed"] \in [Addresses -> RecipientStatus]
    BY <1>1 DEF Run, RecipientStatus, Terminal
  <2> QED
    BY <1>1, <2>1, <2>2 DEF Run, PC
<1>3. SlotOK(q)
  BY <1>1 DEF SlotOK, Run, EventType
<1>4. Become(w, q)
  BY DEF FailDeferred
<1>5. usage' \in [Terminal -> Nat]
  BY TypeInvParts DEF FailDeferred, DataOK, Terminal
<1>6. DataOK' /\ QueueOK' /\ UNCHANGED <<raw, verified>>
  BY <1>5, TypeInvParts DEF FailDeferred, DataOK, QueueOK, JobOK
<1> QED
  BY <1>2, <1>3, <1>4, <1>6, SlotStep

LEMMA SuppressOK ==
    ASSUME TypeInv, NEW w \in Workers, Suppress(w), Others
    PROVE  TypeInv'
<1> DEFINE r == run[w]
           q == [r EXCEPT !.pc = "notify"]
<1>1. r \in Run /\ r.msg \in Messages
      /\ r.cur \in Addresses /\ r.to[r.cur] \in EventType
  BY TypeInvParts DEF Suppress, At, RunOK, SlotOK
<1>2. q \in Run /\ SlotOK(q)
  BY <1>1 DEF Run, PC, SlotOK
<1>3. DataOK' /\ QueueOK' /\ UNCHANGED <<raw, verified>>
  BY <1>1, TypeInvParts DEF Suppress, DataOK, QueueOK, JobOK
<1> QED
  BY <1>2, <1>3, SlotStep DEF Suppress, Goto

LEMMA NotifySenderOK ==
    ASSUME TypeInv, NEW w \in Workers, NotifySender(w), Others
    PROVE  TypeInv'
<1> DEFINE r == run[w]
           q == [r EXCEPT !.pc = "record"]
<1>1. r \in Run /\ r.msg \in Messages
      /\ r.cur \in Addresses /\ r.to[r.cur] \in EventType
  BY TypeInvParts DEF NotifySender, At, RunOK, SlotOK
<1>2. q \in Run /\ SlotOK(q)
  BY <1>1 DEF Run, PC, SlotOK
<1>3. dsn' \subseteq Messages \X Addresses
  BY <1>1, TypeInvParts DEF NotifySender, DataOK
<1>4. DataOK' /\ QueueOK' /\ UNCHANGED <<raw, verified>>
  BY <1>3, TypeInvParts DEF NotifySender, DataOK, QueueOK, JobOK, storeVars
<1> QED
  BY <1>2, <1>4, SlotStep DEF NotifySender, Goto

LEMMA RecordEventOK ==
    ASSUME TypeInv, NEW w \in Workers, RecordEvent(w), Others
    PROVE  TypeInv'
<1> DEFINE r == run[w]
           q == [r EXCEPT !.pc = "apply", !.cur = NoAddress]
<1>1. r \in Run /\ r.msg \in Messages
      /\ r.cur \in Addresses /\ r.to[r.cur] \in EventType
  BY TypeInvParts DEF RecordEvent, At, RunOK, SlotOK
<1>2. q \in Run /\ SlotOK(q)
  BY <1>1 DEF Run, PC, SlotOK
<1>3. events' \subseteq Messages \X EventType \X Addresses
  BY <1>1, TypeInvParts DEF RecordEvent, DataOK
<1>4. DataOK' /\ QueueOK' /\ UNCHANGED <<raw, verified>>
  BY <1>3, TypeInvParts DEF RecordEvent, DataOK, QueueOK, JobOK
<1> QED
  BY <1>2, <1>4, SlotStep DEF RecordEvent

LEMMA NextDomainOK ==
    ASSUME TypeInv, NEW w \in Workers, NEW d, NEW n \in 0 .. MaxTargets,
           NextDomain(w, d, n), Others
    PROVE  TypeInv'
<1> DEFINE r == run[w]
           group == {a \in r.todo : DomainOf[a] = d}
           q == [r EXCEPT !.pc = IF n = 0 THEN "apply" ELSE "deliver",
                          !.suppress = TRUE,
                          !.todo = StillToTry(r, group),
                          !.group = IF n = 0 THEN {} ELSE group,
                          !.results = IF n = 0 THEN ResultFor(group, WithoutTarget) ELSE @,
                          !.targets = n]
<1>1. r \in Run /\ r.pc = "apply" /\ r.msg \in Messages
  BY TypeInvParts DEF NextDomain, At, RunOK, SlotOK
<1>2. ResultFor(group, WithoutTarget) \in [Addresses -> Outcome]
  BY ResultForOK DEF WithoutTarget, Outcome
<1>3. group \in SUBSET Addresses /\ StillToTry(r, group) \in SUBSET Addresses
  BY <1>1 DEF Run, StillToTry
<1>4. q \in Run
  <2> HIDE DEF group
  <2> QED
    BY <1>1, <1>2, <1>3 DEF Run, PC
<1>5. SlotOK(q)
  BY <1>1 DEF SlotOK, Run
<1>6. DataOK' /\ QueueOK' /\ UNCHANGED <<raw, verified>>
  BY TypeInvParts DEF NextDomain, DataOK, QueueOK, JobOK, storeVars
<1>7. Become(w, q)
  BY DEF NextDomain
<1> QED
  BY <1>4, <1>5, <1>6, <1>7, SlotStep

LEMMA AnsweredOK ==
    ASSUME NEW r \in Run, r.msg \in Messages, NEW results \in [Addresses -> Outcome]
    PROVE  Answered(r, results) \in Run /\ SlotOK(Answered(r, results))
<1> DEFINE q == Answered(r, results)
<1>0. q = [r EXCEPT !.pc = "apply", !.group = {}, !.targets = 0, !.results = results]
  BY DEF Answered
<1>1. q \in Run
  <2>1. "apply" \in PC /\ 0 \in 0 .. MaxTargets /\ {} \in SUBSET Addresses
    BY ProcessorAssumption DEF PC
  <2> HIDE DEF q
  <2> QED
    BY <1>0, <2>1 DEF Run
<1>2. q.pc = "apply" /\ q.msg = r.msg
  <2> HIDE DEF q
  <2> QED
    BY <1>0 DEF Run
<1>3. SlotOK(q)
  BY <1>2 DEF SlotOK
<1> QED
  BY <1>1, <1>3

LEMMA ReceiveOK ==
    ASSUME TypeInv, NEW m \in Messages, NEW A, Receive(m, A)
    PROVE  inbox' \in [Messages -> [Addresses -> Nat]]
BY TypeInvParts DEF Receive, DataOK

LEMMA MxAcceptsOK ==
    ASSUME TypeInv, NEW w \in Workers, NEW rejected, NEW perm,
           MxAccepts(w, rejected, perm), Others
    PROVE  TypeInv'
<1> DEFINE r == run[w]
           results == [a \in Addresses |->
                         IF a \in rejected THEN "bounced"
                         ELSE IF a \in r.group \ rejected THEN "delivered" ELSE "none"]
<1>1. r \in Run /\ r.msg \in Messages
  BY TypeInvParts DEF MxAccepts, At, RunOK, SlotOK
<1>2. results \in [Addresses -> Outcome]
  BY DEF Outcome
<1>3. inbox' \in [Messages -> [Addresses -> Nat]]
  BY <1>1, ReceiveOK DEF MxAccepts
<1>4. refused' \subseteq Addresses
  BY <1>1, TypeInvParts DEF MxAccepts, DataOK, Run
<1>5. DataOK' /\ QueueOK' /\ UNCHANGED <<raw, verified>>
  BY <1>3, <1>4, TypeInvParts DEF MxAccepts, DataOK, QueueOK, JobOK, storeVars
<1>6. Become(w, Answered(r, results))
  BY DEF MxAccepts
<1> QED
  BY <1>1, <1>2, <1>5, <1>6, AnsweredOK, SlotStep

LEMMA MxRefusesOK ==
    ASSUME TypeInv, NEW w \in Workers, NEW perm, MxRefuses(w, perm), Others
    PROVE  TypeInv'
<1> DEFINE r == run[w]
<1>1. r \in Run /\ r.msg \in Messages
  BY TypeInvParts DEF MxRefuses, At, RunOK, SlotOK
<1>2. ResultFor(r.group, "bounced") \in [Addresses -> Outcome]
  BY ResultForOK DEF Outcome
<1>3. refused' \subseteq Addresses
  BY <1>1, TypeInvParts DEF MxRefuses, DataOK, Run
<1>4. DataOK' /\ QueueOK' /\ UNCHANGED <<raw, verified>>
  BY <1>3, TypeInvParts DEF MxRefuses, DataOK, QueueOK, JobOK, storeVars
<1>5. Become(w, Answered(r, ResultFor(r.group, "bounced")))
  BY DEF MxRefuses
<1> QED
  BY <1>1, <1>2, <1>4, <1>5, AnsweredOK, SlotStep

LEMMA NextTargetOK ==
    ASSUME TypeInv, NEW w \in Workers, At(w, "deliver"), NextTarget(w), Others,
           UNCHANGED <<raw, verified>>, DataOK', QueueOK'
    PROVE  TypeInv'
<1> DEFINE r == run[w]
           q == [r EXCEPT !.targets = @ - 1]
<1>1. r \in Run /\ r.pc = "deliver" /\ r.msg \in Messages
  BY TypeInvParts DEF At, RunOK, SlotOK
<1>2. CASE r.targets > 1
  <2>1. r.targets - 1 \in 0 .. MaxTargets
    BY ProcessorAssumption, <1>1, <1>2 DEF Run
  <2>2. q \in Run /\ SlotOK(q)
    BY <1>1, <2>1 DEF Run, SlotOK
  <2> QED
    BY <1>2, <2>2, SlotStep DEF NextTarget
<1>3. CASE ~(r.targets > 1)
  <2>1. ResultFor(r.group, AfterLastTarget) \in [Addresses -> Outcome]
    BY ResultForOK DEF AfterLastTarget, Outcome
  <2> QED
    BY <1>1, <1>3, <2>1, AnsweredOK, SlotStep DEF NextTarget
<1> QED
  BY <1>2, <1>3

LEMMA MxDefersOK ==
    ASSUME TypeInv, NEW w \in Workers, MxDefers(w), Others
    PROVE  TypeInv'
<1>1. DataOK' /\ QueueOK' /\ UNCHANGED <<raw, verified>>
  BY TypeInvParts DEF MxDefers, DataOK, QueueOK, JobOK, storeVars
<1> QED
  BY <1>1, NextTargetOK DEF MxDefers

LEMMA FaultOK ==
    ASSUME TypeInv, NEW k \in FaultKinds, Fault(k)
    PROVE  faults' \in [FaultKinds -> Nat]
BY TypeInvParts DEF Fault, DataOK

LEMMA MxReplyLostOK ==
    ASSUME TypeInv, NEW w \in Workers, MxReplyLost(w), Others
    PROVE  TypeInv'
<1>1. run[w].msg \in Messages
  BY TypeInvParts DEF MxReplyLost, At, RunOK, SlotOK
<1>2. inbox' \in [Messages -> [Addresses -> Nat]]
  BY <1>1, ReceiveOK DEF MxReplyLost
<1>3. faults' \in [FaultKinds -> Nat]
  BY ProcessorAssumption, FaultOK DEF MxReplyLost
<1>4. DataOK' /\ QueueOK' /\ UNCHANGED <<raw, verified>>
  BY <1>2, <1>3, TypeInvParts DEF MxReplyLost, DataOK, QueueOK, JobOK, storeVars
<1> QED
  BY <1>4, NextTargetOK DEF MxReplyLost

LEMMA SettledOK ==
    ASSUME NEW r \in Run, r.msg \in Messages, NEW s \in NonTerminal \cup Terminal
    PROVE  /\ [Settled(r) EXCEPT !.status = s] \in Run
           /\ SlotOK([Settled(r) EXCEPT !.status = s])
<1> DEFINE q == [Settled(r) EXCEPT !.status = s]
<1>1. q \in Run
  BY DEF Settled, Run, PC
<1>2. q.pc = "save" /\ q.msg = r.msg
  BY DEF Settled, Run
<1>3. SlotOK(q)
  BY <1>2 DEF SlotOK
<1> QED
  BY <1>1, <1>3

(* The three ways a run ends with a status to save, *)
LEMMA SettleOK ==
    ASSUME TypeInv, NEW w \in Workers, run[w].pc # "idle", Others,
           NEW s \in NonTerminal \cup Terminal,
           Become(w, [Settled(run[w]) EXCEPT !.status = s]),
           UNCHANGED <<storeVars, inbox, refused, dsn, faults>>
    PROVE  TypeInv'
<1>1. run[w] \in Run /\ run[w].msg \in Messages
  BY TypeInvParts DEF RunOK, SlotOK
<1>2. DataOK' /\ QueueOK' /\ UNCHANGED <<raw, verified>>
  BY TypeInvParts DEF DataOK, QueueOK, JobOK, storeVars
<1> QED
  BY <1>1, <1>2, SettledOK, SlotStep

LEMMA FailUnverifiedOK ==
    ASSUME TypeInv, NEW w \in Workers, FailUnverified(w), Others
    PROVE  TypeInv'
BY SettleOK DEF FailUnverified, Walked, At, Terminal

LEMMA GiveUpOK ==
    ASSUME TypeInv, NEW w \in Workers, GiveUp(w), Others
    PROVE  TypeInv'
BY SettleOK DEF GiveUp, Walked, At, Terminal

LEMMA FinalizeStatusOK ==
    ASSUME TypeInv, NEW w \in Workers, FinalizeStatus(w), Others
    PROVE  TypeInv'
<1> DEFINE r == run[w]
           q == [r EXCEPT !.phase = "exhaust",
                          !.results = ResultFor(StillDeferred(r), "failed")]
<1>1. r \in Run /\ r.pc = "apply" /\ r.msg \in Messages
  BY TypeInvParts DEF FinalizeStatus, Walked, At, RunOK, SlotOK
<1>2. UNCHANGED <<storeVars, inbox, refused, dsn, faults>>
  BY DEF FinalizeStatus
<1>3. CASE \E s \in {"delivered", "bounced", "deferred"} :
              Become(w, [Settled(r) EXCEPT !.status = s])
  BY <1>1, <1>2, <1>3, SettleOK DEF Terminal, NonTerminal
<1>4. CASE Become(w, q)
  <2>1. ResultFor(StillDeferred(r), "failed") \in [Addresses -> Outcome]
    BY ResultForOK DEF Outcome
  <2>2. q \in Run
    BY <1>1, <2>1 DEF Run, Phase
  <2>3. SlotOK(q)
    BY <1>1 DEF SlotOK, Run
  <2>4. DataOK' /\ QueueOK' /\ UNCHANGED <<raw, verified>>
    BY <1>2, TypeInvParts DEF DataOK, QueueOK, JobOK, storeVars
  <2> QED
    BY <1>4, <2>2, <2>3, <2>4, SlotStep
<1> QED
  BY <1>3, <1>4 DEF FinalizeStatus

(* The queue after a slot's result, a crash or a stall. *)
LEMMA QueueAfter ==
    ASSUME TypeInv, NEW m \in Messages, NEW j \in Job,
           j.state \in {"waiting", "active"} => j.made < MaxAttempts,
           j.owner # NoWorker => j.state = "active",
           job' = [job EXCEPT ![m] = j]
    PROVE  QueueOK'
<1>1. job \in [Messages -> Job] /\ JobOK
  BY TypeInvParts DEF QueueOK
<1>2. job' \in [Messages -> Job]
  BY <1>1
<1>3. JobOK'
  BY <1>1 DEF JobOK
<1> QED
  BY <1>2, <1>3 DEF QueueOK

LEMMA ReclaimedOK ==
    ASSUME NEW j \in Job, j.state = "active", j.made < MaxAttempts
    PROVE  LET k == Reclaimed(j) IN
           k \in Job /\ k.made = j.made /\ k.owner = NoWorker
<1> DEFINE k == Reclaimed(j)
<1>1. CASE j.stalls < MaxStalled
  <2>1. j.stalls + 1 \in 0 .. MaxStalled
    BY StoreAssumption, <1>1 DEF Job
  <2>2. k = [j EXCEPT !.state = "waiting", !.stalls = j.stalls + 1, !.owner = NoWorker]
    BY <1>1 DEF Reclaimed
  <2> QED
    BY <2>1, <2>2 DEF Job
<1>2. CASE ~(j.stalls < MaxStalled)
  <2>1. k = [j EXCEPT !.state = "failed", !.owner = NoWorker]
    BY <1>2 DEF Reclaimed
  <2> QED
    BY <2>1 DEF Job
<1> QED
  BY <1>1, <1>2

LEMMA FinishOK ==
    ASSUME TypeInv, NEW w \in Workers, run[w].msg \in Messages, NEW j,
           job[run[w].msg].owner = w =>
              /\ j \in Job /\ j.owner = NoWorker
              /\ j.state \in {"waiting", "active"} => j.made < MaxAttempts,
           Finish(w, j), Others
    PROVE  TypeInv'
<1>1. QueueOK'
  <2>1. CASE job[run[w].msg].owner = w
    BY <2>1, QueueAfter DEF Finish
  <2>2. CASE job[run[w].msg].owner # w
    BY <2>2, TypeInvParts DEF Finish, QueueOK, JobOK
  <2> QED
    BY <2>1, <2>2
<1>2. DataOK' /\ UNCHANGED <<raw, verified>>
  BY TypeInvParts DEF Finish, DataOK
<1> QED
  BY <1>1, <1>2, IdleOK, SlotStep DEF Finish

LEMMA CompleteJobOK ==
    ASSUME TypeInv, NEW w \in Workers, CompleteJob(w), Others
    PROVE  TypeInv'
<1> DEFINE j == job[run[w].msg]
<1>1. run[w].msg \in Messages
  BY TypeInvParts DEF CompleteJob, At, RunOK, SlotOK
<1>2. j \in Job
  BY <1>1, TypeInvParts DEF QueueOK
<1>3. /\ Completed(j) \in Job
      /\ Completed(j).owner = NoWorker /\ Completed(j).state = "completed"
  BY <1>2 DEF Completed, Job
<1> QED
  BY <1>1, <1>3, FinishOK DEF CompleteJob

LEMMA FailJobOK ==
    ASSUME TypeInv, NEW w \in Workers, FailJob(w), Others
    PROVE  TypeInv'
<1> DEFINE j == job[run[w].msg]
           k == Retried(j)
<1>1. run[w].msg \in Messages
  BY TypeInvParts DEF FailJob, At, RunOK, SlotOK
<1>2. j \in Job
  BY <1>1, TypeInvParts DEF QueueOK
<1>3. ASSUME j.owner = w
      PROVE  k \in Job /\ k.owner = NoWorker /\ (k.state = "waiting" => k.made < MaxAttempts)
             /\ k.state # "active"
  <2>1. j.made < MaxAttempts
    BY StoreAssumption, <1>1, <1>3, TypeInvParts DEF QueueOK, JobOK
  <2>2. j.made + 1 \in 0 .. MaxAttempts
    BY StoreAssumption, <1>2, <2>1 DEF Job
  <2>3. k = [j EXCEPT !.state = IF j.made + 1 < MaxAttempts THEN "waiting" ELSE "failed",
                      !.made = j.made + 1, !.owner = NoWorker]
    BY DEF Retried
  <2> HIDE DEF k, j
  <2> QED
    BY <1>2, <2>2, <2>3 DEF Job
<1> QED
  BY <1>1, <1>3, FinishOK DEF FailJob

LEMMA CrashOK ==
    ASSUME TypeInv, NEW w \in Workers, Crash(w), Others
    PROVE  TypeInv'
<1> DEFINE m == run[w].msg
           k == [job[m] EXCEPT !.owner = NoWorker]
<1>1. m \in Messages
  BY TypeInvParts DEF Crash, At, RunOK, SlotOK
<1>2. job[m] \in Job
  BY <1>1, TypeInvParts DEF QueueOK
<1>3. QueueOK'
  <2>1. CASE job[m].owner = w
    <3>1. k \in Job /\ k.owner = NoWorker /\ k.state = job[m].state /\ k.made = job[m].made
      BY <1>2 DEF Job
    <3>2. job' = [job EXCEPT ![m] = k]
      BY <2>1 DEF Crash
    <3>3. k.state \in {"waiting", "active"} => k.made < MaxAttempts
      BY <1>1, <3>1, TypeInvParts DEF QueueOK, JobOK
    <3> HIDE DEF k
    <3> QED
      BY <1>1, <3>1, <3>2, <3>3, QueueAfter
  <2>2. CASE job[m].owner # w
    BY <2>2, TypeInvParts DEF Crash, QueueOK, JobOK
  <2> QED
    BY <2>1, <2>2
<1>4. DataOK' /\ UNCHANGED <<raw, verified>>
  BY ProcessorAssumption, FaultOK, TypeInvParts DEF Crash, DataOK
<1> QED
  BY <1>3, <1>4, IdleOK, SlotStep DEF Crash

LEMMA CallFailsOK ==
    ASSUME TypeInv, NEW w \in Workers, CallFails(w), Others
    PROVE  TypeInv'
<1>1. run[w].pc # "idle"
  BY DEF CallFails, At
<1>2. DataOK' /\ QueueOK' /\ UNCHANGED <<raw, verified>>
  BY ProcessorAssumption, FaultOK, TypeInvParts DEF CallFails, DataOK, QueueOK, JobOK, storeVars
<1> QED
  BY <1>1, <1>2, GotoOK, SlotStep DEF CallFails, Goto, PC

(* The queue acts alone: no slot moves. *)
LEMMA QueueOnly ==
    ASSUME TypeInv, QueueOK', DataOK', Others,
           UNCHANGED <<message, raw, events, suppression, usage, verified, run>>
    PROVE  TypeInv'
BY DEF TypeInv, TypeOK, StoreTypeOK, ProcessorTypeOK, RetentionTypeOK, DataOK,
       QueueOK, RunOK, Others, retentionVars

LEMMA LoseLockOK ==
    ASSUME TypeInv, NEW w \in Workers, NEW m \in Messages, LoseLock(w, m), Others
    PROVE  TypeInv'
<1>1. job[m] \in Job /\ job[m].made < MaxAttempts
  BY TypeInvParts DEF LoseLock, QueueOK, JobOK
<1>2. QueueOK'
  BY <1>1, ReclaimedOK, QueueAfter DEF LoseLock
<1>3. DataOK'
  BY ProcessorAssumption, FaultOK, TypeInvParts DEF LoseLock, DataOK
<1> QED
  BY <1>2, <1>3, QueueOnly DEF LoseLock

LEMMA ReclaimJobOK ==
    ASSUME TypeInv, NEW m \in Messages, ReclaimJob(m), Others
    PROVE  TypeInv'
<1>1. job[m] \in Job /\ job[m].made < MaxAttempts
  BY TypeInvParts DEF ReclaimJob, QueueOK, JobOK
<1>2. QueueOK'
  BY <1>1, ReclaimedOK, QueueAfter DEF ReclaimJob
<1>3. DataOK'
  BY TypeInvParts DEF ReclaimJob, DataOK, processorVars
<1> QED
  BY <1>2, <1>3, QueueOnly DEF ReclaimJob, processorVars

(* The retention job touches no slot and no job. *)
LEMMA RetentionOK ==
    ASSUME TypeInv, RetentionStep
    PROVE  TypeInv'
<1>1. UNCHANGED <<suppression, usage, verified, job, processorVars, domainChanges>>
  BY DEF RetentionStep, RetentionNext, SweepStep, FindContent, DeleteRaw, MarkDeleted,
         FindRecords, DeleteLeftovers, DeleteEvents, DeleteMessages, AbortSweep, GrowOld,
         storeVars
<1>2. message' \in [Messages -> MessageDoc]
  <2>0. message \in [Messages -> MessageDoc]
    BY TypeInvParts DEF DataOK
  <2>1. CASE UNCHANGED message
    BY <2>0, <2>1
  <2>2. CASE MarkDeleted
    <3>1. PICK m \in sweep.files :
             message' = [message EXCEPT ![m] =
                IF ~@.exists THEN @
                ELSE [@ EXCEPT !.rawDeleted = TRUE, !.status = MarkedStatus(m)]]
      BY <2>2 DEF MarkDeleted
    <3>2. m \in Messages
      BY DEF TypeInv, TypeOK, RetentionTypeOK, Sweep
    <3>3. MarkedStatus(m) \in NonTerminal \cup Terminal
      BY <2>0, <3>2 DEF MarkedStatus, MessageDoc, Terminal
    <3>4. [message[m] EXCEPT !.rawDeleted = TRUE, !.status = MarkedStatus(m)] \in MessageDoc
      BY <2>0, <3>2, <3>3 DEF MessageDoc
    <3> QED
      BY <2>0, <3>1, <3>4
  <2>3. CASE DeleteMessages
    <3>1. \A m \in Messages : [message[m] EXCEPT !.exists = FALSE] \in MessageDoc
      BY <2>0 DEF MessageDoc
    <3> QED
      BY <2>0, <2>3, <3>1 DEF DeleteMessages
  <2> QED
    BY <2>1, <2>2, <2>3
    DEF RetentionStep, RetentionNext, SweepStep, FindContent, DeleteRaw, FindRecords,
        DeleteLeftovers, DeleteEvents, AbortSweep, GrowOld, storeVars
<1>3. (raw \subseteq Messages)' /\ events' \subseteq events
  BY DEF RetentionStep, RetentionNext, SweepStep, FindContent, DeleteRaw, MarkDeleted,
         FindRecords, DeleteLeftovers, DeleteEvents, DeleteMessages, AbortSweep, GrowOld,
         storeVars, RawWithout, TypeInv, TypeOK, StoreTypeOK
<1>4. RetentionTypeOK'
  <2>1. RetentionTypeOK /\ sweep \in Sweep
    BY DEF TypeInv, TypeOK, RetentionTypeOK
  <2>2. AtRest \in Sweep
    BY DEF AtRest, Sweep
  <2>3. CASE \E m \in Messages : GrowOld(m)
    BY RetentionAssumption, <2>1, <2>3 DEF GrowOld, RetentionTypeOK
  <2>4. CASE AbortSweep
    BY RetentionAssumption, <2>1, <2>2, <2>4 DEF AbortSweep, RetentionTypeOK
  <2>5. CASE SweepStep
    <3>1. sweep' \in Sweep
      <4>1. CASE FindContent
        BY <2>2, <4>1 DEF FindContent, Expired, Sweep
      <4>2. CASE \E m \in Messages : DeleteRaw(m)
        <5>1. PICK m \in Messages : sweep' = [sweep EXCEPT !.pc = "mark", !.files = {m}]
          BY <4>2 DEF DeleteRaw
        <5> QED
          BY <2>1, <5>1 DEF Sweep
      <4>3. CASE MarkDeleted
        <5>1. PICK m \in sweep.files :
                 \/ sweep' = AtRest
                 \/ sweep' = [sweep EXCEPT !.pc = "content", !.batch = @ \ {m}, !.files = {}]
          BY <4>3 DEF MarkDeleted
        <5>2. sweep.batch \ {m} \in SUBSET Messages
          BY <2>1 DEF Sweep
        <5> QED
          BY <2>1, <2>2, <5>1, <5>2 DEF Sweep
      <4>4. CASE FindRecords
        BY <2>2, <4>4 DEF FindRecords, Outdated, Sweep
      <4>5. CASE DeleteLeftovers
        BY <2>1, <4>5 DEF DeleteLeftovers, Sweep
      <4>6. CASE DeleteEvents
        BY <2>1, <4>6 DEF DeleteEvents, Sweep
      <4>7. CASE DeleteMessages
        BY <2>2, <4>7 DEF DeleteMessages
      <4> QED
        BY <2>5, <4>1, <4>2, <4>3, <4>4, <4>5, <4>6, <4>7 DEF SweepStep
    <3>2. UNCHANGED <<age, aborts>>
      BY <2>5 DEF SweepStep, FindContent, DeleteRaw, MarkDeleted, FindRecords,
          DeleteLeftovers, DeleteEvents, DeleteMessages
    <3> QED
      BY <2>1, <3>1, <3>2 DEF RetentionTypeOK
  <2> QED
    BY <2>3, <2>4, <2>5 DEF RetentionStep, RetentionNext
<1> QED
  BY <1>1, <1>2, <1>3, <1>4
  DEF TypeInv, TypeOK, StoreTypeOK, ProcessorTypeOK, JobOK, RunOK, processorVars

LEMMA ChangeDomainOK ==
    ASSUME TypeInv, NEW d \in SendingDomains, ChangeDomain(d)
    PROVE  TypeInv'
BY DeliveryAssumption DEF ChangeDomain, TypeInv, TypeOK, StoreTypeOK, ProcessorTypeOK, RetentionTypeOK,
       JobOK, RunOK, processorVars, retentionVars

LEMMA StutterOK ==
    ASSUME TypeInv, UNCHANGED vars
    PROVE  TypeInv'
BY DEF vars, storeVars, processorVars, retentionVars, TypeInv, TypeOK, StoreTypeOK,
       ProcessorTypeOK, RetentionTypeOK, JobOK, RunOK

LEMMA NextTypeInv == TypeInv /\ [Next]_vars => TypeInv'
<1> SUFFICES ASSUME TypeInv, [Next]_vars PROVE TypeInv'
  OBVIOUS
<1>1. CASE QueueStep
  BY <1>1, TakeJobOK DEF QueueStep
<1>2. ASSUME NEW w \in Workers, WorkerStep(w) PROVE TypeInv'
  <2>1. Others
    BY <1>2 DEF WorkerStep
  <2>2. ASSUME NEW a \in run[w].todo, NEW n \in 0 .. MaxTargets, NextDomain(w, DomainOf[a], n)
        PROVE  TypeInv'
    BY <2>1, <2>2, NextDomainOK
  <2> QED
    BY <1>2, <2>1, <2>2, FindMessageOK, SaveStartOK, CheckDomainOK, LoadRawOK,
       ReadSuppressionsOK, ApplyResultOK, FailDeferredOK, SuppressOK, NotifySenderOK,
       RecordEventOK, MxAcceptsOK, MxRefusesOK, MxDefersOK,
       FailUnverifiedOK, FinalizeStatusOK, GiveUpOK, SaveOutcomeOK, CompleteJobOK, FailJobOK
    DEF WorkerStep, Step
<1>3. ASSUME NEW w \in Workers, FaultStep(w) PROVE TypeInv'
  BY <1>3, MxReplyLostOK, CrashOK, CallFailsOK, LoseLockOK DEF FaultStep, Mishap
<1>4. ASSUME NEW m \in Messages, ReclaimStep(m) PROVE TypeInv'
  BY <1>4, ReclaimJobOK DEF ReclaimStep
<1>5. CASE RetentionStep
  BY <1>5, RetentionOK
<1>6. ASSUME NEW d \in SendingDomains, ChangeDomain(d) PROVE TypeInv'
  BY <1>6, ChangeDomainOK
<1>7. CASE UNCHANGED vars
  BY <1>7, StutterOK
<1> QED
  BY <1>1, <1>2, <1>3, <1>4, <1>5, <1>6, <1>7 DEF Next

(* Every variable keeps its type, whatever the bounds: in particular no job *)
(* is given more than MaxAttempts attempts or MaxStalled second chances.    *)
THEOREM TypeCorrect == Spec => []TypeOK
<1>1. TypeInv => TypeOK
  BY DEF TypeInv
<1> QED
  BY <1>1, InitTypeInv, NextTypeInv, PTL DEF Spec
-----------------------------------------------------------------------------
(***************************************************************************)
(* Safety: what is reported as delivered was accepted by an MX, suppressed *)
(* addresses are not contacted, and no content outlives its record.        *)
(***************************************************************************)

(* A slot says that a recipient got the message: in its copy of the         *)
(* document, or in a result it has still to apply.                          *)
Says(r, a) == r.to[a] = "delivered" \/ r.results[a] = "delivered"

(* What a slot says is true, and the addresses it may still contact were    *)
(* not suppressed when it began.                                            *)
SlotTrue(r, box, sup) ==
    /\ \A a \in Addresses : Says(r, a) => r.msg \in Messages /\ box[r.msg][a] > 0
    /\ r.knew \subseteq sup
    /\ r.todo \cap r.knew = {}
    /\ r.group \cap r.knew = {}

SafeInv ==
    /\ DeliveredWasAccepted
    /\ \A w \in Workers : SlotTrue(run[w], inbox, suppression)

(* Copies do not disappear from mailboxes, nor addresses from the list. *)
Grows ==
    /\ \A m \in Messages, a \in Addresses : inbox[m][a] > 0 => inbox'[m][a] > 0
    /\ suppression \subseteq suppression'

(* A step of one slot that keeps the documents truthful *)
LEMMA TrueStep ==
    ASSUME TypeInv, SafeInv, NEW w \in Workers, NEW q, Become(w, q), Grows,
           SlotTrue(q, inbox', suppression'), DeliveredWasAccepted'
    PROVE  SafeInv'
<1>1. run \in [Workers -> Run] /\ run' = [run EXCEPT ![w] = q]
  BY TypeInvParts DEF Become
<1>2. ASSUME NEW v \in Workers PROVE SlotTrue(run'[v], inbox', suppression')
  <2>1. CASE v = w
    BY <1>1, <2>1
  <2>2. CASE v # w
    BY <1>1, <2>2 DEF SafeInv, SlotTrue, Grows
  <2> QED
    BY <2>1, <2>2
<1> QED
  BY <1>2 DEF SafeInv

(* The slot says nothing new and contacts nobody new. *)
Quiet(q, r) ==
    /\ q.msg = r.msg
    /\ q.knew = r.knew
    /\ q.todo \subseteq r.todo
    /\ q.group \subseteq r.group \cup r.todo
    /\ \A a \in Addresses : Says(q, a) => Says(r, a)

LEMMA QuietTrue ==
    ASSUME TypeInv, SafeInv, NEW w \in Workers, NEW q, Quiet(q, run[w]), Grows
    PROVE  SlotTrue(q, inbox', suppression')
BY DEF SafeInv, SlotTrue, Quiet, Grows

LEMMA QuietStep ==
    ASSUME TypeInv, SafeInv, NEW w \in Workers, NEW q, Become(w, q),
           Quiet(q, run[w]), Grows, UNCHANGED message
    PROVE  SafeInv'
<1>1. SlotTrue(q, inbox', suppression')
  BY QuietTrue
<1>2. DeliveredWasAccepted'
  BY DEF SafeInv, DeliveredWasAccepted, Grows
<1> QED
  BY <1>1, <1>2, TrueStep

LEMMA GotoQuiet ==
    ASSUME TypeInv, NEW w \in Workers, NEW pc
    PROVE  Quiet([run[w] EXCEPT !.pc = pc], run[w])
<1>1. run[w] \in Run
  BY TypeInvParts
<1> QED
  BY <1>1 DEF Quiet, Says, Run

LEMMA IdleTrue == \A box, sup : SlotTrue(Idle, box, sup)
BY DEF SlotTrue, Says, Idle, NoResults

LEMMA InitSafe == Init => SafeInv
<1> SUFFICES ASSUME Init PROVE SafeInv
  OBVIOUS
<1>1. DeliveredWasAccepted
  <2>1. ASSUME NEW m \in Messages, NEW a \in Addresses PROVE message[m].to[a] # "delivered"
    BY DEF Init, StoreInit, Accepted
  <2> QED
    BY <2>1 DEF DeliveredWasAccepted
<1>2. \A w \in Workers : run[w] = Idle
  BY DEF Init, ProcessorInit
<1> QED
  BY <1>1, <1>2, IdleTrue DEF SafeInv

LEMMA TakeJobSafe ==
    ASSUME TypeInv, SafeInv, NEW w \in Workers, NEW m \in Messages, TakeJob(w, m)
    PROVE  SafeInv'
<1> DEFINE q == [Idle EXCEPT !.pc = "load", !.msg = m, !.made = job[m].made,
                             !.knew = suppression]
<1>1. Become(w, q) /\ Grows /\ UNCHANGED <<message, inbox, suppression>>
  BY DEF TakeJob, Grows
<1>2. SlotTrue(q, inbox', suppression')
  BY <1>1 DEF SlotTrue, Says, Idle, NoResults
<1>3. DeliveredWasAccepted'
  BY <1>1 DEF SafeInv, DeliveredWasAccepted
<1> QED
  BY <1>1, <1>2, <1>3, TrueStep

LEMMA FindMessageSafe ==
    ASSUME TypeInv, SafeInv, NEW w \in Workers, FindMessage(w)
    PROVE  SafeInv'
<1> DEFINE r == run[w]
           doc == message[r.msg]
           q == [r EXCEPT !.pc = "start", !.to = doc.to, !.status = "sending",
                          !.touched = doc.status # "sending"]
<1>1. r \in Run /\ r.msg \in Messages
  BY TypeInvParts DEF FindMessage, At, RunOK, SlotOK
<1>2. Grows /\ UNCHANGED <<message, inbox, suppression>>
  BY DEF FindMessage, Grows, storeVars
<1>3. CASE Become(w, q)
  <2>1. /\ q.to = doc.to /\ q.results = r.results /\ q.msg = r.msg
        /\ q.knew = r.knew /\ q.todo = r.todo /\ q.group = r.group
    BY <1>1 DEF Run
  <2> HIDE DEF q
  <2>2. SlotTrue(q, inbox', suppression')
    BY <1>1, <1>2, <2>1 DEF SafeInv, SlotTrue, Says, DeliveredWasAccepted
  <2>3. DeliveredWasAccepted'
    BY <1>2 DEF SafeInv, DeliveredWasAccepted
  <2> QED
    BY <1>2, <1>3, <2>2, <2>3, TrueStep
<1>4. CASE Goto(w, "ack")
  BY <1>2, <1>4, GotoQuiet, QuietStep DEF Goto
<1> QED
  BY <1>3, <1>4 DEF FindMessage

LEMMA SaveThenSafe ==
    ASSUME TypeInv, SafeInv, NEW w \in Workers, run[w].pc # "idle", NEW pc, SaveThen(w, pc),
           UNCHANGED <<inbox, suppression>>
    PROVE  SafeInv'
<1> DEFINE r == run[w]
           m == r.msg
           q == [r EXCEPT !.pc = pc, !.touched = FALSE, !.dirty = {}]
<1>1. r \in Run /\ m \in Messages
  BY TypeInvParts DEF RunOK, SlotOK
<1>2. Grows
  BY DEF Grows
<1>3. CASE message' = [message EXCEPT ![m] = Written(m, r)] /\ Become(w, q)
  <2>1. Quiet(q, r)
    BY <1>1 DEF Quiet, Says, Run
  <2>2. SlotTrue(q, inbox', suppression')
    BY <1>2, <2>1, QuietTrue
  <2>3. DeliveredWasAccepted'
    <3>1. message \in [Messages -> MessageDoc]
      BY TypeInvParts DEF DataOK
    <3>2. ASSUME NEW a \in Addresses, Written(m, r).to[a] = "delivered"
          PROVE  inbox[m][a] > 0
      <4>1. Written(m, r).to[a] = IF a \in r.dirty THEN r.to[a] ELSE message[m].to[a]
        BY <1>1, <3>1 DEF Written, MessageDoc
      <4> QED
        BY <1>1, <3>2, <4>1 DEF SafeInv, SlotTrue, Says, DeliveredWasAccepted
    <3> QED
      BY <1>1, <1>3, <3>1, <3>2 DEF SafeInv, DeliveredWasAccepted
  <2> QED
    BY <1>2, <1>3, <2>2, <2>3, TrueStep
<1>4. CASE Goto(w, "throw") /\ UNCHANGED message
  BY <1>2, <1>4, GotoQuiet, QuietStep DEF Goto
<1> QED
  BY <1>3, <1>4 DEF SaveThen

(* The steps of a slot in memory only. *)
LEMMA MemorySafe ==
    ASSUME TypeInv, SafeInv, NEW w \in Workers,
           CheckDomain(w) \/ LoadRaw(w) \/ FailUnverified(w) \/ FinalizeStatus(w) \/ GiveUp(w)
    PROVE  SafeInv'
<1> DEFINE r == run[w]
<1>1. r \in Run
  BY TypeInvParts
<1>2. Grows /\ UNCHANGED message
  BY DEF CheckDomain, LoadRaw, FailUnverified, FinalizeStatus, GiveUp, Grows, storeVars
<1>3. CASE \E A, ph : Become(w, [r EXCEPT !.pc = "apply", !.phase = ph,
                                          !.results = ResultFor(A, "bounced")])
  <2>1. PICK A, ph : Become(w, [r EXCEPT !.pc = "apply", !.phase = ph,
                                         !.results = ResultFor(A, "bounced")])
    BY <1>3
  <2>2. Quiet([r EXCEPT !.pc = "apply", !.phase = ph, !.results = ResultFor(A, "bounced")], r)
    BY <1>1 DEF Quiet, Says, Run, ResultFor
  <2> QED
    BY <1>2, <2>1, <2>2, QuietStep
<1>4. CASE \E pc : Goto(w, pc)
  BY <1>2, <1>4, GotoQuiet, QuietStep DEF Goto
<1>5. CASE \E s : Become(w, [Settled(r) EXCEPT !.status = s])
  <2>1. PICK s : Become(w, [Settled(r) EXCEPT !.status = s])
    BY <1>5
  <2>2. Quiet([Settled(r) EXCEPT !.status = s], r)
    BY <1>1 DEF Quiet, Says, Run, Settled
  <2> QED
    BY <1>2, <2>1, <2>2, QuietStep
<1>6. CASE \E A : Become(w, [r EXCEPT !.phase = "exhaust", !.results = ResultFor(A, "failed")])
  <2>1. PICK A : Become(w, [r EXCEPT !.phase = "exhaust", !.results = ResultFor(A, "failed")])
    BY <1>6
  <2>2. Quiet([r EXCEPT !.phase = "exhaust", !.results = ResultFor(A, "failed")], r)
    BY <1>1 DEF Quiet, Says, Run, ResultFor
  <2> QED
    BY <1>2, <2>1, <2>2, QuietStep
<1>7. CASE CheckDomain(w)
  BY <1>3, <1>4, <1>7 DEF CheckDomain
<1>8. CASE LoadRaw(w)
  BY <1>4, <1>8 DEF LoadRaw
<1>9. CASE FailUnverified(w) \/ GiveUp(w)
  BY <1>5, <1>9 DEF FailUnverified, GiveUp
<1>10. CASE FinalizeStatus(w)
  BY <1>5, <1>6, <1>10 DEF FinalizeStatus
<1> QED
  BY <1>7, <1>8, <1>9, <1>10

(* Whoever is suppressed is not tried in this run, and the list only grows. *)
LEMMA ReadSuppressionsSafe ==
    ASSUME TypeInv, SafeInv, NEW w \in Workers, ReadSuppressions(w)
    PROVE  SafeInv'
<1> DEFINE r == run[w]
           q == [r EXCEPT !.pc = "apply", !.phase = "send",
                          !.results = ResultFor(Suppressed(r), "bounced"),
                          !.todo = Pending(r) \ Suppressed(r)]
<1>1. r \in Run
  BY TypeInvParts
<1>2. Become(w, q) /\ Grows /\ UNCHANGED <<message, inbox, suppression>>
  BY DEF ReadSuppressions, Grows, storeVars
<1>3. /\ q.to = r.to /\ q.results = ResultFor(Suppressed(r), "bounced") /\ q.msg = r.msg
      /\ q.knew = r.knew /\ q.todo = Pending(r) \ Suppressed(r) /\ q.group = r.group
  BY <1>1 DEF Run
<1> HIDE DEF q
<1>4. \A a \in Addresses : Says(q, a) => Says(r, a)
  BY <1>3 DEF Says, ResultFor
<1>5. SlotTrue(r, inbox, suppression)
  BY DEF SafeInv
<1>6. q.todo \cap q.knew = {}
  BY <1>3, <1>5 DEF SlotTrue, Suppressed
<1>7. SlotTrue(q, inbox', suppression')
  BY <1>2, <1>3, <1>4, <1>5, <1>6 DEF SlotTrue
<1>8. DeliveredWasAccepted'
  BY <1>2 DEF SafeInv, DeliveredWasAccepted
<1> QED
  BY <1>2, <1>7, <1>8, TrueStep

(* Applying a result: the recipient becomes what the result says. *)
LEMMA ApplySafe ==
    ASSUME TypeInv, SafeInv, NEW w \in Workers, NEW a \in Addresses,
           ApplyResult(w, a) \/ FailDeferred(w, a)
    PROVE  SafeInv'
<1> DEFINE r == run[w]
<1>1. r \in Run
  BY TypeInvParts
<1>2. Grows /\ UNCHANGED message
  BY DEF ApplyResult, FailDeferred, Grows
<1>3. PICK pc, dirty, o :
         /\ Become(w, [r EXCEPT !.pc = pc, !.cur = a,
                                !.results = [@ EXCEPT ![a] = "none"],
                                !.to = [@ EXCEPT ![a] = o], !.dirty = dirty])
         /\ o = r.results[a]
  <2>1. CASE ApplyResult(w, a)
    BY <2>1 DEF ApplyResult
  <2>2. CASE FailDeferred(w, a)
    BY <2>2 DEF FailDeferred
  <2> QED
    BY <2>1, <2>2
<1> DEFINE q == [r EXCEPT !.pc = pc, !.cur = a,
                          !.results = [@ EXCEPT ![a] = "none"],
                          !.to = [@ EXCEPT ![a] = o], !.dirty = dirty]
<1>4. Quiet(q, r)
  <2>1. /\ q.msg = r.msg /\ q.knew = r.knew /\ q.todo = r.todo /\ q.group = r.group
        /\ q.results = [r.results EXCEPT ![a] = "none"]
        /\ q.to = [r.to EXCEPT ![a] = o]
    BY <1>1 DEF Run
  <2> HIDE DEF q
  <2>2. r.results \in [Addresses -> Outcome] /\ r.to \in [Addresses -> RecipientStatus]
    BY <1>1 DEF Run
  <2>3. ASSUME NEW b \in Addresses, Says(q, b) PROVE Says(r, b)
    BY <1>3, <2>1, <2>2, <2>3 DEF Says
  <2> QED
    BY <2>1, <2>3 DEF Quiet
<1> QED
  BY <1>2, <1>3, <1>4, QuietStep

LEMMA EffectsSafe ==
    ASSUME TypeInv, SafeInv, NEW w \in Workers,
           Suppress(w) \/ NotifySender(w) \/ RecordEvent(w)
    PROVE  SafeInv'
<1> DEFINE r == run[w]
<1>1. r \in Run
  BY TypeInvParts
<1>2. Grows /\ UNCHANGED message
  BY DEF Suppress, NotifySender, RecordEvent, Grows, storeVars
<1>3. CASE Suppress(w) \/ NotifySender(w)
  BY <1>2, <1>3, GotoQuiet, QuietStep DEF Suppress, NotifySender, Goto
<1>4. CASE RecordEvent(w)
  <2>1. Quiet([r EXCEPT !.pc = "apply", !.cur = NoAddress], r)
    BY <1>1 DEF Quiet, Says, Run
  <2> QED
    BY <1>2, <1>4, <2>1, QuietStep DEF RecordEvent
<1> QED
  BY <1>3, <1>4

LEMMA NextDomainSafe ==
    ASSUME TypeInv, SafeInv, NEW w \in Workers, NEW d, NEW n, NextDomain(w, d, n)
    PROVE  SafeInv'
<1> DEFINE r == run[w]
           group == {a \in r.todo : DomainOf[a] = d}
           q == [r EXCEPT !.pc = IF n = 0 THEN "apply" ELSE "deliver",
                          !.suppress = TRUE,
                          !.todo = StillToTry(r, group),
                          !.group = IF n = 0 THEN {} ELSE group,
                          !.results = IF n = 0 THEN ResultFor(group, WithoutTarget) ELSE @,
                          !.targets = n]
<1>1. r \in Run
  BY TypeInvParts
<1>2. Become(w, q) /\ Grows /\ UNCHANGED message
  BY DEF NextDomain, Grows, storeVars
<1>3. /\ q.msg = r.msg /\ q.knew = r.knew /\ q.to = r.to
      /\ q.todo = StillToTry(r, group)
      /\ q.group = IF n = 0 THEN {} ELSE group
      /\ q.results = IF n = 0 THEN ResultFor(group, WithoutTarget) ELSE r.results
  BY <1>1 DEF Run
<1> HIDE DEF q
<1>4. Quiet(q, r)
  BY <1>3 DEF Quiet, Says, ResultFor, WithoutTarget, StillToTry
<1> QED
  BY <1>2, <1>4, QuietStep

(* What an MX took for a recipient stays taken. *)
LEMMA ReceiveGrows ==
    ASSUME TypeInv, NEW m \in Messages, NEW A, Receive(m, A)
    PROVE  /\ \A k \in Messages, a \in Addresses : inbox[k][a] > 0 => inbox'[k][a] > 0
           /\ \A a \in Addresses : a \in A => inbox'[m][a] > 0
<1>1. inbox \in [Messages -> [Addresses -> Nat]]
  BY TypeInvParts DEF DataOK
<1>2. \A k \in Messages, a \in Addresses :
         inbox'[k][a] = IF k = m /\ a \in A THEN inbox[k][a] + 1 ELSE inbox[k][a]
  BY <1>1 DEF Receive
<1> QED
  BY <1>1, <1>2

LEMMA MxAcceptsSafe ==
    ASSUME TypeInv, SafeInv, NEW w \in Workers, NEW rejected, NEW perm,
           MxAccepts(w, rejected, perm)
    PROVE  SafeInv'
<1> DEFINE r == run[w]
           taken == r.group \ rejected
           results == [a \in Addresses |->
                         IF a \in rejected THEN "bounced"
                         ELSE IF a \in taken THEN "delivered" ELSE "none"]
           q == Answered(r, results)
<1>1. r \in Run /\ r.msg \in Messages
  BY TypeInvParts DEF MxAccepts, At, RunOK, SlotOK
<1>2. Become(w, q) /\ Receive(r.msg, taken) /\ UNCHANGED <<message, suppression>>
  BY DEF MxAccepts, storeVars
<1>3. Grows
  BY <1>1, <1>2, ReceiveGrows DEF Grows
<1>4. /\ q.to = r.to /\ q.results = results /\ q.msg = r.msg
      /\ q.knew = r.knew /\ q.todo = r.todo /\ q.group = {}
  BY <1>1 DEF Answered, Run
<1> HIDE DEF q
<1>5. SlotTrue(r, inbox, suppression)
  BY DEF SafeInv
<1>6. ASSUME NEW a \in Addresses, Says(q, a) PROVE inbox'[r.msg][a] > 0
  <2>1. CASE r.to[a] = "delivered"
    BY <1>1, <1>3, <1>5, <2>1 DEF SlotTrue, Says, Grows
  <2>2. CASE results[a] = "delivered"
    <3>1. a \in taken
      BY <2>2
    <3> QED
      BY <1>1, <1>2, <3>1, ReceiveGrows
  <2> QED
    BY <1>4, <1>6, <2>1, <2>2 DEF Says
<1>7. SlotTrue(q, inbox', suppression')
  BY <1>1, <1>2, <1>4, <1>5, <1>6 DEF SlotTrue
<1>8. DeliveredWasAccepted'
  BY <1>2, <1>3 DEF SafeInv, DeliveredWasAccepted, Grows
<1> QED
  BY <1>2, <1>3, <1>7, <1>8, TrueStep

LEMMA AnsweredQuiet ==
    ASSUME TypeInv, NEW w \in Workers, NEW A, NEW o, o # "delivered"
    PROVE  Quiet(Answered(run[w], ResultFor(A, o)), run[w])
<1> DEFINE r == run[w]
           q == Answered(r, ResultFor(A, o))
<1>1. r \in Run
  BY TypeInvParts
<1>2. /\ q.to = r.to /\ q.results = ResultFor(A, o) /\ q.msg = r.msg
      /\ q.knew = r.knew /\ q.todo = r.todo /\ q.group = {}
  BY <1>1 DEF Answered, Run
<1> HIDE DEF q
<1>3. Quiet(q, r)
  BY <1>2 DEF Quiet, Says, ResultFor
<1> QED
  BY <1>3 DEF q

LEMMA MxRefusesSafe ==
    ASSUME TypeInv, SafeInv, NEW w \in Workers, NEW perm, MxRefuses(w, perm)
    PROVE  SafeInv'
<1>1. Grows /\ UNCHANGED message
  BY DEF MxRefuses, Grows, storeVars
<1> QED
  BY <1>1, AnsweredQuiet, QuietStep DEF MxRefuses

LEMMA NextTargetSafe ==
    ASSUME TypeInv, SafeInv, NEW w \in Workers, NextTarget(w), Grows, UNCHANGED message
    PROVE  SafeInv'
<1> DEFINE r == run[w]
<1>1. r \in Run
  BY TypeInvParts
<1>2. CASE r.targets > 1
  <2>1. Quiet([r EXCEPT !.targets = @ - 1], r)
    BY <1>1 DEF Quiet, Says, Run
  <2> QED
    BY <1>2, <2>1, QuietStep DEF NextTarget
<1>3. CASE ~(r.targets > 1)
  BY <1>3, AnsweredQuiet, QuietStep DEF NextTarget, AfterLastTarget
<1> QED
  BY <1>2, <1>3

LEMMA MxDefersSafe ==
    ASSUME TypeInv, SafeInv, NEW w \in Workers, MxDefers(w) \/ MxReplyLost(w)
    PROVE  SafeInv'
<1>1. NextTarget(w) /\ UNCHANGED <<message, suppression>>
  BY DEF MxDefers, MxReplyLost, storeVars
<1>2. Grows
  <2>1. CASE MxDefers(w)
    BY <2>1 DEF MxDefers, Grows, storeVars
  <2>2. CASE MxReplyLost(w)
    <3>1. run[w].msg \in Messages /\ Receive(run[w].msg, run[w].group)
      BY <2>2, TypeInvParts DEF MxReplyLost, At, RunOK, SlotOK
    <3> QED
      BY <1>1, <3>1, ReceiveGrows DEF Grows
  <2> QED
    BY <2>1, <2>2
<1> QED
  BY <1>1, <1>2, NextTargetSafe

LEMMA SaveSafe ==
    ASSUME TypeInv, SafeInv, NEW w \in Workers, SaveStart(w) \/ SaveOutcome(w)
    PROVE  SafeInv'
BY SaveThenSafe DEF SaveStart, SaveOutcome, At

(* A slot that lets go of its job says nothing. *)
LEMMA LetGoSafe ==
    ASSUME TypeInv, SafeInv, NEW w \in Workers, CompleteJob(w) \/ FailJob(w) \/ Crash(w)
    PROVE  SafeInv'
<1>1. Become(w, Idle) /\ UNCHANGED <<message, inbox, suppression>>
  BY DEF CompleteJob, FailJob, Crash, Finish
<1>2. Grows /\ DeliveredWasAccepted'
  BY <1>1 DEF Grows, SafeInv, DeliveredWasAccepted
<1> QED
  BY <1>1, <1>2, IdleTrue, TrueStep

LEMMA CallFailsSafe ==
    ASSUME TypeInv, SafeInv, NEW w \in Workers, CallFails(w)
    PROVE  SafeInv'
<1>1. Grows /\ UNCHANGED message
  BY DEF CallFails, Grows, storeVars
<1> QED
  BY <1>1, GotoQuiet, QuietStep DEF CallFails, Goto

(* Retention leaves the recipients of a message alone. *)
LEMMA RetentionSafe ==
    ASSUME TypeInv, SafeInv, RetentionStep
    PROVE  SafeInv'
<1>1. UNCHANGED <<run, inbox, suppression>>
  BY DEF RetentionStep, RetentionNext, SweepStep, FindContent, DeleteRaw, MarkDeleted,
         FindRecords, DeleteLeftovers, DeleteEvents, DeleteMessages, AbortSweep, GrowOld,
         storeVars, processorVars
<1>2. \A m \in Messages : message'[m].to = message[m].to
  <2>0. message \in [Messages -> MessageDoc]
    BY TypeInvParts DEF DataOK
  <2>1. CASE UNCHANGED message
    BY <2>1
  <2>2. CASE MarkDeleted
    <3>1. PICK k \in sweep.files :
             message' = [message EXCEPT ![k] =
                IF ~@.exists THEN @
                ELSE [@ EXCEPT !.rawDeleted = TRUE, !.status = MarkedStatus(k)]]
      BY <2>2 DEF MarkDeleted
    <3> QED
      BY <2>0, <3>1 DEF MessageDoc
  <2>3. CASE DeleteMessages
    BY <2>0, <2>3 DEF DeleteMessages, MessageDoc
  <2> QED
    BY <2>1, <2>2, <2>3
    DEF RetentionStep, RetentionNext, SweepStep, FindContent, DeleteRaw, FindRecords,
        DeleteLeftovers, DeleteEvents, AbortSweep, GrowOld, storeVars
<1> QED
  BY <1>1, <1>2 DEF SafeInv, DeliveredWasAccepted

LEMMA AloneSafe ==
    ASSUME TypeInv, SafeInv, UNCHANGED <<message, run, inbox, suppression>>
    PROVE  SafeInv'
BY DEF SafeInv, DeliveredWasAccepted

LEMMA NextSafe == TypeInv /\ SafeInv /\ [Next]_vars => SafeInv'
<1> SUFFICES ASSUME TypeInv, SafeInv, [Next]_vars PROVE SafeInv'
  OBVIOUS
<1>1. CASE QueueStep
  BY <1>1, TakeJobSafe DEF QueueStep
<1>2. ASSUME NEW w \in Workers, WorkerStep(w) PROVE SafeInv'
  <2>1. ASSUME NEW a \in run[w].todo, NEW n \in 0 .. MaxTargets, NextDomain(w, DomainOf[a], n)
        PROVE  SafeInv'
    BY <2>1, NextDomainSafe
  <2> QED
    BY <1>2, <2>1, FindMessageSafe, SaveSafe, MemorySafe, ReadSuppressionsSafe, ApplySafe,
       EffectsSafe, MxAcceptsSafe, MxRefusesSafe, MxDefersSafe, LetGoSafe
    DEF WorkerStep, Step
<1>3. ASSUME NEW w \in Workers, FaultStep(w) PROVE SafeInv'
  <2>1. ASSUME NEW m \in Messages, LoseLock(w, m) PROVE SafeInv'
    BY <2>1, AloneSafe DEF LoseLock
  <2> QED
    BY <1>3, <2>1, MxDefersSafe, LetGoSafe, CallFailsSafe DEF FaultStep, Mishap
<1>4. ASSUME NEW m \in Messages, ReclaimStep(m) PROVE SafeInv'
  BY <1>4, AloneSafe DEF ReclaimStep, ReclaimJob, processorVars
<1>5. CASE RetentionStep
  BY <1>5, RetentionSafe
<1>6. ASSUME NEW d \in SendingDomains, ChangeDomain(d) PROVE SafeInv'
  BY <1>6, AloneSafe DEF ChangeDomain, processorVars
<1>7. CASE UNCHANGED vars
  BY <1>7, AloneSafe DEF vars, storeVars, processorVars
<1> QED
  BY <1>1, <1>2, <1>3, <1>4, <1>5, <1>6, <1>7 DEF Next

LEMMA AlwaysTyped == Spec => []TypeInv
BY InitTypeInv, NextTypeInv, PTL DEF Spec

LEMMA AlwaysSafe == Spec => []SafeInv
<1>1. TypeInv /\ TypeInv' /\ SafeInv /\ [Next]_vars => SafeInv'
  BY NextSafe
<1> QED
  BY <1>1, InitSafe, AlwaysTyped, PTL DEF Spec

(* A recipient is recorded as delivered only when an MX has accepted a copy *)
(* for it, whatever crashes, failed calls, lost locks and retries happen    *)
(* between the MX's answer and the save (applyResult, processor.ts:59).     *)
THEOREM DeliveredTrue == Spec => []DeliveredWasAccepted
<1>1. SafeInv => DeliveredWasAccepted
  BY DEF SafeInv
<1> QED
  BY <1>1, AlwaysSafe, PTL

(* No run contacts an address that was suppressed when the run began        *)
(* (processor.ts:142-156), also when several slots work on one job.         *)
THEOREM SuppressionRespected == Spec => []SuppressedNotContacted
<1>1. SafeInv => SuppressedNotContacted
  BY DEF SafeInv, SlotTrue, SuppressedNotContacted
<1> QED
  BY <1>1, AlwaysSafe, PTL
-----------------------------------------------------------------------------
(* The files a sweep is about to stop naming are gone. *)
ContentInv ==
    /\ NoOrphanedContent
    /\ sweep.pc = "mark" => sweep.files \cap raw = {}
    /\ sweep.pc = "records" => sweep.batch \cap raw \subseteq sweep.files
    /\ sweep.pc \in {"events", "purge"} => sweep.batch \cap raw = {}

LEMMA InitContent == Init => ContentInv
BY DEF Init, StoreInit, Accepted, RetentionInit, AtRest, ContentInv, NoOrphanedContent

(* The workers never touch a file, nor the fields retention decides by. *)
LEMMA OthersContent ==
    ASSUME TypeInv, ContentInv, UNCHANGED <<raw, sweep>>,
           \A m \in Messages : /\ message'[m].exists = message[m].exists
                               /\ message'[m].rawDeleted = message[m].rawDeleted
    PROVE  ContentInv'
BY DEF ContentInv, NoOrphanedContent

LEMMA SaveThenContent ==
    ASSUME TypeInv, ContentInv, NEW w \in Workers, run[w].pc # "idle", NEW pc,
           SaveThen(w, pc), UNCHANGED <<raw, sweep>>
    PROVE  ContentInv'
<1> DEFINE r == run[w]
           m == r.msg
<1>1. m \in Messages /\ message \in [Messages -> MessageDoc]
  BY TypeInvParts DEF RunOK, SlotOK, DataOK
<1>2. CASE message' = [message EXCEPT ![m] = Written(m, r)]
  <2>1. /\ Written(m, r).exists = message[m].exists
        /\ Written(m, r).rawDeleted = message[m].rawDeleted
    BY <1>1 DEF Written, MessageDoc
  <2> QED
    BY <1>1, <1>2, <2>1, OthersContent
<1>3. CASE UNCHANGED message
  BY <1>3, OthersContent
<1> QED
  BY <1>2, <1>3 DEF SaveThen

LEMMA WorkerContent ==
    ASSUME TypeInv, ContentInv, NEW w \in Workers, WorkerStep(w) \/ FaultStep(w)
    PROVE  ContentInv'
<1>1. UNCHANGED <<raw, sweep>>
  BY DEF WorkerStep, FaultStep, Others, retentionVars, Step, Mishap, storeVars,
     FindMessage, SaveStart, CheckDomain, LoadRaw, ReadSuppressions, ApplyResult,
     FailDeferred, Suppress, NotifySender, RecordEvent, NextDomain, MxAccepts, MxRefuses,
     MxDefers, FailUnverified, FinalizeStatus, GiveUp, SaveOutcome, CompleteJob, FailJob,
     Finish, MxReplyLost, Crash, CallFails, LoseLock
<1>2. CASE SaveStart(w) \/ SaveOutcome(w)
  BY <1>1, <1>2, SaveThenContent DEF SaveStart, SaveOutcome, At
<1>3. CASE UNCHANGED message
  BY <1>1, <1>3, OthersContent
<1> QED
  BY <1>2, <1>3
  DEF WorkerStep, FaultStep, Step, Mishap, storeVars,
      FindMessage, CheckDomain, LoadRaw, ReadSuppressions, ApplyResult,
      FailDeferred, Suppress, NotifySender, RecordEvent, NextDomain, MxAccepts, MxRefuses,
      MxDefers, FailUnverified, FinalizeStatus, GiveUp, CompleteJob, FailJob,
      Finish, MxReplyLost, Crash, CallFails, LoseLock

(* A file goes before the mark, and the mark or the file before the record. *)
LEMMA RetentionContent ==
    ASSUME TypeInv, ContentInv, RetentionStep
    PROVE  ContentInv'
<1>1. message \in [Messages -> MessageDoc] /\ sweep \in Sweep
  BY DEF TypeInv, TypeOK, StoreTypeOK, RetentionTypeOK
<1>2. CASE AbortSweep \/ \E m \in Messages : GrowOld(m)
  <2>1. CASE AbortSweep
    BY <2>1 DEF AbortSweep, AtRest, storeVars, ContentInv, NoOrphanedContent
  <2>2. CASE \E m \in Messages : GrowOld(m)
    BY <2>2, OthersContent DEF GrowOld, storeVars
  <2> QED
    BY <1>2, <2>1, <2>2
<1>3. CASE FindContent
  BY <1>3 DEF FindContent, AtRest, storeVars, ContentInv, NoOrphanedContent
<1>4. CASE \E m \in Messages : DeleteRaw(m)
  <2>1. PICK m \in Messages : DeleteRaw(m)
    BY <1>4
  <2>2. sweep'.pc = "mark" /\ sweep'.files = {m} /\ raw' = raw \ {m} /\ UNCHANGED message
    BY <1>1, <2>1 DEF DeleteRaw, RawWithout, Sweep
  <2> QED
    BY <2>2 DEF ContentInv, NoOrphanedContent
<1>5. CASE MarkDeleted
  <2>1. PICK m \in sweep.files :
           /\ message' = [message EXCEPT ![m] =
                 IF ~@.exists THEN @
                 ELSE [@ EXCEPT !.rawDeleted = TRUE, !.status = MarkedStatus(m)]]
           /\ sweep' = IF sweep.batch = {m} THEN AtRest
                       ELSE [sweep EXCEPT !.pc = "content", !.batch = @ \ {m}, !.files = {}]
    BY <1>5 DEF MarkDeleted
  <2>2. sweep'.pc \in {"idle", "content"}
    BY <1>1, <2>1 DEF AtRest, Sweep
  <2>3. m \notin raw /\ UNCHANGED raw
    BY <1>5 DEF MarkDeleted, ContentInv
  <2>4. NoOrphanedContent'
    BY <1>1, <2>1, <2>3 DEF ContentInv, NoOrphanedContent, MessageDoc
  <2> QED
    BY <2>2, <2>4 DEF ContentInv
<1>6. CASE FindRecords
  <2>1. /\ sweep'.pc = "records" /\ sweep'.batch = Outdated
        /\ sweep'.files = {m \in Outdated : ~message[m].rawDeleted}
        /\ UNCHANGED <<message, raw>>
    BY <1>6 DEF FindRecords, AtRest, storeVars
  <2> QED
    BY <2>1 DEF ContentInv, NoOrphanedContent, Outdated
<1>7. CASE DeleteLeftovers
  <2>1. /\ sweep'.pc = "events" /\ sweep'.batch = sweep.batch
        /\ raw' = raw \ sweep.files /\ UNCHANGED message
    BY <1>1, <1>7 DEF DeleteLeftovers, RawWithout, Sweep
  <2> QED
    BY <1>7, <2>1 DEF DeleteLeftovers, ContentInv, NoOrphanedContent
<1>8. CASE DeleteEvents
  <2>1. sweep'.pc = "purge" /\ sweep'.batch = sweep.batch /\ UNCHANGED <<message, raw>>
    BY <1>1, <1>8 DEF DeleteEvents, Sweep
  <2> QED
    BY <1>8, <2>1 DEF DeleteEvents, ContentInv, NoOrphanedContent
<1>9. CASE DeleteMessages
  <2>1. sweep'.pc = "idle" /\ UNCHANGED raw /\ sweep.batch \cap raw = {}
    BY <1>9 DEF DeleteMessages, AtRest, ContentInv
  <2>2. NoOrphanedContent'
    BY <1>1, <1>9, <2>1 DEF DeleteMessages, ContentInv, NoOrphanedContent
  <2> QED
    BY <2>1, <2>2 DEF ContentInv
<1> QED
  BY <1>2, <1>3, <1>4, <1>5, <1>6, <1>7, <1>8, <1>9
  DEF RetentionStep, RetentionNext, SweepStep

LEMMA NextContent == TypeInv /\ ContentInv /\ [Next]_vars => ContentInv'
<1> SUFFICES ASSUME TypeInv, ContentInv, [Next]_vars PROVE ContentInv'
  OBVIOUS
<1>1. CASE QueueStep \/ \E m \in Messages : ReclaimStep(m)
  BY <1>1, OthersContent
  DEF QueueStep, TakeJob, ReclaimStep, ReclaimJob, Others, retentionVars
<1>2. CASE \E w \in Workers : WorkerStep(w) \/ FaultStep(w)
  BY <1>2, WorkerContent
<1>3. CASE RetentionStep
  BY <1>3, RetentionContent
<1>4. CASE \E d \in SendingDomains : ChangeDomain(d)
  BY <1>4, OthersContent DEF ChangeDomain, retentionVars
<1>5. CASE UNCHANGED vars
  BY <1>5, OthersContent DEF vars, storeVars, retentionVars
<1> QED
  BY <1>1, <1>2, <1>3, <1>4, <1>5 DEF Next

(* However sweeps are cut short and whatever the workers save meanwhile, no *)
(* file of the bucket is left without an unmarked record that names it      *)
(* (retention.ts:53-54, 83-85).                                             *)
THEOREM ContentAccounted == Spec => []NoOrphanedContent
<1>1. TypeInv /\ TypeInv' /\ ContentInv /\ [Next]_vars => ContentInv'
  BY NextContent
<1>2. ContentInv => NoOrphanedContent
  BY DEF ContentInv
<1> QED
  BY <1>1, <1>2, InitContent, AlwaysTyped, PTL DEF Spec
-----------------------------------------------------------------------------
Kept == faults["stall"] = 0

(* A busy slot holds the lock of its job. *)
Holds(w) ==
    run[w].pc # "idle" =>
        /\ job[run[w].msg].state = "active" /\ job[run[w].msg].owner = w
        /\ job[run[w].msg].made = run[w].made

(* Retention has not touched a message whose job may still run. *)
Fresh(m) == age[m] = 0 /\ m \in raw /\ message[m].exists /\ ~message[m].rawDeleted

Ended(m) == job[m].state \notin {"waiting", "active"}

HoldInv ==
    /\ \A w \in Workers : Holds(w)
    /\ \A m \in Messages : Ended(m) \/ Fresh(m)
    /\ \A m \in sweep.batch : age[m] > 0
    /\ sweep.files \subseteq sweep.batch
-----------------------------------------------------------------------------
(* Faults are only ever added. *)
LEMMA FaultsGrow ==
    ASSUME TypeInv, [Next]_vars
    PROVE  \/ UNCHANGED faults
           \/ \E k \in FaultKinds : Fault(k)
<1>1. CASE QueueStep \/ (\E m \in Messages : ReclaimStep(m)) \/ RetentionStep
           \/ (\E d \in SendingDomains : ChangeDomain(d)) \/ UNCHANGED vars
  BY <1>1 DEF QueueStep, TakeJob, ReclaimStep, ReclaimJob, RetentionStep, ChangeDomain, vars, processorVars
<1>2. ASSUME NEW w \in Workers, WorkerStep(w) PROVE UNCHANGED faults
  BY <1>2 DEF WorkerStep, Step, FindMessage, SaveStart, CheckDomain, LoadRaw, ReadSuppressions, ApplyResult,
     FailDeferred, Suppress, NotifySender, RecordEvent, NextDomain, MxAccepts, MxRefuses,
     MxDefers, FailUnverified, FinalizeStatus, GiveUp, SaveOutcome, CompleteJob, FailJob, Finish
<1>3. ASSUME NEW w \in Workers, FaultStep(w) PROVE \E k \in FaultKinds : Fault(k)
  BY <1>3, ProcessorAssumption DEF FaultStep, Mishap, MxReplyLost, Crash, CallFails, LoseLock
<1> QED
  BY <1>1, <1>2, <1>3 DEF Next

(* Locks that have been kept so far were kept before. *)
LEMMA KeptBack ==
    ASSUME TypeInv, [Next]_vars, Kept'
    PROVE  Kept
<1>1. faults \in [FaultKinds -> Nat] /\ "stall" \in FaultKinds
  BY TypeInvParts, ProcessorAssumption DEF DataOK
<1>2. CASE UNCHANGED faults
  BY <1>2 DEF Kept
<1>3. ASSUME NEW k \in FaultKinds, Fault(k) PROVE Kept
  BY <1>1, <1>3 DEF Fault, Kept
<1> QED
  BY <1>2, <1>3, FaultsGrow

LEMMA NoLostLock ==
    ASSUME TypeInv, Kept', NEW w \in Workers, NEW m \in Messages, LoseLock(w, m)
    PROVE  FALSE
<1>1. faults \in [FaultKinds -> Nat] /\ "stall" \in FaultKinds
  BY TypeInvParts, ProcessorAssumption DEF DataOK
<1> QED
  BY <1>1 DEF LoseLock, Fault, Kept

(* No two slots work on one message. *)
LEMMA OneSlot ==
    ASSUME HoldInv, NEW v \in Workers, NEW w \in Workers, v # w, run[v].pc # "idle", run[w].pc # "idle"
    PROVE  run[v].msg # run[w].msg
BY DEF HoldInv, Holds

(* What a slot works on is fresh. *)
LEMMA BusyFresh ==
    ASSUME TypeInv, HoldInv, NEW w \in Workers, run[w].pc # "idle"
    PROVE  run[w].msg \in Messages /\ Fresh(run[w].msg) /\ run[w] \in Run /\ ~Ended(run[w].msg)
BY TypeInvParts DEF HoldInv, Holds, Ended, RunOK, SlotOK
-----------------------------------------------------------------------------
(* Slot w goes on with its job. *)
Moves(w) ==
    /\ run[w].pc # "idle" /\ run'[w].pc # "idle"
    /\ run'[w].msg = run[w].msg /\ run'[w].made = run[w].made
    /\ \A v \in Workers \ {w} : run'[v] = run[v]
    /\ UNCHANGED <<job, raw, retentionVars>>
    /\ \A m \in Messages : /\ message'[m].exists = message[m].exists
                           /\ message'[m].rawDeleted = message[m].rawDeleted
                           /\ m # run[w].msg => message'[m] = message[m]

LEMMA MovesHold ==
    ASSUME TypeInv, HoldInv, NEW w \in Workers, Moves(w)
    PROVE  HoldInv'
<1>1. ASSUME NEW v \in Workers PROVE Holds(v)'
  BY DEF Moves, HoldInv, Holds
<1>2. ASSUME NEW m \in Messages PROVE (Ended(m) \/ Fresh(m))'
  BY DEF Moves, HoldInv, Ended, Fresh, retentionVars
<1> QED
  BY <1>1, <1>2 DEF HoldInv, Moves, retentionVars

LEMMA BecomeMoves ==
    ASSUME TypeInv, NEW w \in Workers, NEW q, Become(w, q), run[w].pc # "idle", q.pc # "idle",
           q.msg = run[w].msg, q.made = run[w].made, UNCHANGED <<job, raw, message, retentionVars>>
    PROVE  Moves(w)
<1>1. run \in [Workers -> Run] /\ run' = [run EXCEPT ![w] = q]
  BY TypeInvParts DEF Become
<1> QED
  BY <1>1 DEF Moves

LEMMA GotoMoves ==
    ASSUME TypeInv, NEW w \in Workers, NEW pc, pc # "idle", Goto(w, pc), run[w].pc # "idle",
           UNCHANGED <<job, raw, message, retentionVars>>
    PROVE  Moves(w) /\ run'[w] = [run[w] EXCEPT !.pc = pc]
<1>1. run[w] \in Run /\ run \in [Workers -> Run]
  BY TypeInvParts
<1> DEFINE q == [run[w] EXCEPT !.pc = pc]
<1>2. q.pc = pc /\ q.msg = run[w].msg /\ q.made = run[w].made /\ Become(w, q)
  BY <1>1 DEF Run, Goto
<1>3. run'[w] = q
  BY <1>1 DEF Goto, Become
<1> HIDE DEF q
<1>4. Moves(w)
  BY <1>2, BecomeMoves
<1> QED
  BY <1>3, <1>4 DEF q
-----------------------------------------------------------------------------
Early == {"load", "start", "domain", "raw", "suppressions"}
Walking == {"apply", "suppress", "notify", "record", "deliver"}
Loaded == {"start", "domain", "raw", "suppressions", "save"} \cup Walking

(* The document in memory is the stored one, but for the outcomes of this   *)
(* run, which are those of recipients that are stored as open.              *)
InStep(r, doc) ==
    r.pc \in Loaded =>
        \A a \in Addresses :
            /\ a \in r.dirty => r.to[a] \in EventType /\ doc.to[a] \in NonTerminal
            /\ a \notin r.dirty => r.to[a] = doc.to[a]

StatusInStep(r, doc) ==
    /\ r.pc = "start" => /\ r.status = "sending" /\ doc.status \in NonTerminal
                         /\ r.touched \/ doc.status = "sending"
    /\ r.pc \in Loaded \ {"start"} => doc.status = "sending"
    /\ r.pc = "save" => r.touched
    /\ r.pc = "ack" => doc.status \in Terminal

Begun(r) ==
    r.pc \in Early => Unapplied(r) = {} /\ r.dirty = {} /\ r.todo = {} /\ r.group = {}

(* An open recipient is deferred, has a result to apply, or is still to be  *)
(* tried, in one place only; with the retry limit reached, or the domain no *)
(* longer verified, there is a result for each.                             *)
Walk(r) ==
    r.pc \in Walking =>
        /\ r.todo \cap r.group = {}
        /\ r.group # {} => r.pc = "deliver"
        /\ r.pc = "deliver" => r.phase = "send" /\ Unapplied(r) = {}
        /\ r.phase # "send" => r.todo = {}
        /\ \A a \in r.todo \cup r.group : r.to[a] \in NonTerminal /\ r.results[a] = "none"
        /\ \A a \in Addresses :
              /\ r.results[a] # "none" => r.to[a] \in NonTerminal
              /\ r.phase = "send" => r.to[a] # "failed" /\ r.results[a] # "failed"
              /\ r.phase = "unverified" => r.to[a] # "failed" /\ r.results[a] \in {"none", "bounced"}
              /\ r.phase = "exhaust" => r.results[a] \in {"none", "failed"}
              /\ r.to[a] \in NonTerminal /\ r.results[a] = "none" =>
                    r.phase = "send" /\ (r.to[a] = "deferred" \/ a \in r.todo \cup r.group)

(* What finalizeStatus has decided agrees with the recipients. *)
Decided(r) ==
    r.pc = "save" =>
        /\ r.status \in {"deferred"} \cup Terminal
        /\ r.status = "deferred" => r.made + 1 < MaxAttempts /\ \A a \in Addresses : r.to[a] # "failed"
        /\ r.status # "deferred" => \A a \in Addresses : r.to[a] \notin NonTerminal
        /\ r.status = "delivered" => \E a \in Addresses : r.to[a] = "delivered"
        /\ r.status = "bounced" => \A a \in Addresses : r.to[a] \in {"bounced", "absent"}

SlotWalk(r, doc) == InStep(r, doc) /\ StatusInStep(r, doc) /\ Begun(r) /\ Walk(r) /\ Decided(r)

DocOK(doc, R) ==
    /\ \A a \in Addresses : doc.to[a] = "absent" <=> a \notin R
    /\ doc.status \in NonTerminal => \A a \in Addresses : doc.to[a] # "failed"
    /\ doc.status \in {"delivered", "bounced"} => \A a \in R : doc.to[a] \in Terminal
    /\ doc.status = "delivered" => \E a \in R : doc.to[a] = "delivered"
    /\ doc.status = "bounced" => \A a \in R : doc.to[a] = "bounced"

WalkInv ==
    /\ \A w \in Workers : run[w].pc # "idle" => SlotWalk(run[w], message[run[w].msg])
    /\ \A m \in Messages : DocOK(message[m], To[m])

LEMMA MovesWalk ==
    ASSUME TypeInv, HoldInv, WalkInv, NEW w \in Workers, Moves(w),
           SlotWalk(run[w], message[run[w].msg])', DocOK(message[run[w].msg], To[run[w].msg])'
    PROVE  WalkInv'
<1>1. ASSUME NEW v \in Workers, run'[v].pc # "idle" PROVE SlotWalk(run[v], message[run[v].msg])'
  <2>1. CASE v = w
    BY <2>1
  <2>2. CASE v # w
    <3>1. run'[v] = run[v] /\ run[v].pc # "idle"
      BY <1>1, <2>2 DEF Moves
    <3>2. run[v].msg # run[w].msg /\ run[v].msg \in Messages
      BY <2>2, <3>1, OneSlot, BusyFresh DEF Moves
    <3>3. message'[run[v].msg] = message[run[v].msg]
      BY <3>2 DEF Moves
    <3>4. SlotWalk(run[v], message[run[v].msg])
      BY <3>1 DEF WalkInv
    <3> QED
      BY <3>1, <3>3, <3>4
  <2> QED
    BY <2>1, <2>2
<1>2. ASSUME NEW m \in Messages PROVE DocOK(message[m], To[m])'
  <2>1. CASE m = run[w].msg
    BY <2>1 DEF Moves
  <2>2. CASE m # run[w].msg
    <3>1. message'[m] = message[m] /\ DocOK(message[m], To[m])
      BY <2>2 DEF Moves, WalkInv
    <3> QED
      BY <3>1
  <2> QED
    BY <2>1, <2>2
<1> QED
  BY <1>1, <1>2 DEF WalkInv

(* A slot thinks on: the documents stay, and so does what it knows.         *)
Ponders(w) ==
    /\ Moves(w)
    /\ run[w].pc \in Loaded /\ run'[w].pc \in Loaded
    /\ run'[w].to = run[w].to /\ run'[w].dirty = run[w].dirty
    /\ \A a \in Addresses : run[w].results[a] = "delivered" => run'[w].results[a] = "delivered"
    /\ run'[w].cur = run[w].cur \/ (run'[w].cur = NoAddress /\ <<run[w].msg, run[w].to[run[w].cur], run[w].cur>> \in events')
    /\ events \subseteq events'
    /\ UNCHANGED <<message, usage>>

LEMMA PondersWalk ==
    ASSUME TypeInv, HoldInv, WalkInv, NEW w \in Workers, Ponders(w), SlotWalk(run'[w], message[run[w].msg])
    PROVE  WalkInv'
<1>1. SlotWalk(run[w], message[run[w].msg])'
  BY DEF Ponders, Moves
<1>2. DocOK(message[run[w].msg], To[run[w].msg])
  BY BusyFresh DEF WalkInv, Ponders, Moves
<1>3. DocOK(message[run[w].msg], To[run[w].msg])'
  BY <1>2 DEF Ponders, Moves
<1> QED
  BY <1>1, <1>3, MovesWalk DEF Ponders

LEMMA SlotFacts ==
    ASSUME TypeInv, HoldInv, WalkInv, NEW w \in Workers, run[w].pc # "idle"
    PROVE  /\ run[w] \in Run /\ run \in [Workers -> Run] /\ message[run[w].msg] \in MessageDoc
           /\ message \in [Messages -> MessageDoc]
           /\ run[w].msg \in Messages /\ Fresh(run[w].msg)
           /\ SlotWalk(run[w], message[run[w].msg]) /\ DocOK(message[run[w].msg], To[run[w].msg])
BY BusyFresh, TypeInvParts DEF WalkInv, DataOK

LEMMA FindMessageWalk ==
    ASSUME TypeInv, HoldInv, WalkInv, NEW w \in Workers, FindMessage(w), Others
    PROVE  WalkInv' /\ Moves(w)
<1> DEFINE r == run[w]
           doc == message[r.msg]
           q == [r EXCEPT !.pc = "start", !.to = doc.to, !.status = "sending",
                          !.touched = doc.status # "sending"]
<1>1. r.pc = "load" /\ UNCHANGED <<job, raw, message, retentionVars>>
  BY DEF FindMessage, At, storeVars, Others
<1>2. /\ r \in Run /\ doc \in MessageDoc /\ Fresh(r.msg) /\ SlotWalk(r, doc) /\ DocOK(doc, To[r.msg])
      /\ run \in [Workers -> Run] /\ r.msg \in Messages
  BY <1>1, SlotFacts
<1>3. CASE Become(w, q) /\ doc.status \in NonTerminal
  <2>1. run'[w] = q
    BY <1>2, <1>3 DEF Become
  <2>2. /\ q.pc = "start" /\ q.to = doc.to /\ q.status = "sending" /\ q.msg = r.msg /\ q.made = r.made
        /\ q.results = r.results /\ q.dirty = r.dirty /\ q.todo = r.todo /\ q.group = r.group
    BY <1>2 DEF Run
  <2>3. q.touched \/ doc.status = "sending"
    BY <1>2 DEF Run
  <2> HIDE DEF q
  <2>4. Moves(w)
    BY <1>1, <1>3, <2>2, BecomeMoves
  <2>5. SlotWalk(q, doc)
    BY <1>1, <1>2, <1>3, <2>2, <2>3
    DEF SlotWalk, InStep, StatusInStep, Begun, Walk, Decided, Early, Loaded, Walking, Unapplied
  <2>6. SlotWalk(run[w], message[run[w].msg])' /\ DocOK(message[run[w].msg], To[run[w].msg])'
    BY <1>1, <1>2, <2>1, <2>2, <2>5
  <2> QED
    BY <2>4, <2>6, MovesWalk
<1>4. CASE Goto(w, "ack") /\ ~Unfinished(doc)
  <2>1. Moves(w) /\ run'[w] = [r EXCEPT !.pc = "ack"]
    BY <1>1, <1>4, GotoMoves
  <2> DEFINE p == run'[w]
  <2>2. p.pc = "ack" /\ p.msg = r.msg /\ doc.status \in Terminal
    BY <1>2, <1>4, <2>1 DEF Run, Unfinished, Fresh, MessageDoc
  <2> HIDE DEF p
  <2>3. SlotWalk(p, doc)
    BY <2>2 DEF SlotWalk, InStep, StatusInStep, Begun, Walk, Decided, Early, Loaded, Walking
  <2>4. SlotWalk(run[w], message[run[w].msg])' /\ DocOK(message[run[w].msg], To[run[w].msg])'
    BY <1>1, <1>2, <2>2, <2>3 DEF p
  <2> QED
    BY <2>1, <2>4, MovesWalk
<1> QED
  BY <1>3, <1>4 DEF FindMessage, Unfinished

(* What save() stores are the recipients as the slot knows them. *)
LEMMA SaveThenMoves ==
    ASSUME TypeInv, HoldInv, WalkInv, NEW w \in Workers, run[w].pc \in {"start", "save"}, NEW pc, pc # "idle",
           SaveThen(w, pc), Others, UNCHANGED <<raw, job>>
    PROVE  /\ Moves(w) /\ message' = [message EXCEPT ![run[w].msg] = Written(run[w].msg, run[w])]
           /\ run'[w] = [run[w] EXCEPT !.pc = pc, !.touched = FALSE, !.dirty = {}]
           /\ \A a \in Addresses : message'[run[w].msg].to[a] = run[w].to[a]
<1> DEFINE r == run[w]
           m == r.msg
           q == [r EXCEPT !.pc = pc, !.touched = FALSE, !.dirty = {}]
<1>1. /\ r \in Run /\ message \in [Messages -> MessageDoc] /\ message[m] \in MessageDoc /\ m \in Messages
      /\ message[m].exists /\ SlotWalk(r, message[m]) /\ run \in [Workers -> Run]
  BY SlotFacts DEF Fresh
<1>2. message' = [message EXCEPT ![m] = Written(m, r)] /\ Become(w, q)
  BY <1>1 DEF SaveThen
<1>3. run'[w] = q /\ \A v \in Workers \ {w} : run'[v] = run[v]
  BY <1>1, <1>2 DEF Become
<1>4. q.pc = pc /\ q.msg = r.msg /\ q.made = r.made
  BY <1>1 DEF Run
<1>5. Written(m, r).exists = message[m].exists /\ Written(m, r).rawDeleted = message[m].rawDeleted
  BY <1>1 DEF Written, MessageDoc
<1>6. \A a \in Addresses : Written(m, r).to[a] = IF a \in r.dirty THEN r.to[a] ELSE message[m].to[a]
  BY <1>1 DEF Written, MessageDoc
<1>7. \A a \in Addresses : Written(m, r).to[a] = r.to[a]
  BY <1>1, <1>6 DEF SlotWalk, InStep, Loaded
<1>8. message'[m] = Written(m, r) /\ \A k \in Messages : k # m => message'[k] = message[k]
  BY <1>1, <1>2
<1> HIDE DEF q
<1>9. Moves(w)
  BY <1>1, <1>3, <1>4, <1>5, <1>8 DEF Moves, Others
<1> QED
  BY <1>2, <1>3, <1>7, <1>8, <1>9 DEF q

LEMMA SaveStartWalk ==
    ASSUME TypeInv, HoldInv, WalkInv, NEW w \in Workers, SaveStart(w), Others
    PROVE  WalkInv'
<1> DEFINE r == run[w]
           m == r.msg
           q == [r EXCEPT !.pc = "domain", !.touched = FALSE, !.dirty = {}]
<1>1. r.pc = "start" /\ SaveThen(w, "domain") /\ UNCHANGED <<raw, job>>
  BY DEF SaveStart, At
<1>2. /\ Moves(w) /\ message' = [message EXCEPT ![m] = Written(m, r)]
      /\ run'[w] = q /\ \A a \in Addresses : message'[m].to[a] = r.to[a]
  BY <1>1, SaveThenMoves
<1>3. /\ r \in Run /\ message \in [Messages -> MessageDoc] /\ message[m] \in MessageDoc /\ m \in Messages
      /\ SlotWalk(r, message[m]) /\ DocOK(message[m], To[m])
  BY <1>1, SlotFacts
<1>4. r.status = "sending" /\ message[m].status \in NonTerminal /\ (r.touched \/ message[m].status = "sending")
  BY <1>1, <1>3 DEF SlotWalk, StatusInStep
<1>5. message'[m].status = "sending"
  <2>1. message'[m] = Written(m, r)
    BY <1>2, <1>3
  <2>2. Written(m, r).status = IF r.touched THEN r.status ELSE message[m].status
    BY <1>3 DEF Written, MessageDoc
  <2> QED
    BY <1>4, <2>1, <2>2
<1>6. /\ q.pc = "domain" /\ q.msg = m /\ q.to = r.to /\ q.dirty = {} /\ q.results = r.results
      /\ q.todo = r.todo /\ q.group = r.group
  BY <1>3 DEF Run
<1> HIDE DEF q
<1>7. Begun(r)
  BY <1>3 DEF SlotWalk
<1>8. SlotWalk(q, message'[m])
  BY <1>1, <1>2, <1>5, <1>6, <1>7
  DEF SlotWalk, InStep, StatusInStep, Begun, Walk, Decided, Early, Loaded, Walking, Unapplied
<1>9. \A a \in Addresses : message'[m].to[a] = message[m].to[a]
  BY <1>1, <1>2, <1>3, <1>7 DEF SlotWalk, InStep, Begun, Early, Loaded
<1>10. DocOK(message'[m], To[m])
  BY <1>3, <1>4, <1>5, <1>9 DEF DocOK, NonTerminal
<1>11. SlotWalk(run[w], message[run[w].msg])' /\ DocOK(message[run[w].msg], To[run[w].msg])'
  BY <1>2, <1>6, <1>8, <1>10
<1> QED
  BY <1>2, <1>11, MovesWalk

(* The outcome that is stored is settled, unless it is "deferred". *)
LEMMA SaveOutcomeWalk ==
    ASSUME TypeInv, HoldInv, WalkInv, NEW w \in Workers, SaveOutcome(w), Others
    PROVE  WalkInv'
<1> DEFINE r == run[w]
           m == r.msg
           pc == AfterSave(r)
           q == [r EXCEPT !.pc = pc, !.touched = FALSE, !.dirty = {}]
<1>0. pc \in {"throw", "ack"} /\ (pc = "throw" <=> r.status = "deferred")
  BY DEF AfterSave
<1>1. r.pc = "save" /\ SaveThen(w, pc) /\ UNCHANGED <<raw, job>>
  BY DEF SaveOutcome, At
<1> HIDE DEF pc
<1>2. /\ Moves(w) /\ message' = [message EXCEPT ![m] = Written(m, r)]
      /\ run'[w] = q /\ \A a \in Addresses : message'[m].to[a] = r.to[a]
  BY <1>0, <1>1, SaveThenMoves
<1>3. /\ r \in Run /\ message \in [Messages -> MessageDoc] /\ message[m] \in MessageDoc /\ m \in Messages
      /\ SlotWalk(r, message[m]) /\ DocOK(message[m], To[m]) /\ To[m] \subseteq Addresses
  BY <1>1, SlotFacts, StoreAssumption
<1>4. r.touched
  BY <1>1, <1>3 DEF SlotWalk, StatusInStep
<1>5. message'[m].status = r.status
  <2>1. message'[m] = Written(m, r)
    BY <1>2, <1>3
  <2>2. Written(m, r).status = IF r.touched THEN r.status ELSE message[m].status
    BY <1>3 DEF Written, MessageDoc
  <2> QED
    BY <1>4, <2>1, <2>2
<1>6. q.pc = pc /\ q.msg = m /\ q.status = r.status
  BY <1>3 DEF Run
<1> HIDE DEF q
<1>7. Decided(r) /\ r.status \in {"deferred"} \cup Terminal
  BY <1>1, <1>3 DEF SlotWalk, Decided
<1>8. SlotWalk(q, message'[m])
  BY <1>0, <1>5, <1>6, <1>7
  DEF SlotWalk, InStep, StatusInStep, Begun, Walk, Decided, Early, Loaded, Walking
<1>9. \A a \in Addresses : r.to[a] = "absent" <=> a \notin To[m]
  BY <1>1, <1>3 DEF SlotWalk, InStep, Loaded, DocOK, NonTerminal, EventType
<1>10. \A a \in Addresses : r.to[a] \in NonTerminal \cup Terminal \cup {"absent"}
  BY <1>3 DEF Run, RecipientStatus
<1>11. DocOK(message'[m], To[m])
  BY <1>1, <1>2, <1>3, <1>5, <1>7, <1>9, <1>10 DEF DocOK, Decided, NonTerminal, Terminal
<1>12. SlotWalk(run[w], message[run[w].msg])' /\ DocOK(message[run[w].msg], To[run[w].msg])'
  BY <1>2, <1>6, <1>8, <1>11
<1> QED
  BY <1>2, <1>12, MovesWalk

(* The steps in memory *)
LEMMA CheckDomainWalk ==
    ASSUME TypeInv, HoldInv, WalkInv, NEW w \in Workers, CheckDomain(w), Others
    PROVE  Ponders(w) /\ SlotWalk(run'[w], message[run[w].msg])
<1> DEFINE r == run[w]
           doc == message[r.msg]
           q == [r EXCEPT !.pc = "apply", !.phase = "unverified",
                          !.results = ResultFor(Pending(r), "bounced")]
<1>1. r.pc = "domain" /\ UNCHANGED <<job, raw, message, retentionVars, events, usage>>
  BY DEF CheckDomain, At, storeVars, Others
<1>2. r \in Run /\ run \in [Workers -> Run] /\ SlotWalk(r, doc) /\ DocOK(doc, To[r.msg])
  BY <1>1, SlotFacts
<1>3. /\ Unapplied(r) = {} /\ r.dirty = {} /\ r.todo = {} /\ r.group = {} /\ doc.status = "sending"
      /\ \A a \in Addresses : r.to[a] = doc.to[a] /\ r.to[a] # "failed" /\ r.results[a] = "none"
  BY <1>1, <1>2 DEF SlotWalk, Begun, Early, InStep, StatusInStep, Loaded, DocOK, NonTerminal, Unapplied
<1>4. CASE Become(w, q)
  <2>1. run'[w] = q
    BY <1>2, <1>4 DEF Become
  <2>2. /\ q.pc = "apply" /\ q.phase = "unverified" /\ q.msg = r.msg /\ q.made = r.made /\ q.to = r.to
        /\ q.dirty = r.dirty /\ q.cur = r.cur /\ q.todo = r.todo /\ q.group = r.group
        /\ \A a \in Addresses : q.results[a] = IF r.to[a] \in NonTerminal THEN "bounced" ELSE "none"
    BY <1>2 DEF Run, ResultFor, Pending
  <2> HIDE DEF q
  <2>3. Moves(w)
    BY <1>1, <1>4, <2>2, BecomeMoves
  <2>4. SlotWalk(q, doc)
    BY <1>3, <2>2
    DEF SlotWalk, InStep, StatusInStep, Begun, Walk, Decided, Early, Loaded, Walking, Unapplied
  <2> QED
    BY <1>1, <1>3, <2>1, <2>2, <2>3, <2>4 DEF Ponders, Loaded, Walking
<1>5. CASE Goto(w, "raw")
  <2>1. Moves(w) /\ run'[w] = [r EXCEPT !.pc = "raw"]
    BY <1>1, <1>5, GotoMoves
  <2> DEFINE p == run'[w]
  <2>2. /\ p.pc = "raw" /\ p.to = r.to /\ p.dirty = r.dirty /\ p.results = r.results /\ p.cur = r.cur
        /\ p.todo = r.todo /\ p.group = r.group
    BY <1>2, <2>1 DEF Run
  <2> HIDE DEF p
  <2>3. SlotWalk(p, doc)
    BY <1>3, <2>2
    DEF SlotWalk, InStep, StatusInStep, Begun, Walk, Decided, Early, Loaded, Walking, Unapplied
  <2> QED
    BY <1>1, <2>1, <2>2, <2>3 DEF Ponders, Loaded, Walking, p
<1> QED
  BY <1>4, <1>5 DEF CheckDomain

LEMMA LoadRawWalk ==
    ASSUME TypeInv, HoldInv, WalkInv, NEW w \in Workers, LoadRaw(w), Others
    PROVE  Ponders(w) /\ SlotWalk(run'[w], message[run[w].msg])
<1> DEFINE r == run[w]
           doc == message[r.msg]
           p == run'[w]
<1>1. r.pc = "raw" /\ UNCHANGED <<job, raw, message, retentionVars, events, usage>>
  BY DEF LoadRaw, At, storeVars, Others
<1>2. r \in Run /\ SlotWalk(r, doc) /\ DocOK(doc, To[r.msg]) /\ r.msg \in raw
  BY <1>1, SlotFacts DEF Fresh
<1>3. Goto(w, "suppressions")
  BY <1>2 DEF LoadRaw
<1>4. Moves(w) /\ p = [r EXCEPT !.pc = "suppressions"]
  BY <1>1, <1>3, GotoMoves
<1>5. /\ p.pc = "suppressions" /\ p.to = r.to /\ p.dirty = r.dirty /\ p.results = r.results /\ p.cur = r.cur
      /\ p.todo = r.todo /\ p.group = r.group
  BY <1>2, <1>4 DEF Run
<1> HIDE DEF p
<1>6. SlotWalk(p, doc)
  BY <1>1, <1>2, <1>5
  DEF SlotWalk, InStep, StatusInStep, Begun, Walk, Decided, Early, Loaded, Walking, Unapplied
<1> QED
  BY <1>1, <1>4, <1>5, <1>6 DEF Ponders, Loaded, Walking, p

LEMMA ReadSuppressionsWalk ==
    ASSUME TypeInv, HoldInv, WalkInv, NEW w \in Workers, ReadSuppressions(w), Others
    PROVE  Ponders(w) /\ SlotWalk(run'[w], message[run[w].msg])
<1> DEFINE r == run[w]
           doc == message[r.msg]
           q == [r EXCEPT !.pc = "apply", !.phase = "send",
                          !.results = ResultFor(Suppressed(r), "bounced"),
                          !.todo = Pending(r) \ Suppressed(r)]
<1>1. r.pc = "suppressions" /\ UNCHANGED <<job, raw, message, retentionVars, events, usage>> /\ Become(w, q)
  BY DEF ReadSuppressions, At, storeVars, Others
<1>2. r \in Run /\ run \in [Workers -> Run] /\ SlotWalk(r, doc) /\ DocOK(doc, To[r.msg])
  BY <1>1, SlotFacts
<1>3. /\ Unapplied(r) = {} /\ r.dirty = {} /\ r.todo = {} /\ r.group = {} /\ doc.status = "sending"
      /\ \A a \in Addresses : r.to[a] = doc.to[a] /\ r.to[a] # "failed" /\ r.results[a] = "none"
  BY <1>1, <1>2 DEF SlotWalk, Begun, Early, InStep, StatusInStep, Loaded, DocOK, NonTerminal, Unapplied
<1>4. run'[w] = q
  BY <1>1, <1>2 DEF Become
<1>5. /\ q.pc = "apply" /\ q.phase = "send" /\ q.msg = r.msg /\ q.made = r.made /\ q.to = r.to
      /\ q.dirty = r.dirty /\ q.cur = r.cur /\ q.group = r.group
      /\ q.todo = Pending(r) \ Suppressed(r)
      /\ \A a \in Addresses : q.results[a] = IF a \in Suppressed(r) THEN "bounced" ELSE "none"
  BY <1>2 DEF Run, ResultFor
<1> HIDE DEF q
<1>6. Moves(w)
  BY <1>1, <1>5, BecomeMoves
<1>7. \A a \in Addresses : a \in Pending(r) <=> r.to[a] \in NonTerminal
  BY DEF Pending
<1>8. Suppressed(r) \subseteq Pending(r) /\ Pending(r) \subseteq Addresses
  BY DEF Suppressed, Pending
<1>9. Walk(q)
  BY <1>3, <1>5, <1>7, <1>8 DEF Walk
<1>10. SlotWalk(q, doc)
  BY <1>3, <1>5, <1>9
  DEF SlotWalk, InStep, StatusInStep, Begun, Decided, Early, Loaded, Walking
<1> QED
  BY <1>1, <1>3, <1>4, <1>5, <1>6, <1>10 DEF Ponders, Loaded, Walking

(* A result is applied to an open recipient. *)
Applies(w, a) ==
    LET r == run[w] o == r.results[a] IN
    /\ Moves(w)
    /\ r.pc = "apply" /\ run'[w].pc \in {"suppress", "notify", "record"}
    /\ o # "none" /\ r.to[a] \in NonTerminal
    /\ run'[w].cur = a
    /\ run'[w].to = [r.to EXCEPT ![a] = o]
    /\ run'[w].results = [r.results EXCEPT ![a] = "none"]
    /\ run'[w].dirty \in {r.dirty, r.dirty \cup {a}}
    /\ r.to[a] # o => a \in run'[w].dirty
    /\ usage' = IF o # "deferred" THEN [usage EXCEPT ![o] = @ + 1] ELSE usage
    /\ UNCHANGED <<message, events>>

LEMMA AppliesWalk ==
    ASSUME TypeInv, HoldInv, WalkInv, NEW w \in Workers, NEW a \in Addresses, Applies(w, a),
           run'[w].phase = run[w].phase, run'[w].todo = run[w].todo, run'[w].group = run[w].group
    PROVE  SlotWalk(run'[w], message[run[w].msg])
<1> DEFINE r == run[w]
           doc == message[r.msg]
           o == r.results[a]
           q == run'[w]
<1>1. r \in Run /\ SlotWalk(r, doc) /\ r.pc \in Walking /\ r.pc # "idle"
  BY SlotFacts DEF Applies, Moves, Walking
<1>2. /\ q.pc \in {"suppress", "notify", "record"} /\ o # "none" /\ r.to[a] \in NonTerminal
      /\ q.to = [r.to EXCEPT ![a] = o] /\ q.results = [r.results EXCEPT ![a] = "none"]
      /\ q.dirty \in {r.dirty, r.dirty \cup {a}} /\ (r.to[a] # o => a \in q.dirty)
      /\ q.phase = r.phase /\ q.todo = r.todo /\ q.group = r.group
  BY DEF Applies
<1>3. /\ r.to \in [Addresses -> RecipientStatus] /\ r.results \in [Addresses -> Outcome]
      /\ o \in EventType
  BY <1>1, <1>2 DEF Run, Outcome, EventType
<1>4. /\ q.to[a] = o /\ q.results[a] = "none"
      /\ \A b \in Addresses : b # a => q.to[b] = r.to[b] /\ q.results[b] = r.results[b]
  BY <1>2, <1>3
<1> HIDE DEF q, o
<1>5. InStep(r, doc) /\ Walk(r) /\ doc.status = "sending"
  BY <1>1 DEF SlotWalk, StatusInStep, Loaded, Walking
<1>6. InStep(q, doc)
  <2>1. ASSUME NEW b \in Addresses
        PROVE  /\ b \in q.dirty => q.to[b] \in EventType /\ doc.to[b] \in NonTerminal
               /\ b \notin q.dirty => q.to[b] = doc.to[b]
    <3>1. /\ b \in r.dirty => r.to[b] \in EventType /\ doc.to[b] \in NonTerminal
          /\ b \notin r.dirty => r.to[b] = doc.to[b]
      BY <1>1, <1>5 DEF InStep, Loaded
    <3>2. CASE b = a
      BY <1>2, <1>3, <1>4, <3>1, <3>2
    <3>3. CASE b # a
      BY <1>2, <1>4, <3>1, <3>3
    <3> QED
      BY <3>2, <3>3
  <2> QED
    BY <2>1 DEF InStep
<1>7. Walk(q)
  <2>1. a \notin r.todo \cup r.group /\ r.pc # "deliver"
    BY <1>1, <1>2, <1>5 DEF Walk, o, Unapplied
  <2>2. /\ r.phase = "send" => o # "failed"
        /\ r.phase = "unverified" => o = "bounced"
        /\ r.phase = "exhaust" => o = "failed"
        /\ r.phase \in Phase
    BY <1>1, <1>2, <1>5 DEF Walk, o, Run
  <2>3. o \in NonTerminal => o = "deferred"
    BY <1>3 DEF EventType, NonTerminal
  <2>4. \A b \in q.todo \cup q.group : q.to[b] \in NonTerminal /\ q.results[b] = "none"
    <3>1. r.todo \cup r.group \subseteq Addresses
      BY <1>1 DEF Run
    <3> QED
      BY <1>1, <1>2, <1>4, <1>5, <2>1, <3>1 DEF Walk
  <2>5. ASSUME NEW b \in Addresses
        PROVE  /\ q.results[b] # "none" => q.to[b] \in NonTerminal
               /\ q.phase = "send" => q.to[b] # "failed" /\ q.results[b] # "failed"
               /\ q.phase = "unverified" => q.to[b] # "failed" /\ q.results[b] \in {"none", "bounced"}
               /\ q.phase = "exhaust" => q.results[b] \in {"none", "failed"}
               /\ q.to[b] \in NonTerminal /\ q.results[b] = "none" =>
                    q.phase = "send" /\ (q.to[b] = "deferred" \/ b \in q.todo \cup q.group)
    <3>1. CASE b = a
      BY <1>2, <1>4, <2>2, <2>3, <3>1 DEF Phase, NonTerminal
    <3>2. CASE b # a
      BY <1>1, <1>2, <1>4, <1>5, <3>2 DEF Walk
    <3> QED
      BY <3>1, <3>2
  <2>6. /\ q.todo \cap q.group = {} /\ q.pc # "deliver" /\ q.group = {} /\ (q.phase # "send" => q.todo = {})
    BY <1>1, <1>2, <1>5, <2>1 DEF Walk
  <2> QED
    BY <2>4, <2>5, <2>6 DEF Walk
<1>8. StatusInStep(q, doc) /\ Begun(q) /\ Decided(q)
  BY <1>2, <1>5 DEF StatusInStep, Begun, Decided, Early
<1> QED
  BY <1>6, <1>7, <1>8 DEF SlotWalk, q

LEMMA ApplyResultWalk ==
    ASSUME TypeInv, HoldInv, WalkInv, NEW w \in Workers, NEW a \in Addresses, ApplyResult(w, a), Others
    PROVE  Applies(w, a) /\ SlotWalk(run'[w], message[run[w].msg])
<1> DEFINE r == run[w]
           o == r.results[a]
           q == [r EXCEPT !.pc = AfterApply(r, o), !.cur = a,
                          !.results = [@ EXCEPT ![a] = "none"],
                          !.to = [@ EXCEPT ![a] = o],
                          !.dirty = IF r.to[a] = o THEN @ ELSE @ \cup {a}]
<1>1. /\ r.pc = "apply" /\ o # "none" /\ r.to[a] \in NonTerminal /\ Become(w, q)
      /\ UNCHANGED <<job, raw, message, retentionVars, events>>
      /\ usage' = IF o # "deferred" THEN [usage EXCEPT ![o] = @ + 1] ELSE usage
  BY DEF ApplyResult, At, Others, Counted
<1>2. r \in Run /\ run \in [Workers -> Run]
  BY <1>1, SlotFacts
<1>3. run'[w] = q
  BY <1>1, <1>2 DEF Become
<1>4. AfterApply(r, o) \in {"suppress", "notify", "record"}
  BY DEF AfterApply
<1>5. /\ q.pc = AfterApply(r, o) /\ q.cur = a /\ q.msg = r.msg /\ q.made = r.made
      /\ q.results = [r.results EXCEPT ![a] = "none"]
      /\ q.to = [r.to EXCEPT ![a] = o]
      /\ q.dirty = IF r.to[a] = o THEN r.dirty ELSE r.dirty \cup {a}
      /\ q.phase = r.phase /\ q.todo = r.todo /\ q.group = r.group
  BY <1>2 DEF Run
<1> HIDE DEF q
<1>6. Moves(w)
  BY <1>1, <1>4, <1>5, BecomeMoves
<1>7. Applies(w, a)
  BY <1>1, <1>3, <1>4, <1>5, <1>6 DEF Applies, Walking
<1> QED
  BY <1>3, <1>5, <1>7, AppliesWalk

LEMMA FailDeferredWalk ==
    ASSUME TypeInv, HoldInv, WalkInv, NEW w \in Workers, NEW a \in Addresses, FailDeferred(w, a), Others
    PROVE  Applies(w, a) /\ SlotWalk(run'[w], message[run[w].msg])
<1> DEFINE r == run[w]
           q == [r EXCEPT !.pc = "record", !.cur = a,
                          !.results = [@ EXCEPT ![a] = "none"],
                          !.to = [@ EXCEPT ![a] = "failed"],
                          !.dirty = @ \cup {a}]
<1>1. /\ r.pc = "apply" /\ r.results[a] = "failed" /\ Become(w, q)
      /\ UNCHANGED <<job, raw, message, retentionVars, events>>
      /\ usage' = [usage EXCEPT !["failed"] = @ + 1]
  BY DEF FailDeferred, At, Others
<1>2. r \in Run /\ run \in [Workers -> Run] /\ SlotWalk(r, message[r.msg])
  BY <1>1, SlotFacts
<1>3. run'[w] = q /\ r.to[a] \in NonTerminal
  BY <1>1, <1>2 DEF Become, SlotWalk, Walk, Walking
<1>4. /\ q.pc = "record" /\ q.cur = a /\ q.msg = r.msg /\ q.made = r.made
      /\ q.results = [r.results EXCEPT ![a] = "none"]
      /\ q.to = [r.to EXCEPT ![a] = "failed"]
      /\ q.dirty = r.dirty \cup {a}
      /\ q.phase = r.phase /\ q.todo = r.todo /\ q.group = r.group
  BY <1>2 DEF Run
<1> HIDE DEF q
<1>5. Moves(w)
  BY <1>1, <1>4, BecomeMoves
<1>6. Applies(w, a)
  BY <1>1, <1>3, <1>4, <1>5 DEF Applies, Walking
<1> QED
  BY <1>3, <1>4, <1>6, AppliesWalk

LEMMA EffectsWalk ==
    ASSUME TypeInv, HoldInv, WalkInv, NEW w \in Workers,
           Suppress(w) \/ NotifySender(w) \/ RecordEvent(w), Others
    PROVE  Ponders(w) /\ SlotWalk(run'[w], message[run[w].msg])
<1> DEFINE r == run[w]
           doc == message[r.msg]
           p == run'[w]
<1>1. /\ r.pc \in {"suppress", "notify", "record"} /\ UNCHANGED <<job, raw, message, retentionVars, usage>>
      /\ events \subseteq events'
  BY DEF Suppress, NotifySender, RecordEvent, At, storeVars, Others
<1>2. r \in Run /\ run \in [Workers -> Run] /\ SlotWalk(r, doc)
  BY <1>1, SlotFacts
<1>3. /\ Moves(w) /\ p.pc \in {"notify", "record", "apply"} /\ p.to = r.to /\ p.dirty = r.dirty
      /\ p.results = r.results
      /\ p.cur = r.cur \/ (p.cur = NoAddress /\ <<r.msg, r.to[r.cur], r.cur>> \in events')
      /\ p.todo = r.todo /\ p.group = r.group /\ p.phase = r.phase
  <2>1. CASE Suppress(w) \/ NotifySender(w)
    <3>1. PICK pc \in {"notify", "record"} : Goto(w, pc)
      BY <2>1 DEF Suppress, NotifySender
    <3>2. Moves(w) /\ p = [r EXCEPT !.pc = pc]
      BY <1>1, <3>1, GotoMoves
    <3> QED
      BY <1>2, <3>2 DEF Run
  <2>2. CASE RecordEvent(w)
    <3> DEFINE q == [r EXCEPT !.pc = "apply", !.cur = NoAddress]
    <3>1. Become(w, q) /\ <<r.msg, r.to[r.cur], r.cur>> \in events'
      BY <2>2 DEF RecordEvent
    <3>2. p = q
      BY <1>2, <3>1 DEF Become
    <3>3. /\ q.pc = "apply" /\ q.to = r.to /\ q.dirty = r.dirty /\ q.results = r.results /\ q.msg = r.msg
          /\ q.made = r.made /\ q.cur = NoAddress
          /\ q.todo = r.todo /\ q.group = r.group /\ q.phase = r.phase
      BY <1>2 DEF Run
    <3> HIDE DEF q
    <3>4. Moves(w)
      BY <1>1, <3>1, <3>3, BecomeMoves
    <3> QED
      BY <3>1, <3>2, <3>3, <3>4
  <2> QED
    BY <2>1, <2>2
<1> HIDE DEF p
<1>4. SlotWalk(p, doc)
  <2>1. InStep(r, doc) /\ Walk(r) /\ doc.status = "sending"
    BY <1>1, <1>2 DEF SlotWalk, StatusInStep, Loaded, Walking
  <2>2. Walk(p)
    BY <1>1, <1>3, <2>1 DEF Walk, Walking, Unapplied
  <2> QED
    BY <1>1, <1>3, <2>1, <2>2 DEF SlotWalk, InStep, StatusInStep, Begun, Decided, Early, Loaded, Walking
<1> QED
  BY <1>1, <1>3, <1>4 DEF Ponders, Loaded, Walking, p

LEMMA NextDomainWalk ==
    ASSUME TypeInv, HoldInv, WalkInv, NEW w \in Workers, NEW d, NEW n \in 0 .. MaxTargets,
           NextDomain(w, d, n), Others
    PROVE  Ponders(w) /\ SlotWalk(run'[w], message[run[w].msg])
<1> DEFINE r == run[w]
           doc == message[r.msg]
           group == {a \in r.todo : DomainOf[a] = d}
           q == [r EXCEPT !.pc = IF n = 0 THEN "apply" ELSE "deliver",
                          !.suppress = TRUE,
                          !.todo = StillToTry(r, group),
                          !.group = IF n = 0 THEN {} ELSE group,
                          !.results = IF n = 0 THEN ResultFor(group, WithoutTarget) ELSE @,
                          !.targets = n]
<1>1. /\ r.pc = "apply" /\ r.phase = "send" /\ Unapplied(r) = {} /\ Become(w, q)
      /\ UNCHANGED <<job, raw, message, retentionVars, events, usage>>
  BY DEF NextDomain, At, storeVars, Others
<1>2. r \in Run /\ run \in [Workers -> Run] /\ SlotWalk(r, doc)
  BY <1>1, SlotFacts
<1>3. InStep(r, doc) /\ Walk(r) /\ doc.status = "sending" /\ r.todo \subseteq Addresses
  BY <1>1, <1>2 DEF SlotWalk, StatusInStep, Loaded, Walking, Run
<1>4. run'[w] = q
  BY <1>1, <1>2 DEF Become
<1>5. /\ q.pc = IF n = 0 THEN "apply" ELSE "deliver"
      /\ q.phase = "send" /\ q.msg = r.msg /\ q.made = r.made /\ q.to = r.to
      /\ q.dirty = r.dirty /\ q.cur = r.cur
      /\ q.todo = r.todo \ group
      /\ q.group = IF n = 0 THEN {} ELSE group
      /\ \A a \in Addresses : r.results[a] = "none"
      /\ \A a \in Addresses : q.results[a] = IF n = 0 /\ a \in group THEN "deferred" ELSE "none"
  BY <1>1, <1>2 DEF Run, ResultFor, StillToTry, Unapplied, WithoutTarget
<1> HIDE DEF q
<1>6. Moves(w)
  BY <1>1, <1>5, BecomeMoves
<1>7. group \subseteq r.todo
  OBVIOUS
<1> HIDE DEF group
<1>8. Walk(q)
  <2>1. Unapplied(q) = {} \/ n = 0
    BY <1>5 DEF Unapplied
  <2> QED
    BY <1>1, <1>3, <1>5, <1>7, <2>1 DEF Walk, Walking, NonTerminal
<1>9. SlotWalk(q, doc)
  BY <1>1, <1>3, <1>5, <1>8 DEF SlotWalk, InStep, StatusInStep, Begun, Decided, Early, Loaded, Walking
<1> QED
  BY <1>1, <1>4, <1>5, <1>6, <1>9 DEF Ponders, Loaded, Walking

(* An MX has given an answer for each recipient of the domain. *)
LEMMA AnsweredWalk ==
    ASSUME TypeInv, HoldInv, WalkInv, NEW w \in Workers, NEW results \in [Addresses -> Outcome],
           run[w].pc = "deliver", Become(w, Answered(run[w], results)),
           \A a \in Addresses : IF a \in run[w].group THEN results[a] \in {"delivered", "bounced", "deferred"}
                                ELSE results[a] = "none",
           UNCHANGED <<job, raw, message, retentionVars, events, usage>>
    PROVE  Ponders(w) /\ SlotWalk(run'[w], message[run[w].msg]) /\ run'[w].results = results
<1> DEFINE r == run[w]
           doc == message[r.msg]
           q == Answered(r, results)
<1>2. r \in Run /\ run \in [Workers -> Run] /\ SlotWalk(r, doc)
  BY SlotFacts
<1>3. InStep(r, doc) /\ Walk(r) /\ doc.status = "sending" /\ r.group \subseteq Addresses
  BY <1>2 DEF SlotWalk, StatusInStep, Loaded, Walking, Run
<1>4. run'[w] = q
  BY <1>2 DEF Become
<1>5. /\ q.pc = "apply" /\ q.phase = r.phase /\ q.msg = r.msg /\ q.made = r.made /\ q.to = r.to
      /\ q.dirty = r.dirty /\ q.cur = r.cur /\ q.todo = r.todo /\ q.group = {} /\ q.results = results
  BY <1>2 DEF Run, Answered
<1>6. r.phase = "send" /\ \A a \in Addresses : r.results[a] = "none"
  BY <1>3 DEF Walk, Walking, Unapplied
<1> HIDE DEF q
<1>7. Moves(w)
  BY <1>5, BecomeMoves DEF q
<1>8. Walk(q)
  BY <1>2, <1>3, <1>5, <1>6 DEF Walk, Walking, Run
<1>9. SlotWalk(q, doc)
  BY <1>3, <1>5, <1>8 DEF SlotWalk, InStep, StatusInStep, Begun, Decided, Early, Loaded, Walking
<1> QED
  BY <1>4, <1>5, <1>6, <1>7, <1>9 DEF Ponders, Loaded, Walking

LEMMA MxAcceptsWalk ==
    ASSUME TypeInv, HoldInv, WalkInv, NEW w \in Workers, NEW rejected, NEW perm,
           MxAccepts(w, rejected, perm), Others
    PROVE  Ponders(w) /\ SlotWalk(run'[w], message[run[w].msg]) /\ \A a \in run[w].group \ rejected : run'[w].results[a] = "delivered"
<1> DEFINE r == run[w]
           taken == r.group \ rejected
           results == [a \in Addresses |-> IF a \in rejected THEN "bounced"
                                           ELSE IF a \in taken THEN "delivered" ELSE "none"]
<1>1. /\ r.pc = "deliver" /\ rejected \subseteq r.group /\ Become(w, Answered(r, results))
      /\ UNCHANGED <<job, raw, message, retentionVars, events, usage>>
  BY DEF MxAccepts, At, storeVars, Others
<1>2. results \in [Addresses -> Outcome]
  BY DEF Outcome
<1>3. \A a \in Addresses : IF a \in r.group THEN results[a] \in {"delivered", "bounced", "deferred"}
                           ELSE results[a] = "none"
  BY <1>1
<1>4. r.group \subseteq Addresses
  BY <1>1, SlotFacts DEF Run
<1>5. \A a \in taken : results[a] = "delivered"
  BY <1>1, <1>4
<1> HIDE DEF results
<1> QED
  BY <1>1, <1>2, <1>3, <1>5, AnsweredWalk

LEMMA ResultForWalk ==
    ASSUME TypeInv, HoldInv, WalkInv, NEW w \in Workers, NEW o \in {"bounced", "deferred"},
           run[w].pc = "deliver", Become(w, Answered(run[w], ResultFor(run[w].group, o))),
           UNCHANGED <<job, raw, message, retentionVars, events, usage>>
    PROVE  Ponders(w) /\ SlotWalk(run'[w], message[run[w].msg])
<1> DEFINE results == ResultFor(run[w].group, o)
<1>1. results \in [Addresses -> Outcome] /\ Become(w, Answered(run[w], results))
  BY ResultForOK DEF Outcome
<1>2. \A a \in Addresses : IF a \in run[w].group THEN results[a] \in {"delivered", "bounced", "deferred"}
                           ELSE results[a] = "none"
  BY DEF ResultFor
<1> HIDE DEF results
<1> QED
  BY <1>1, <1>2, AnsweredWalk

LEMMA NextTargetWalk ==
    ASSUME TypeInv, HoldInv, WalkInv, NEW w \in Workers, run[w].pc = "deliver", NextTarget(w),
           UNCHANGED <<job, raw, message, retentionVars, events, usage>>
    PROVE  Ponders(w) /\ SlotWalk(run'[w], message[run[w].msg])
<1> DEFINE r == run[w]
           doc == message[r.msg]
<1>1. CASE r.targets > 1 /\ Become(w, [r EXCEPT !.targets = @ - 1])
  <2> DEFINE q == [r EXCEPT !.targets = @ - 1]
  <2>1. r \in Run /\ run \in [Workers -> Run] /\ SlotWalk(r, doc)
    BY SlotFacts
  <2>2. InStep(r, doc) /\ Walk(r) /\ doc.status = "sending"
    BY <2>1 DEF SlotWalk, StatusInStep, Loaded, Walking
  <2>3. run'[w] = q
    BY <1>1, <2>1 DEF Become
  <2>4. /\ q.pc = "deliver" /\ q.phase = r.phase /\ q.msg = r.msg /\ q.made = r.made /\ q.to = r.to
        /\ q.dirty = r.dirty /\ q.cur = r.cur /\ q.todo = r.todo /\ q.group = r.group /\ q.results = r.results
    BY <2>1 DEF Run
  <2> HIDE DEF q
  <2>5. Moves(w)
    BY <1>1, <2>4, BecomeMoves DEF q
  <2>6. Walk(q)
    BY <2>2, <2>4 DEF Walk, Walking, Unapplied
  <2>7. SlotWalk(q, doc)
    BY <2>2, <2>4, <2>6 DEF SlotWalk, InStep, StatusInStep, Begun, Decided, Early, Loaded, Walking
  <2> QED
    BY <2>3, <2>4, <2>5, <2>7 DEF Ponders, Loaded, Walking
<1>2. CASE Become(w, Answered(r, ResultFor(r.group, "deferred")))
  BY <1>2, ResultForWalk
<1> QED
  BY <1>1, <1>2 DEF NextTarget, AfterLastTarget

LEMMA DeliverWalk ==
    ASSUME TypeInv, HoldInv, WalkInv, NEW w \in Workers,
           (\E perm \in SUBSET run[w].group : MxRefuses(w, perm)) \/ MxDefers(w) \/ MxReplyLost(w), Others
    PROVE  Ponders(w) /\ SlotWalk(run'[w], message[run[w].msg])
<1>1. run[w].pc = "deliver" /\ UNCHANGED <<job, raw, message, retentionVars, events, usage>>
  BY DEF MxRefuses, MxDefers, MxReplyLost, At, storeVars, Others
<1>2. CASE \E perm \in SUBSET run[w].group : MxRefuses(w, perm)
  BY <1>1, <1>2, ResultForWalk DEF MxRefuses
<1>3. CASE MxDefers(w) \/ MxReplyLost(w)
  BY <1>1, <1>3, NextTargetWalk DEF MxDefers, MxReplyLost
<1> QED
  BY <1>2, <1>3

(* The status that is about to be saved is that of the recipients. *)
LEMMA SettledWalk ==
    ASSUME TypeInv, HoldInv, WalkInv, NEW w \in Workers, NEW s \in {"deferred"} \cup Terminal,
           run[w].pc = "apply", Become(w, [Settled(run[w]) EXCEPT !.status = s]), Decided([run[w] EXCEPT !.pc = "save", !.status = s]),
           UNCHANGED <<job, raw, message, retentionVars, events, usage>>
    PROVE  Ponders(w) /\ SlotWalk(run'[w], message[run[w].msg])
<1> DEFINE r == run[w]
           doc == message[r.msg]
           q == [Settled(r) EXCEPT !.status = s]
           p == [r EXCEPT !.pc = "save", !.status = s]
<1>1. r \in Run /\ run \in [Workers -> Run] /\ SlotWalk(r, doc)
  BY SlotFacts
<1>2. InStep(r, doc) /\ Walk(r) /\ doc.status = "sending"
  BY <1>1 DEF SlotWalk, StatusInStep, Loaded, Walking
<1>3. run'[w] = q
  BY <1>1 DEF Become
<1>4. /\ q.pc = "save" /\ q.status = s /\ q.msg = r.msg /\ q.made = r.made /\ q.to = r.to
      /\ q.dirty = r.dirty /\ q.cur = r.cur /\ q.results = r.results
  BY <1>1 DEF Run, Settled
<1>5. q.touched
  BY <1>1 DEF Run, Settled
<1>6. p.pc = "save" /\ p.status = s /\ p.made = r.made /\ p.to = r.to
  BY <1>1 DEF Run
<1>7. Decided(p)
  OBVIOUS
<1> HIDE DEF q, p
<1>8. Moves(w)
  BY <1>4, BecomeMoves DEF q
<1>9. Decided(q)
  BY <1>4, <1>6, <1>7 DEF Decided
<1>10. SlotWalk(q, doc)
  BY <1>2, <1>4, <1>5, <1>9 DEF SlotWalk, InStep, StatusInStep, Begun, Walk, Early, Loaded, Walking
<1> QED
  BY <1>3, <1>4, <1>8, <1>10 DEF Ponders, Loaded, Walking

(* finalizeStatus, the retry limit and the "no longer verified" branch *)
LEMMA WalkedOpen ==
    ASSUME TypeInv, HoldInv, WalkInv, NEW w \in Workers, NEW phase, Walked(w, phase)
    PROVE  /\ run[w].pc = "apply" /\ run[w].phase = phase
           /\ \A a \in Addresses : run[w].results[a] = "none"
           /\ run[w].todo = {} /\ run[w].group = {}
           /\ \A a \in Addresses : run[w].to[a] \in NonTerminal => phase = "send" /\ run[w].to[a] = "deferred"
           /\ \A a \in Addresses : run[w].to[a] \in NonTerminal \cup Terminal \cup {"absent"}
           /\ phase = "send" => \A a \in Addresses : run[w].to[a] # "failed"
<1>1. run[w].pc = "apply" /\ run[w].phase = phase /\ Unapplied(run[w]) = {} /\ run[w].todo = {}
  BY DEF Walked, At
<1>2. run[w] \in Run /\ Walk(run[w])
  BY <1>1, SlotFacts DEF SlotWalk
<1> QED
  BY <1>1, <1>2 DEF Walk, Walking, Unapplied, Run, RecipientStatus

LEMMA FailUnverifiedWalk ==
    ASSUME TypeInv, HoldInv, WalkInv, NEW w \in Workers, FailUnverified(w), Others
    PROVE  Ponders(w) /\ SlotWalk(run'[w], message[run[w].msg])
<1>1. /\ Walked(w, "unverified") /\ UNCHANGED <<job, raw, message, retentionVars, events, usage>>
      /\ Become(w, [Settled(run[w]) EXCEPT !.status = "failed"])
  BY DEF FailUnverified, storeVars, Others
<1> DEFINE p == [run[w] EXCEPT !.pc = "save", !.status = "failed"]
<1>2. \A a \in Addresses : run[w].to[a] \notin NonTerminal
  BY <1>1, WalkedOpen
<1>3. p.status = "failed" /\ p.to = run[w].to
  BY <1>1, WalkedOpen, SlotFacts DEF Run
<1>4. Decided(p)
  <2> HIDE DEF p
  <2> QED
    BY <1>2, <1>3 DEF Decided, Terminal
<1> QED
  BY <1>1, <1>4, WalkedOpen, SettledWalk DEF Terminal

LEMMA GiveUpWalk ==
    ASSUME TypeInv, HoldInv, WalkInv, NEW w \in Workers, GiveUp(w), Others
    PROVE  Ponders(w) /\ SlotWalk(run'[w], message[run[w].msg])
<1> DEFINE s == IF Having(run[w], "delivered") # {} THEN "delivered" ELSE "failed"
           p == [run[w] EXCEPT !.pc = "save", !.status = s]
<1>1. /\ Walked(w, "exhaust") /\ UNCHANGED <<job, raw, message, retentionVars, events, usage>>
      /\ Become(w, [Settled(run[w]) EXCEPT !.status = s])
  BY DEF GiveUp, storeVars, Others
<1>2. \A a \in Addresses : run[w].to[a] \notin NonTerminal
  BY <1>1, WalkedOpen
<1>3. /\ s \in {"delivered", "failed"}
      /\ s = "delivered" => \E a \in Addresses : run[w].to[a] = "delivered"
  BY DEF Having
<1> HIDE DEF s
<1>4. p.status = s /\ p.to = run[w].to
  BY <1>1, WalkedOpen, SlotFacts DEF Run
<1>5. Decided(p)
  <2> HIDE DEF p
  <2> QED
    BY <1>2, <1>3, <1>4 DEF Decided, Terminal
<1> QED
  BY <1>1, <1>3, <1>5, WalkedOpen, SettledWalk DEF Terminal

LEMMA FinalizeStatusWalk ==
    ASSUME TypeInv, HoldInv, WalkInv, NEW w \in Workers, FinalizeStatus(w), Others
    PROVE  Ponders(w) /\ SlotWalk(run'[w], message[run[w].msg])
<1> DEFINE r == run[w]
           doc == message[r.msg]
           deferred == Having(r, "deferred")
<1>1. /\ Walked(w, "send") /\ UNCHANGED <<job, raw, message, retentionVars, events, usage>>
  BY DEF FinalizeStatus, storeVars, Others
<1>2. /\ \A a \in Addresses : /\ r.results[a] = "none" /\ r.to[a] # "failed"
                              /\ r.to[a] \in NonTerminal => r.to[a] = "deferred"
                              /\ r.to[a] \in NonTerminal \cup Terminal \cup {"absent"}
      /\ r.pc = "apply" /\ r.phase = "send" /\ r.todo = {} /\ r.group = {}
      /\ r \in Run /\ run \in [Workers -> Run] /\ SlotWalk(r, doc)
  BY <1>1, WalkedOpen, SlotFacts
<1>3. CASE /\ deferred = {}
           /\ Become(w, [Settled(r) EXCEPT
                !.status = IF Having(r, "delivered") # {} THEN "delivered" ELSE "bounced"])
  <2> DEFINE s == IF Having(r, "delivered") # {} THEN "delivered" ELSE "bounced"
             p == [r EXCEPT !.pc = "save", !.status = s]
  <2>1. /\ s \in {"delivered", "bounced"}
        /\ s = "delivered" => \E a \in Addresses : r.to[a] = "delivered"
        /\ s = "bounced" => \A a \in Addresses : r.to[a] # "delivered"
    BY DEF Having
  <2>2. \A a \in Addresses : r.to[a] \notin NonTerminal
    BY <1>2, <1>3 DEF Having
  <2>3. Become(w, [Settled(r) EXCEPT !.status = s])
    BY <1>3
  <2> HIDE DEF s
  <2>4. p.status = s /\ p.to = r.to
    BY <1>2 DEF Run
  <2>5. Decided(p)
    <3> HIDE DEF p
    <3> QED
      BY <1>2, <2>1, <2>2, <2>4 DEF Decided, Terminal
  <2> QED
    BY <1>1, <1>2, <2>1, <2>3, <2>5, SettledWalk DEF Terminal
<1>4. CASE ~LastAttempt(r) /\ Become(w, [Settled(r) EXCEPT !.status = "deferred"])
  <2> DEFINE p == [r EXCEPT !.pc = "save", !.status = "deferred"]
  <2>1. p.status = "deferred" /\ p.to = r.to /\ p.made = r.made
    BY <1>2 DEF Run
  <2>2. r.made + 1 < MaxAttempts
    BY <1>2, <1>4, StoreAssumption DEF LastAttempt, Run
  <2>3. Decided(p)
    <3> HIDE DEF p
    <3> QED
      BY <1>2, <2>1, <2>2 DEF Decided, Terminal
  <2> QED
    BY <1>1, <1>2, <1>4, <2>3, SettledWalk
<1>5. CASE Become(w, [r EXCEPT !.phase = "exhaust", !.results = ResultFor(deferred, "failed")])
  <2> DEFINE q == [r EXCEPT !.phase = "exhaust", !.results = ResultFor(deferred, "failed")]
  <2>1. run'[w] = q /\ Become(w, q)
    BY <1>2, <1>5 DEF Become
  <2>2. /\ q.pc = "apply" /\ q.phase = "exhaust" /\ q.msg = r.msg /\ q.made = r.made /\ q.to = r.to
        /\ q.dirty = r.dirty /\ q.cur = r.cur /\ q.todo = {} /\ q.group = {}
        /\ \A a \in Addresses : q.results[a] = IF r.to[a] = "deferred" THEN "failed" ELSE "none"
    BY <1>2 DEF Run, ResultFor, Having
  <2> HIDE DEF q
  <2>3. Moves(w)
    BY <1>1, <1>2, <2>1, <2>2, BecomeMoves
  <2>4. Walk(q)
    BY <1>2, <2>2 DEF Walk, NonTerminal
  <2>5. InStep(r, doc) /\ doc.status = "sending"
    BY <1>2 DEF SlotWalk, StatusInStep, Loaded, Walking
  <2>6. SlotWalk(q, doc)
    BY <1>2, <2>2, <2>4, <2>5 DEF SlotWalk, InStep, StatusInStep, Begun, Decided, Early, Loaded, Walking
  <2> QED
    BY <1>1, <1>2, <2>1, <2>2, <2>3, <2>6 DEF Ponders, Loaded, Walking
<1> QED
  BY <1>3, <1>4, <1>5 DEF FinalizeStatus, StillDeferred

(* A slot whose call fails will write nothing more. *)
LEMMA CallFailsWalk ==
    ASSUME TypeInv, HoldInv, WalkInv, NEW w \in Workers, CallFails(w), Others
    PROVE  WalkInv' /\ Moves(w)
<1> DEFINE r == run[w]
           p == run'[w]
<1>1. r.pc # "idle" /\ Goto(w, "throw") /\ UNCHANGED <<job, raw, message, retentionVars>>
  BY DEF CallFails, At, storeVars, Others
<1>2. Moves(w) /\ p = [r EXCEPT !.pc = "throw"] /\ r \in Run /\ DocOK(message[r.msg], To[r.msg])
  BY <1>1, GotoMoves, SlotFacts
<1>3. p.pc = "throw" /\ p.msg = r.msg
  BY <1>2 DEF Run
<1> HIDE DEF p
<1>4. SlotWalk(p, message[r.msg])
  BY <1>3 DEF SlotWalk, InStep, StatusInStep, Begun, Walk, Decided, Early, Loaded, Walking
<1>5. SlotWalk(run[w], message[run[w].msg])' /\ DocOK(message[run[w].msg], To[run[w].msg])'
  BY <1>1, <1>2, <1>3, <1>4 DEF p
<1> QED
  BY <1>2, <1>5, MovesWalk
-----------------------------------------------------------------------------
(* The steps in which a slot takes up or lets go of its job *)

(* Slot w is idle from here on, and only the job it held has changed. *)
LetsGo(w) ==
    LET m == run[w].msg IN
    /\ run[w].pc # "idle" /\ run'[w].pc = "idle" /\ run'[w] = Idle
    /\ \A v \in Workers \ {w} : run'[v] = run[v]
    /\ \A k \in Messages \ {m} : job'[k] = job[k]
    /\ UNCHANGED <<message, raw, events, usage, inbox, retentionVars>>

LEMMA FinishLetsGo ==
    ASSUME TypeInv, HoldInv, NEW w \in Workers, CompleteJob(w) \/ FailJob(w) \/ Crash(w), Others
    PROVE  /\ LetsGo(w)
           /\ job'[run[w].msg] = IF CompleteJob(w) THEN Completed(job[run[w].msg])
                                 ELSE IF FailJob(w) THEN Retried(job[run[w].msg])
                                 ELSE [job[run[w].msg] EXCEPT !.owner = NoWorker]
<1> DEFINE m == run[w].msg
           j == IF CompleteJob(w) THEN Completed(job[m])
                ELSE IF FailJob(w) THEN Retried(job[m])
                ELSE [job[m] EXCEPT !.owner = NoWorker]
<1>1. /\ run[w].pc # "idle" /\ Become(w, Idle)
      /\ UNCHANGED <<message, raw, events, usage, inbox, retentionVars>>
  BY DEF CompleteJob, FailJob, Finish, Crash, At, Others
<1>2. m \in Messages /\ job[m].owner = w /\ run \in [Workers -> Run] /\ job \in [Messages -> Job]
  BY <1>1, BusyFresh, TypeInvParts DEF HoldInv, Holds, QueueOK
<1>3. job' = [job EXCEPT ![m] = j]
  <2>1. CASE CompleteJob(w)
    BY <1>2, <2>1 DEF CompleteJob, Finish
  <2>2. CASE ~CompleteJob(w) /\ FailJob(w)
    BY <1>2, <2>2 DEF FailJob, Finish
  <2>3. CASE ~CompleteJob(w) /\ ~FailJob(w) /\ Crash(w)
    BY <1>2, <2>3 DEF Crash
  <2> QED
    BY <2>1, <2>2, <2>3
<1> HIDE DEF j
<1>4. job'[m] = j /\ \A k \in Messages \ {m} : job'[k] = job[k]
  BY <1>2, <1>3
<1>5. run'[w] = Idle /\ Idle.pc = "idle" /\ \A v \in Workers \ {w} : run'[v] = run[v]
  BY <1>1, <1>2 DEF Become, Idle
<1> QED
  BY <1>1, <1>4, <1>5 DEF LetsGo, j

LEMMA LetsGoInv ==
    ASSUME TypeInv, HoldInv, WalkInv, NEW w \in Workers, LetsGo(w)
    PROVE  HoldInv' /\ WalkInv'
<1> DEFINE m == run[w].msg
<1>1. ASSUME NEW v \in Workers, run'[v].pc # "idle"
      PROVE  v # w /\ run'[v] = run[v] /\ run[v].msg # m /\ run[v].msg \in Messages
  BY <1>1, OneSlot, BusyFresh DEF LetsGo
<1>2. ASSUME NEW v \in Workers PROVE Holds(v)'
  BY <1>1 DEF LetsGo, HoldInv, Holds
<1>3. ASSUME NEW k \in Messages PROVE (Ended(k) \/ Fresh(k))'
  <2>1. Fresh(m) /\ m \in Messages
    BY BusyFresh DEF LetsGo
  <2>2. Fresh(k) => Fresh(k)'
    BY DEF LetsGo, Fresh, retentionVars
  <2>3. Ended(k) /\ k # m => Ended(k)'
    BY DEF LetsGo, Ended
  <2> QED
    BY <2>1, <2>2, <2>3 DEF HoldInv
<1>4. HoldInv'
  BY <1>2, <1>3 DEF HoldInv, LetsGo, retentionVars
<1>5. ASSUME NEW v \in Workers, run'[v].pc # "idle" PROVE SlotWalk(run[v], message[run[v].msg])'
  <2>1. run'[v] = run[v] /\ message' = message /\ SlotWalk(run[v], message[run[v].msg])
    BY <1>1, <1>5 DEF LetsGo, WalkInv
  <2> QED
    BY <2>1
<1>6. ASSUME NEW k \in Messages PROVE DocOK(message[k], To[k])'
  BY DEF LetsGo, WalkInv
<1> QED
  BY <1>4, <1>5, <1>6 DEF WalkInv

(* A slot takes a job. *)
LEMMA TakeJobInv ==
    ASSUME TypeInv, HoldInv, WalkInv, NEW w \in Workers, NEW m \in Messages, TakeJob(w, m), Others
    PROVE  /\ HoldInv' /\ WalkInv' /\ \A v \in Workers \ {w} : run'[v] = run[v]
           /\ run'[w].pc = "load" /\ run'[w].to = Idle.to /\ run'[w].results = NoResults /\ run'[w].cur = NoAddress
<1> DEFINE q == [Idle EXCEPT !.pc = "load", !.msg = m, !.made = job[m].made, !.knew = suppression]
<1>1. /\ run[w].pc = "idle" /\ job[m].state = "waiting" /\ Become(w, q)
      /\ job' = [job EXCEPT ![m] = [@ EXCEPT !.state = "active", !.owner = w]]
      /\ UNCHANGED <<message, raw, retentionVars>>
  BY DEF TakeJob, At, Others
<1>2. run \in [Workers -> Run] /\ job \in [Messages -> Job]
  BY TypeInvParts DEF QueueOK
<1>3. run'[w] = q /\ \A v \in Workers \ {w} : run'[v] = run[v]
  BY <1>1, <1>2 DEF Become
<1>4. /\ q.pc = "load" /\ q.msg = m /\ q.made = job[m].made /\ q.results = NoResults /\ q.dirty = {}
      /\ q.todo = {} /\ q.group = {} /\ q.to = Idle.to /\ q.cur = NoAddress
  BY DEF Idle
<1> HIDE DEF q
<1>5. /\ job'[m].state = "active" /\ job'[m].owner = w /\ job'[m].made = job[m].made
      /\ \A k \in Messages : k # m => job'[k] = job[k]
  BY <1>1, <1>2 DEF Job
<1>6. ASSUME NEW v \in Workers PROVE Holds(v)'
  <2>1. CASE v = w
    BY <1>3, <1>4, <1>5, <2>1 DEF Holds
  <2>2. CASE v # w /\ run[v].pc # "idle"
    <3>1. run[v].msg # m /\ run[v].msg \in Messages
      BY <1>1, <2>2, BusyFresh DEF HoldInv, Holds
    <3> QED
      BY <1>3, <1>5, <2>2, <3>1 DEF HoldInv, Holds
  <2>3. CASE v # w /\ run[v].pc = "idle"
    BY <1>3, <2>3 DEF Holds
  <2> QED
    BY <2>1, <2>2, <2>3
<1>7. ASSUME NEW k \in Messages PROVE (Ended(k) \/ Fresh(k))'
  <2>1. Fresh(m)
    BY <1>1 DEF HoldInv, Ended
  <2>2. Fresh(k) => Fresh(k)'
    BY <1>1 DEF Fresh, retentionVars
  <2>3. Ended(k) /\ k # m => Ended(k)'
    BY <1>5 DEF Ended
  <2> QED
    BY <2>1, <2>2, <2>3 DEF HoldInv
<1>8. HoldInv'
  BY <1>1, <1>6, <1>7 DEF HoldInv, retentionVars
<1>9. SlotWalk(q, message[m])
  BY <1>4 DEF SlotWalk, InStep, StatusInStep, Begun, Walk, Decided, Early, Loaded, Walking, Unapplied, NoResults
<1>10. ASSUME NEW v \in Workers, run'[v].pc # "idle" PROVE SlotWalk(run[v], message[run[v].msg])'
  <2>1. CASE v = w
    BY <1>1, <1>3, <1>4, <1>9, <2>1
  <2>2. CASE v # w
    BY <1>1, <1>3, <1>10, <2>2 DEF WalkInv
  <2> QED
    BY <2>1, <2>2
<1>11. WalkInv'
  BY <1>1, <1>10 DEF WalkInv
<1> QED
  BY <1>3, <1>4, <1>8, <1>11

LEMMA ReclaimInv ==
    ASSUME TypeInv, HoldInv, WalkInv, NEW m \in Messages, ReclaimJob(m), Others
    PROVE  HoldInv' /\ WalkInv'
<1>1. /\ job[m].state = "active" /\ job[m].owner = NoWorker
      /\ UNCHANGED <<message, raw, run, retentionVars>>
      /\ \A k \in Messages : k # m => job'[k] = job[k]
  BY TypeInvParts DEF ReclaimJob, Others, processorVars, QueueOK
<1>2. ASSUME NEW v \in Workers PROVE Holds(v)'
  <2>1. run[v].pc # "idle" => run[v].msg # m /\ run[v].msg \in Messages
    BY <1>1, BusyFresh, StoreAssumption DEF HoldInv, Holds
  <2> QED
    BY <1>1, <2>1 DEF HoldInv, Holds
<1>3. ASSUME NEW k \in Messages PROVE (Ended(k) \/ Fresh(k))'
  <2>1. Fresh(m) /\ (Fresh(k) => Fresh(k)') /\ (Ended(k) /\ k # m => Ended(k)')
    BY <1>1 DEF HoldInv, Ended, Fresh, retentionVars
  <2> QED
    BY <2>1 DEF HoldInv
<1>4. HoldInv'
  BY <1>1, <1>2, <1>3 DEF HoldInv, retentionVars
<1> QED
  BY <1>1, <1>4 DEF WalkInv

LEMMA AloneInv ==
    ASSUME HoldInv, WalkInv, UNCHANGED <<message, raw, run, job, retentionVars>>
    PROVE  HoldInv' /\ WalkInv'
BY DEF HoldInv, WalkInv, Holds, Ended, Fresh, retentionVars
-----------------------------------------------------------------------------
(* What a sweep has read still holds when it acts on it: a message in its   *)
(* batch is closed unless it was read as unfinished, and only closed        *)
(* messages are without content.                                            *)
SweepInv ==
    /\ sweep.pc \in {"content", "mark"} =>
          \A m \in sweep.batch : m \in sweep.unfinished <=> message[m].status \in NonTerminal
    /\ sweep.pc \in {"records", "events", "purge"} => \A m \in sweep.batch : Closed(m)
    /\ \A m \in Messages : message[m].rawDeleted => Closed(m)

LEMMA MovesSweep ==
    ASSUME TypeInv, HoldInv, SweepInv, NEW w \in Workers, Moves(w)
    PROVE  SweepInv'
<1> DEFINE m == run[w].msg
<1>1. /\ m \in Messages /\ age[m] = 0 /\ ~message[m].rawDeleted
      /\ sweep' = sweep /\ sweep.batch \subseteq Messages
  BY BusyFresh DEF Moves, Fresh, retentionVars, TypeInv, TypeOK, RetentionTypeOK, Sweep
<1>2. m \notin sweep.batch
  BY <1>1 DEF HoldInv
<1>3. \A k \in Messages : k # m => message'[k] = message[k]
  BY DEF Moves
<1>4. ~message'[m].rawDeleted
  BY <1>1 DEF Moves
<1> QED
  BY <1>1, <1>2, <1>3, <1>4 DEF SweepInv, Closed

LEMMA SweepStays ==
    ASSUME SweepInv, UNCHANGED <<message, sweep>>
    PROVE  SweepInv'
BY DEF SweepInv, Closed

(* Retention closes what it strips of its content, and nothing else. *)
LEMMA RetentionInv ==
    ASSUME TypeInv, HoldInv, WalkInv, SweepInv, InTime, RetentionStep
    PROVE  HoldInv' /\ WalkInv' /\ SweepInv'
<1>1. UNCHANGED <<job, run>> /\ message \in [Messages -> MessageDoc] /\ sweep \in Sweep /\ age \in [Messages -> 0 .. MaxAge]
  BY DEF RetentionStep, RetentionNext, SweepStep, FindContent, DeleteRaw, MarkDeleted,
         FindRecords, DeleteLeftovers, DeleteEvents, DeleteMessages, AbortSweep, GrowOld,
         storeVars, processorVars, TypeInv, TypeOK, StoreTypeOK, RetentionTypeOK
<1>2. sweep.batch \subseteq Messages /\ sweep.files \subseteq sweep.batch /\ (\A m \in sweep.batch : age[m] > 0)
  BY <1>1 DEF HoldInv, Sweep
<1>3. \A w \in Workers : Holds(w)'
  BY <1>1 DEF HoldInv, Holds
<1>4. ASSUME age' = age, \A m \in Messages : age[m] > 0 \/ (message'[m] = message[m] /\ (m \in raw => m \in raw'))
      PROVE  \A m \in Messages : (Ended(m) \/ Fresh(m))'
  <2>1. \A m \in Messages : Fresh(m) => Fresh(m)'
    BY <1>4 DEF Fresh
  <2> QED
    BY <1>1, <2>1 DEF HoldInv, Ended
<1>5. ASSUME UNCHANGED message PROVE WalkInv'
  BY <1>1, <1>5 DEF WalkInv
<1>6. CASE \E m \in Messages : GrowOld(m)
  <2>1. PICK k \in Messages : GrowOld(k)
    BY <1>6
  <2>2. Ended(k) /\ UNCHANGED <<message, raw, sweep>> /\ age' = [age EXCEPT ![k] = @ + 1]
    BY <2>1 DEF GrowOld, JobEnded, Ended, storeVars
  <2>3. ASSUME NEW m \in Messages PROVE (Ended(m) \/ Fresh(m))'
    <3>1. CASE m = k
      BY <1>1, <2>2, <3>1 DEF Ended
    <3>2. CASE m # k
      BY <1>1, <2>2, <3>2 DEF HoldInv, Ended, Fresh
    <3> QED
      BY <3>1, <3>2
  <2>4. \A m \in sweep'.batch : age'[m] > 0
    BY <1>1, <1>2, <2>2, RetentionAssumption
  <2>5. HoldInv'
    BY <1>2, <1>3, <2>2, <2>3, <2>4 DEF HoldInv
  <2> QED
    BY <1>5, <2>2, <2>5, SweepStays
<1>7. CASE AbortSweep
  <2>1. UNCHANGED <<message, raw, age>> /\ sweep'.batch = {} /\ sweep'.files = {} /\ sweep'.pc = "idle"
    BY <1>7 DEF AbortSweep, AtRest, storeVars
  <2>2. HoldInv'
    BY <1>3, <1>4, <2>1 DEF HoldInv
  <2> QED
    BY <1>5, <2>1, <2>2 DEF SweepInv, Closed
<1>8. CASE FindContent
  <2>1. /\ UNCHANGED <<message, raw, age>> /\ sweep'.batch = Expired /\ sweep'.files = {}
        /\ sweep'.pc = "content"
        /\ sweep'.unfinished = {m \in Expired : message[m].status \in NonTerminal}
    BY <1>8 DEF FindContent, AtRest, storeVars
  <2>2. \A m \in Expired : age[m] > 0
    BY <1>1, RetentionAssumption DEF Expired
  <2>3. HoldInv'
    BY <1>3, <1>4, <2>1, <2>2 DEF HoldInv
  <2> QED
    BY <1>5, <2>1, <2>3 DEF SweepInv, Closed
<1>9. CASE \E m \in Messages : DeleteRaw(m)
  <2>1. PICK k \in sweep.batch : /\ sweep.pc = "content" /\ raw' = raw \ {k}
                                 /\ sweep' = [sweep EXCEPT !.pc = "mark", !.files = {k}]
                                 /\ UNCHANGED <<message, age>>
    BY <1>9 DEF DeleteRaw, RawWithout
  <2>2. /\ sweep'.pc = "mark" /\ sweep'.batch = sweep.batch /\ sweep'.files = {k}
        /\ sweep'.unfinished = sweep.unfinished
    BY <1>1, <2>1 DEF Sweep
  <2>3. HoldInv'
    BY <1>2, <1>3, <1>4, <2>1, <2>2 DEF HoldInv
  <2> QED
    BY <1>5, <2>1, <2>2, <2>3 DEF SweepInv, Closed
<1>10. CASE MarkDeleted
  <2>1. PICK k \in sweep.files :
           /\ message' = [message EXCEPT ![k] =
                 IF ~@.exists THEN @
                 ELSE [@ EXCEPT !.rawDeleted = TRUE, !.status = MarkedStatus(k)]]
           /\ sweep' = IF sweep.batch = {k} THEN AtRest
                       ELSE [sweep EXCEPT !.pc = "content", !.batch = @ \ {k}, !.files = {}]
           /\ sweep.pc = "mark" /\ UNCHANGED <<raw, age>>
    BY <1>10 DEF MarkDeleted
  <2> DEFINE doc == message[k]
             new == IF ~doc.exists THEN doc
                    ELSE [doc EXCEPT !.rawDeleted = TRUE, !.status = MarkedStatus(k)]
  <2>2. k \in Messages /\ k \in sweep.batch /\ doc \in MessageDoc /\ DocOK(doc, To[k])
    BY <1>1, <1>2, <2>1 DEF WalkInv
  <2>3. doc.status \in Terminal => MarkedStatus(k) = doc.status
    BY <2>1, <2>2 DEF MarkedStatus, SweepInv, Terminal, NonTerminal
  <2>4. doc.status \notin Terminal => MarkedStatus(k) = "failed"
    BY <2>1, <2>2 DEF MarkedStatus, SweepInv, Terminal, MessageDoc
  <2>5. /\ new.to = doc.to /\ (new.status = doc.status \/ new.status = "failed")
        /\ (new.rawDeleted => new.status \in Terminal)
    <3>1. doc.rawDeleted => doc.status \in Terminal
      BY <2>2 DEF SweepInv, Closed
    <3>2. CASE ~doc.exists
      BY <3>1, <3>2
    <3>3. CASE doc.exists
      BY <2>2, <2>3, <2>4, <3>3 DEF MessageDoc, Terminal
    <3> QED
      BY <3>2, <3>3
  <2>6. message'[k] = new /\ \A m \in Messages : m # k => message'[m] = message[m]
    BY <1>1, <2>1, <2>2
  <2> HIDE DEF new
  <2>7. DocOK(new, To[k])
    BY <2>2, <2>5 DEF DocOK, NonTerminal
  <2>8. sweep'.batch \subseteq sweep.batch \ {k} /\ sweep'.files = {} /\ sweep'.pc \in {"idle", "content"}
    BY <1>1, <2>1 DEF AtRest, Sweep
  <2>9. sweep'.pc = "content" => sweep'.unfinished = sweep.unfinished
    BY <1>1, <2>1 DEF AtRest, Sweep
  <2>10. HoldInv'
    <3>1. \A m \in Messages : age[m] > 0 \/ (message'[m] = message[m] /\ (m \in raw => m \in raw'))
      BY <1>2, <2>1, <2>2, <2>6
    <3> QED
      BY <1>2, <1>3, <1>4, <2>1, <2>8, <3>1 DEF HoldInv
  <2>11. WalkInv'
    <3>1. ASSUME NEW w \in Workers, run'[w].pc # "idle" PROVE SlotWalk(run[w], message[run[w].msg])'
      <4>1. run[w].msg \in Messages /\ age[run[w].msg] = 0 /\ run' = run /\ run[w].pc # "idle"
        BY <1>1, <3>1, BusyFresh DEF Fresh
      <4>2. run[w].msg # k
        BY <1>2, <2>2, <4>1
      <4> QED
        BY <2>6, <4>1, <4>2 DEF WalkInv
    <3>2. ASSUME NEW m \in Messages PROVE DocOK(message[m], To[m])'
      BY <2>6, <2>7 DEF WalkInv
    <3> QED
      BY <3>1, <3>2 DEF WalkInv
  <2>12. SweepInv'
    BY <1>2, <2>1, <2>2, <2>5, <2>6, <2>8, <2>9 DEF SweepInv, Closed
  <2> QED
    BY <2>10, <2>11, <2>12
<1>11. CASE FindRecords
  <2>1. /\ UNCHANGED <<message, raw, age>> /\ sweep'.batch = Outdated /\ sweep'.files \subseteq Outdated
        /\ sweep'.pc = "records" /\ Expired = {}
    BY <1>11 DEF FindRecords, AtRest, storeVars
  <2>2. \A m \in Outdated : age[m] > 0 /\ message[m].rawDeleted /\ m \in Messages
    BY <1>1, <2>1, RetentionAssumption DEF Expired, Outdated
  <2>3. HoldInv'
    BY <1>3, <1>4, <2>1, <2>2 DEF HoldInv
  <2> QED
    BY <1>5, <2>1, <2>2, <2>3 DEF SweepInv, Closed
<1>12. CASE DeleteLeftovers
  <2>1. /\ UNCHANGED <<message, age>> /\ raw' = raw \ sweep.files /\ sweep'.batch = sweep.batch
        /\ sweep'.files = {} /\ sweep'.pc = "events" /\ sweep.pc = "records"
    BY <1>1, <1>12 DEF DeleteLeftovers, RawWithout, Sweep
  <2>2. HoldInv'
    <3>1. \A m \in Messages : age[m] > 0 \/ (m \in raw => m \in raw')
      BY <1>2, <2>1
    <3> QED
      BY <1>2, <1>3, <1>4, <2>1, <3>1 DEF HoldInv
  <2> QED
    BY <1>5, <2>1, <2>2 DEF SweepInv, Closed
<1>13. CASE DeleteEvents
  <2>1. /\ UNCHANGED <<message, age, raw>> /\ sweep'.batch = sweep.batch
        /\ sweep'.files = sweep.files /\ sweep'.pc = "purge" /\ sweep.pc = "events"
    BY <1>1, <1>13 DEF DeleteEvents, Sweep
  <2>2. HoldInv'
    BY <1>2, <1>3, <1>4, <2>1 DEF HoldInv
  <2> QED
    BY <1>5, <2>1, <2>2 DEF SweepInv, Closed
<1>14. CASE DeleteMessages
  <2>1. /\ message' = [m \in Messages |->
                        IF m \in sweep.batch THEN [message[m] EXCEPT !.exists = FALSE] ELSE message[m]]
        /\ UNCHANGED <<raw, age>> /\ sweep'.pc = "idle" /\ sweep'.batch = {} /\ sweep'.files = {}
    BY <1>14 DEF DeleteMessages, AtRest
  <2>2. /\ \A m \in Messages : m \notin sweep.batch => message'[m] = message[m]
        /\ \A m \in sweep.batch : message'[m] = [message[m] EXCEPT !.exists = FALSE]
    BY <1>2, <2>1
  <2>3. ASSUME NEW m \in Messages
        PROVE  /\ message'[m].to = message[m].to /\ message'[m].status = message[m].status
               /\ message'[m].rawDeleted => message[m].rawDeleted
    <3>1. message[m] \in MessageDoc
      BY <1>1
    <3>2. CASE m \in sweep.batch
      BY <2>2, <3>1, <3>2 DEF MessageDoc
    <3>3. CASE m \notin sweep.batch
      BY <2>2, <3>3
    <3> QED
      BY <3>2, <3>3
  <2>4. HoldInv'
    BY <1>2, <1>3, <1>4, <2>1, <2>2 DEF HoldInv
  <2>5. WalkInv'
    <3>1. ASSUME NEW w \in Workers, run'[w].pc # "idle" PROVE SlotWalk(run[w], message[run[w].msg])'
      <4>1. run[w].msg \in Messages /\ age[run[w].msg] = 0 /\ run' = run /\ run[w].pc # "idle"
        BY <1>1, <3>1, BusyFresh DEF Fresh
      <4>2. run[w].msg \notin sweep.batch
        BY <1>2, <4>1
      <4> QED
        BY <2>2, <4>1, <4>2 DEF WalkInv
    <3>2. ASSUME NEW m \in Messages PROVE DocOK(message[m], To[m])'
      BY <2>3 DEF WalkInv, DocOK
    <3> QED
      BY <3>1, <3>2 DEF WalkInv
  <2>6. SweepInv'
    BY <2>1, <2>3 DEF SweepInv, Closed
  <2> QED
    BY <2>4, <2>5, <2>6
<1> QED
  BY <1>6, <1>7, <1>8, <1>9, <1>10, <1>11, <1>12, <1>13, <1>14
  DEF RetentionStep, RetentionNext, SweepStep
-----------------------------------------------------------------------------
DeliveryInv == HoldInv /\ WalkInv /\ SweepInv

(* What a step of a slot that goes on does *)
LEMMA SlotSteps ==
    ASSUME TypeInv, HoldInv, WalkInv, Kept', NEW w \in Workers, WorkerStep(w) \/ FaultStep(w)
    PROVE  \/ Ponders(w) /\ SlotWalk(run'[w], message[run[w].msg])
           \/ \E a \in Addresses : Applies(w, a) /\ SlotWalk(run'[w], message[run[w].msg])
           \/ FindMessage(w) \/ SaveStart(w) \/ SaveOutcome(w) \/ CallFails(w)
           \/ CompleteJob(w) \/ FailJob(w) \/ Crash(w)
<1> DEFINE Thinks == Ponders(w) /\ SlotWalk(run'[w], message[run[w].msg])
<1>0. Others
  BY DEF WorkerStep, FaultStep
<1>1. ASSUME CheckDomain(w) \/ LoadRaw(w) \/ ReadSuppressions(w) PROVE Thinks
  BY <1>0, <1>1, CheckDomainWalk, LoadRawWalk, ReadSuppressionsWalk
<1>2. ASSUME NEW a \in Addresses, ApplyResult(w, a) \/ FailDeferred(w, a)
      PROVE  Applies(w, a) /\ SlotWalk(run'[w], message[run[w].msg])
  BY <1>0, <1>2, ApplyResultWalk, FailDeferredWalk
<1>3. ASSUME Suppress(w) \/ NotifySender(w) \/ RecordEvent(w) PROVE Thinks
  BY <1>0, <1>3, EffectsWalk
<1>4. ASSUME NEW a \in run[w].todo, NEW n \in 0 .. MaxTargets, NextDomain(w, DomainOf[a], n) PROVE Thinks
  BY <1>0, <1>4, NextDomainWalk
<1>5. ASSUME NEW rejected \in SUBSET run[w].group, NEW perm \in SUBSET rejected, MxAccepts(w, rejected, perm)
      PROVE  Thinks
  BY <1>0, <1>5, MxAcceptsWalk
<1>6. ASSUME (\E perm \in SUBSET run[w].group : MxRefuses(w, perm)) \/ MxDefers(w) \/ MxReplyLost(w)
      PROVE  Thinks
  BY <1>0, <1>6, DeliverWalk
<1>7. ASSUME FailUnverified(w) \/ FinalizeStatus(w) \/ GiveUp(w) PROVE Thinks
  BY <1>0, <1>7, FailUnverifiedWalk, FinalizeStatusWalk, GiveUpWalk
<1>8. ~\E m \in Messages : LoseLock(w, m)
  BY NoLostLock
<1> QED
  BY <1>1, <1>2, <1>3, <1>4, <1>5, <1>6, <1>7, <1>8 DEF WorkerStep, FaultStep, Step, Mishap

LEMMA SlotInv ==
    ASSUME TypeInv, DeliveryInv, Kept', NEW w \in Workers, WorkerStep(w) \/ FaultStep(w)
    PROVE  DeliveryInv'
<1>0. HoldInv /\ WalkInv /\ SweepInv /\ Others
  BY DEF DeliveryInv, WorkerStep, FaultStep
<1>1. ASSUME Moves(w), WalkInv' PROVE DeliveryInv'
  BY <1>0, <1>1, MovesHold, MovesSweep DEF DeliveryInv
<1>2. CASE Ponders(w) /\ SlotWalk(run'[w], message[run[w].msg])
  BY <1>0, <1>1, <1>2, PondersWalk DEF Ponders
<1>3. CASE \E a \in Addresses : Applies(w, a) /\ SlotWalk(run'[w], message[run[w].msg])
  <2>1. Moves(w) /\ UNCHANGED message /\ SlotWalk(run'[w], message[run[w].msg])
    BY <1>3 DEF Applies
  <2>2. SlotWalk(run[w], message[run[w].msg])'
    BY <2>1 DEF Moves
  <2>3. DocOK(message[run[w].msg], To[run[w].msg])'
    BY <1>0, <2>1, BusyFresh DEF WalkInv, Moves
  <2> QED
    BY <1>0, <1>1, <2>1, <2>2, <2>3, MovesWalk
<1>4. CASE FindMessage(w)
  BY <1>0, <1>1, <1>4, FindMessageWalk
<1>5. CASE SaveStart(w)
  BY <1>0, <1>1, <1>5, SaveStartWalk, SaveThenMoves DEF SaveStart, At
<1>6. CASE SaveOutcome(w)
  <2>1. AfterSave(run[w]) # "idle"
    BY DEF AfterSave
  <2> QED
    BY <1>0, <1>1, <1>6, <2>1, SaveOutcomeWalk, SaveThenMoves DEF SaveOutcome, At
<1>7. CASE CallFails(w)
  BY <1>0, <1>1, <1>7, CallFailsWalk
<1>8. CASE CompleteJob(w) \/ FailJob(w) \/ Crash(w)
  <2>1. LetsGo(w)
    BY <1>0, <1>8, FinishLetsGo
  <2>2. SweepInv'
    BY <1>0, <2>1, SweepStays DEF LetsGo, retentionVars
  <2> QED
    BY <1>0, <2>1, <2>2, LetsGoInv DEF DeliveryInv
<1> QED
  BY <1>0, <1>2, <1>3, <1>4, <1>5, <1>6, <1>7, <1>8, SlotSteps

LEMMA NextInv ==
    ASSUME InTime, TypeInv, DeliveryInv, Kept', [Next]_vars
    PROVE  DeliveryInv'
<1>0. HoldInv /\ WalkInv /\ SweepInv
  BY DEF DeliveryInv
<1>1. ASSUME NEW w \in Workers, NEW m \in Messages, TakeJob(w, m), Others PROVE DeliveryInv'
  <2>1. SweepInv'
    BY <1>0, <1>1, SweepStays DEF TakeJob, Others, retentionVars
  <2> QED
    BY <1>0, <1>1, <2>1, TakeJobInv DEF DeliveryInv
<1>2. ASSUME NEW m \in Messages, ReclaimStep(m) PROVE DeliveryInv'
  <2>1. SweepInv' /\ ReclaimJob(m) /\ Others
    BY <1>0, <1>2, SweepStays DEF ReclaimStep, ReclaimJob, Others, retentionVars
  <2> QED
    BY <1>0, <2>1, ReclaimInv DEF DeliveryInv
<1>3. CASE RetentionStep
  BY <1>0, <1>3, RetentionInv DEF DeliveryInv
<1>4. CASE (\E d \in SendingDomains : ChangeDomain(d)) \/ UNCHANGED vars
  <2>1. UNCHANGED <<message, raw, run, job, retentionVars>>
    BY <1>4 DEF ChangeDomain, vars, storeVars, processorVars
  <2>2. SweepInv'
    BY <1>0, <2>1, SweepStays DEF retentionVars
  <2> QED
    BY <1>0, <2>1, <2>2, AloneInv DEF DeliveryInv
<1> QED
  BY <1>1, <1>2, <1>3, <1>4, SlotInv DEF Next, QueueStep

LEMMA InitInv == Init => DeliveryInv
<1> SUFFICES ASSUME Init PROVE DeliveryInv
  OBVIOUS
<1>1. \A w \in Workers : run[w].pc = "idle"
  BY DEF Init, ProcessorInit, Idle
<1>2. ASSUME NEW m \in Messages PROVE Fresh(m) /\ DocOK(message[m], To[m]) /\ ~message[m].rawDeleted
  <2>1. message[m] = Accepted(m) /\ m \in raw /\ age[m] = 0
    BY DEF Init, StoreInit, RetentionInit
  <2>2. /\ Accepted(m).exists /\ ~Accepted(m).rawDeleted /\ Accepted(m).status = "queued"
        /\ \A a \in Addresses : Accepted(m).to[a] = IF a \in To[m] THEN "queued" ELSE "absent"
    BY DEF Accepted
  <2> QED
    BY <2>1, <2>2 DEF Fresh, DocOK, NonTerminal
<1>3. sweep = AtRest
  BY DEF Init, RetentionInit
<1> QED
  BY <1>1, <1>2, <1>3 DEF DeliveryInv, HoldInv, Holds, WalkInv, SweepInv, AtRest, Ended

(* As long as slots keep their locks, every document, slot, job and sweep   *)
(* agrees with the others.                                                  *)
LEMMA AlwaysInv == ASSUME InTime PROVE Spec => [](Kept => DeliveryInv)
<1>1. Init => (Kept => DeliveryInv)
  BY InitInv
<1>2. TypeInv /\ (Kept => DeliveryInv) /\ [Next]_vars => (Kept => DeliveryInv)'
  <2> SUFFICES ASSUME TypeInv, Kept => DeliveryInv, [Next]_vars, Kept' PROVE DeliveryInv'
    OBVIOUS
  <2> QED
    BY KeptBack, NextInv
<1> QED
  BY <1>1, <1>2, AlwaysTyped, PTL DEF Spec

(* Content is kept until the message is closed: a sweep that comes in time  *)
(* never strips a message that a job may still deliver                      *)
(* (retention.ts:15-17, 46-61).                                             *)
THEOREM ContentOutlastsDelivery == ASSUME InTime PROVE Spec => [](Kept => UnfinishedKeepsContent)
<1>1. (Kept => DeliveryInv) => (Kept => UnfinishedKeepsContent)
  BY DEF DeliveryInv, SweepInv, UnfinishedKeepsContent
<1> QED
  BY <1>1, AlwaysInv, PTL

(* A message that closes as delivered or bounced has no open recipient, and *)
(* is delivered exactly if some recipient got it (finalizeStatus,           *)
(* processor.ts:194-226), over all its attempts.                            *)
THEOREM ClosingIsSettled == ASSUME InTime PROVE Spec => [](Kept => ClosedIsSettled)
<1>1. DeliveryInv => ClosedIsSettled
  <2> SUFFICES ASSUME DeliveryInv, NEW m \in Messages, message[m].status \in {"delivered", "bounced"}
               PROVE  /\ \A a \in To[m] : message[m].to[a] \in Terminal
                      /\ (message[m].status = "delivered") <=> (\E a \in To[m] : message[m].to[a] = "delivered")
    BY DEF ClosedIsSettled
  <2>1. DocOK(message[m], To[m])
    BY DEF DeliveryInv, WalkInv
  <2> QED
    BY <2>1 DEF DocOK
<1> QED
  BY <1>1, AlwaysInv, PTL
-----------------------------------------------------------------------------
(* A sweep changes no recipient, and no status but that of an open message. *)
LEMMA RetentionDocs ==
    ASSUME TypeInv, HoldInv, SweepInv, RetentionStep, NEW m \in Messages
    PROVE  /\ message'[m].to = message[m].to
           /\ message'[m].status # message[m].status =>
                 ~Closed(m) /\ message'[m].status = "failed" /\ message[m].exists
           /\ message'[m].exists => message[m].exists
<1>1. message[m] \in MessageDoc /\ message \in [Messages -> MessageDoc]
  BY TypeInvParts DEF DataOK
<1>2. CASE UNCHANGED message
  BY <1>2
<1>3. CASE MarkDeleted
  <2>1. PICK k \in sweep.files :
           /\ message' = [message EXCEPT ![k] =
                 IF ~@.exists THEN @
                 ELSE [@ EXCEPT !.rawDeleted = TRUE, !.status = MarkedStatus(k)]]
           /\ sweep.pc = "mark"
    BY <1>3 DEF MarkDeleted
  <2>2. CASE k = m
    <3>1. message[k].status \in Terminal \/ MarkedStatus(k) = "failed"
      BY <1>1, <2>1, <2>2 DEF MarkedStatus, SweepInv, HoldInv, MessageDoc
    <3>2. message[k].status \in Terminal => MarkedStatus(k) = message[k].status
      BY <2>1, <2>2 DEF MarkedStatus, SweepInv, HoldInv, Terminal, NonTerminal
    <3>3. CASE ~message[k].exists
      BY <1>1, <2>1, <2>2, <3>3
    <3>4. CASE message[k].exists
      <4>1. message'[m] = [message[m] EXCEPT !.rawDeleted = TRUE, !.status = MarkedStatus(m)]
        BY <1>1, <2>1, <2>2, <3>4
      <4>2. message'[m].to = message[m].to /\ message'[m].status = MarkedStatus(m)
        BY <1>1, <4>1 DEF MessageDoc
      <4> QED
        BY <2>2, <3>1, <3>2, <3>4, <4>2 DEF Closed
    <3> QED
      BY <3>3, <3>4
  <2>3. CASE k # m
    BY <1>1, <2>1, <2>3
  <2> QED
    BY <2>2, <2>3
<1>4. CASE DeleteMessages
  <2>1. message'[m] = IF m \in sweep.batch THEN [message[m] EXCEPT !.exists = FALSE] ELSE message[m]
    BY <1>4 DEF DeleteMessages
  <2> QED
    BY <1>1, <2>1 DEF MessageDoc
<1> QED
  BY <1>2, <1>3, <1>4
  DEF RetentionStep, RetentionNext, SweepStep, FindContent, DeleteRaw, FindRecords,
      DeleteLeftovers, DeleteEvents, AbortSweep, GrowOld, storeVars

LEMMA FaultsUp ==
    ASSUME TypeInv, [Next]_vars
    PROVE  /\ faults' \in [FaultKinds -> Nat] /\ faults \in [FaultKinds -> Nat]
           /\ \A k \in FaultKinds : faults[k] <= faults'[k]
<1>1. faults \in [FaultKinds -> Nat]
  BY TypeInvParts DEF DataOK
<1>2. CASE UNCHANGED faults
  BY <1>1, <1>2
<1>3. ASSUME NEW k \in FaultKinds, Fault(k)
      PROVE  /\ faults' \in [FaultKinds -> Nat]
             /\ \A j \in FaultKinds : faults[j] <= faults'[j]
  BY <1>1, <1>3 DEF Fault
<1> QED
  BY <1>1, <1>2, <1>3, FaultsGrow

(* A job that ends has closed its message, or a fault has ended it: calls   *)
(* that fail use up attempts, crashes use up the stalls BullMQ forgives.    *)
JobsInv ==
    /\ \A m \in Messages :
          /\ job[m].state = "completed" => Closed(m)
          /\ job[m].state = "failed" => Closed(m) \/ faults["error"] > 0 \/ faults["crash"] > MaxStalled
          /\ job[m].stalls <= faults["crash"]
          /\ job[m].state = "active" /\ job[m].owner = NoWorker => job[m].stalls < faults["crash"]
    /\ \A w \in Workers : run[w].pc = "throw" => faults["error"] > 0 \/ run[w].made + 1 < MaxAttempts

LEMMA MovesJobs ==
    ASSUME TypeInv, DeliveryInv, JobsInv, [Next]_vars, NEW w \in Workers, Moves(w),
           run'[w].pc = "throw" => faults'["error"] > 0 \/ run[w].made + 1 < MaxAttempts
    PROVE  JobsInv'
<1>1. /\ faults["error"] <= faults'["error"] /\ faults["crash"] <= faults'["crash"]
      /\ faults["error"] \in Nat /\ faults["crash"] \in Nat /\ faults'["error"] \in Nat /\ faults'["crash"] \in Nat
  BY FaultsUp, ProcessorAssumption
<1>2. MaxStalled \in Nat /\ \A m \in Messages : job[m].stalls \in Nat
  BY StoreAssumption, TypeInvParts DEF QueueOK, Job
<1>3. ASSUME NEW m \in Messages
      PROVE  /\ job'[m].state = "completed" => Closed(m)'
             /\ job'[m].state = "failed" => Closed(m)' \/ faults'["error"] > 0 \/ faults'["crash"] > MaxStalled
             /\ job'[m].stalls <= faults'["crash"]
             /\ job'[m].state = "active" /\ job'[m].owner = NoWorker => job'[m].stalls < faults'["crash"]
  <2>1. job' = job
    BY DEF Moves
  <2>2. m = run[w].msg => job[m].state = "active"
    BY DEF Moves, DeliveryInv, HoldInv, Holds
  <2>3. m # run[w].msg => message'[m] = message[m]
    BY DEF Moves
  <2>4. job[m].state \in {"completed", "failed"} => (Closed(m) => Closed(m)')
    BY <2>2, <2>3 DEF Closed
  <2> QED
    BY <1>1, <1>2, <2>1, <2>4 DEF JobsInv
<1>4. ASSUME NEW v \in Workers, run'[v].pc = "throw"
      PROVE  faults'["error"] > 0 \/ run'[v].made + 1 < MaxAttempts
  <2>1. CASE v = w
    BY <1>4, <2>1 DEF Moves
  <2>2. CASE v # w
    BY <1>1, <1>4, <2>2 DEF Moves, JobsInv
  <2> QED
    BY <2>1, <2>2
<1> QED
  BY <1>3, <1>4 DEF JobsInv

LEMMA SlotJobs ==
    ASSUME TypeInv, DeliveryInv, JobsInv, Kept', [Next]_vars, NEW w \in Workers,
           WorkerStep(w) \/ FaultStep(w)
    PROVE  JobsInv'
<1>0. HoldInv /\ WalkInv /\ SweepInv /\ Others
  BY DEF DeliveryInv, WorkerStep, FaultStep
<1>1. CASE Ponders(w) \/ \E a \in Addresses : Applies(w, a)
  BY <1>1, MovesJobs DEF Ponders, Applies, Loaded, Walking
<1>2. CASE FindMessage(w)
  <2>1. Moves(w) /\ run[w] \in Run /\ run \in [Workers -> Run]
    BY <1>0, <1>2, FindMessageWalk, TypeInvParts
  <2> DEFINE q == [run[w] EXCEPT !.pc = "start", !.to = message[run[w].msg].to, !.status = "sending",
                                 !.touched = message[run[w].msg].status # "sending"]
             p == [run[w] EXCEPT !.pc = "ack"]
  <2>2. q.pc = "start" /\ p.pc = "ack"
    BY <2>1 DEF Run
  <2>3. Become(w, q) \/ Become(w, p)
    BY <1>2 DEF FindMessage, Goto
  <2> HIDE DEF q, p
  <2>4. run'[w] = q \/ run'[w] = p
    BY <2>1, <2>3 DEF Become
  <2>5. run'[w].pc # "throw"
    BY <2>2, <2>4
  <2> QED
    BY <2>1, <2>5, MovesJobs
<1>3. CASE SaveStart(w)
  <2>1. Moves(w) /\ run'[w] = [run[w] EXCEPT !.pc = "domain", !.touched = FALSE, !.dirty = {}]
    BY <1>0, <1>3, SaveThenMoves DEF SaveStart, At
  <2>2. run'[w].pc # "throw"
    BY <2>1, BusyFresh DEF Moves, Run
  <2> QED
    BY <2>1, <2>2, MovesJobs
<1>4. CASE SaveOutcome(w)
  <2>1. run[w].pc = "save" /\ AfterSave(run[w]) # "idle"
    BY <1>4 DEF SaveOutcome, At, AfterSave
  <2>2. Moves(w) /\ run'[w] = [run[w] EXCEPT !.pc = AfterSave(run[w]), !.touched = FALSE, !.dirty = {}]
    BY <1>0, <1>4, <2>1, SaveThenMoves DEF SaveOutcome
  <2>3. run'[w].pc = AfterSave(run[w]) /\ Decided(run[w])
    BY <1>0, <2>1, <2>2, SlotFacts DEF Run, SlotWalk
  <2>4. run'[w].pc = "throw" => run[w].made + 1 < MaxAttempts
    BY <2>1, <2>3 DEF AfterSave, Decided
  <2> QED
    BY <2>2, <2>4, MovesJobs
<1>5. CASE CallFails(w)
  <2>1. Moves(w) /\ Fault("error")
    BY <1>0, <1>5, CallFailsWalk DEF CallFails
  <2>2. faults'["error"] > 0
    BY <2>1, FaultsUp, ProcessorAssumption DEF Fault
  <2> QED
    BY <2>1, <2>2, MovesJobs
<1>6. CASE CompleteJob(w) \/ FailJob(w) \/ Crash(w)
  <2>0. PICK m \in Messages : m = run[w].msg
    BY <1>0, <1>6, BusyFresh DEF CompleteJob, FailJob, Crash, At
  <2> DEFINE j == job[m]
  <2>1. /\ LetsGo(w)
        /\ job'[m] = IF CompleteJob(w) THEN Completed(j) ELSE IF FailJob(w) THEN Retried(j)
                     ELSE [j EXCEPT !.owner = NoWorker]
    BY <1>0, <1>6, <2>0, FinishLetsGo
  <2>2. /\ m \in Messages /\ j \in Job /\ j.owner = w /\ j.made = run[w].made /\ j.state = "active"
        /\ run[w] \in Run /\ SlotWalk(run[w], message[m])
    BY <1>0, <2>0, <2>1, SlotFacts, TypeInvParts DEF LetsGo, QueueOK, HoldInv, Holds
  <2>3. /\ faults["error"] <= faults'["error"] /\ faults["crash"] <= faults'["crash"]
        /\ faults["error"] \in Nat /\ faults["crash"] \in Nat /\ faults'["error"] \in Nat /\ faults'["crash"] \in Nat
        /\ MaxStalled \in Nat /\ \A k \in Messages : job[k].stalls \in Nat
    BY FaultsUp, ProcessorAssumption, StoreAssumption, TypeInvParts DEF QueueOK, Job
  <2>4. /\ job'[m].state = "completed" => Closed(m)'
        /\ job'[m].state = "failed" => Closed(m)' \/ faults'["error"] > 0 \/ faults'["crash"] > MaxStalled
        /\ job'[m].stalls <= faults'["crash"]
        /\ job'[m].state = "active" /\ job'[m].owner = NoWorker => job'[m].stalls < faults'["crash"]
    <3>1. j.stalls <= faults["crash"]
      BY <2>2 DEF JobsInv
    <3>2. CASE CompleteJob(w)
      <4>1. job'[m].state = "completed" /\ job'[m].stalls = j.stalls
        BY <2>1, <2>2, <3>2 DEF Completed, Job
      <4>2. Closed(m)
        BY <2>2, <3>2 DEF CompleteJob, At, SlotWalk, StatusInStep, Closed
      <4>3. Closed(m)'
        BY <2>1, <4>2 DEF LetsGo, Closed
      <4> QED
        BY <2>2, <2>3, <3>1, <4>1, <4>3
    <3>3. CASE ~CompleteJob(w) /\ FailJob(w)
      <4>1. /\ job'[m].state = IF j.made + 1 < MaxAttempts THEN "waiting" ELSE "failed"
            /\ job'[m].stalls = j.stalls
        BY <2>1, <2>2, <3>3 DEF Retried, Job
      <4>2. faults["error"] > 0 \/ run[w].made + 1 < MaxAttempts
        BY <3>3 DEF FailJob, At, JobsInv
      <4> QED
        BY <2>2, <2>3, <3>1, <4>1, <4>2
    <3>4. CASE ~CompleteJob(w) /\ ~FailJob(w) /\ Crash(w)
      <4>1. job'[m].state = "active" /\ job'[m].stalls = j.stalls
        BY <2>1, <2>2, <3>4 DEF Job
      <4>2. faults'["crash"] = faults["crash"] + 1
        BY <3>4, FaultsUp, ProcessorAssumption DEF Crash, Fault
      <4> QED
        BY <2>2, <2>3, <3>1, <4>1, <4>2
    <3> QED
      BY <1>6, <3>2, <3>3, <3>4
  <2>5. ASSUME NEW k \in Messages, k # m
        PROVE  /\ job'[k].state = "completed" => Closed(k)'
               /\ job'[k].state = "failed" => Closed(k)' \/ faults'["error"] > 0 \/ faults'["crash"] > MaxStalled
               /\ job'[k].stalls <= faults'["crash"]
               /\ job'[k].state = "active" /\ job'[k].owner = NoWorker => job'[k].stalls < faults'["crash"]
    <3>1. job'[k] = job[k] /\ (Closed(k) => Closed(k)')
      BY <2>0, <2>1, <2>5 DEF LetsGo, Closed
    <3> QED
      BY <2>3, <3>1 DEF JobsInv
  <2>6. ASSUME NEW v \in Workers, run'[v].pc = "throw"
        PROVE  faults'["error"] > 0 \/ run'[v].made + 1 < MaxAttempts
    BY <2>1, <2>3, <2>6 DEF LetsGo, JobsInv
  <2>7. ASSUME NEW k \in Messages
        PROVE  /\ job'[k].state = "completed" => Closed(k)'
               /\ job'[k].state = "failed" => Closed(k)' \/ faults'["error"] > 0 \/ faults'["crash"] > MaxStalled
               /\ job'[k].stalls <= faults'["crash"]
               /\ job'[k].state = "active" /\ job'[k].owner = NoWorker => job'[k].stalls < faults'["crash"]
    <3>1. CASE k = m
      BY <2>4, <3>1
    <3>2. CASE k # m
      BY <2>5, <3>2
    <3> QED
      BY <3>1, <3>2
  <2> QED
    BY <2>6, <2>7 DEF JobsInv
<1> QED
  BY <1>0, <1>1, <1>2, <1>3, <1>4, <1>5, <1>6, SlotSteps

LEMMA NextJobs ==
    ASSUME InTime, TypeInv, DeliveryInv, JobsInv, Kept', [Next]_vars
    PROVE  JobsInv'
<1>0. HoldInv /\ WalkInv /\ SweepInv
  BY DEF DeliveryInv
<1>1. /\ faults["error"] <= faults'["error"] /\ faults["crash"] <= faults'["crash"]
      /\ faults["error"] \in Nat /\ faults["crash"] \in Nat /\ faults'["error"] \in Nat /\ faults'["crash"] \in Nat
      /\ MaxStalled \in Nat /\ job \in [Messages -> Job] /\ \A k \in Messages : job[k].stalls \in 0 .. MaxStalled
  BY FaultsUp, ProcessorAssumption, StoreAssumption, TypeInvParts DEF QueueOK, Job
<1>2. ASSUME NEW w \in Workers, NEW m \in Messages, TakeJob(w, m), Others PROVE JobsInv'
  <2>1. /\ job' = [job EXCEPT ![m] = [@ EXCEPT !.state = "active", !.owner = w]] /\ UNCHANGED message
        /\ run'[w].pc = "load" /\ \A v \in Workers \ {w} : run'[v] = run[v]
    BY <1>0, <1>2, TakeJobInv DEF TakeJob
  <2>2. /\ job'[m].state = "active" /\ job'[m].owner = w /\ job'[m].stalls = job[m].stalls
        /\ \A k \in Messages : k # m => job'[k] = job[k]
    BY <1>1, <2>1 DEF Job
  <2>3. w # NoWorker
    BY StoreAssumption
  <2> QED
    BY <1>1, <2>1, <2>2, <2>3 DEF JobsInv, Closed
<1>3. ASSUME NEW m \in Messages, ReclaimStep(m) PROVE JobsInv'
  <2>1. /\ job' = [job EXCEPT ![m] = Reclaimed(@)] /\ UNCHANGED <<message, run>>
        /\ job[m].state = "active" /\ job[m].owner = NoWorker
    BY <1>3 DEF ReclaimStep, ReclaimJob, processorVars
  <2>2. job'[m] = Reclaimed(job[m]) /\ \A k \in Messages : k # m => job'[k] = job[k]
    BY <1>1, <2>1
  <2>3. job[m].stalls < faults["crash"]
    BY <2>1 DEF JobsInv
  <2>4. /\ job'[m].state = "waiting" => job'[m].stalls = job[m].stalls + 1
        /\ job'[m].state = "failed" => job'[m].stalls = MaxStalled /\ job[m].stalls = MaxStalled
        /\ job'[m].state \in {"waiting", "failed"}
    <3>1. CASE job[m].stalls < MaxStalled
      BY <1>1, <2>2, <3>1 DEF Reclaimed, Job
    <3>2. CASE ~(job[m].stalls < MaxStalled)
      BY <1>1, <2>2, <3>2 DEF Reclaimed, Job
    <3> QED
      BY <3>1, <3>2
  <2> QED
    BY <1>1, <2>1, <2>2, <2>3, <2>4 DEF JobsInv, Closed
<1>4. CASE RetentionStep
  <2>1. UNCHANGED <<job, run>>
    BY <1>4 DEF RetentionStep, RetentionNext, SweepStep, FindContent, DeleteRaw, MarkDeleted,
       FindRecords, DeleteLeftovers, DeleteEvents, DeleteMessages, AbortSweep, GrowOld, storeVars, processorVars
  <2>2. \A m \in Messages : Closed(m) => Closed(m)'
    BY <1>0, <1>4, RetentionDocs DEF Closed
  <2> QED
    BY <1>1, <2>1, <2>2 DEF JobsInv
<1>5. CASE (\E d \in SendingDomains : ChangeDomain(d)) \/ UNCHANGED vars
  <2>1. UNCHANGED <<message, run, job, faults>>
    BY <1>5 DEF ChangeDomain, vars, storeVars, processorVars
  <2> QED
    BY <2>1 DEF JobsInv, Closed
<1> QED
  BY <1>2, <1>3, <1>4, <1>5, SlotJobs DEF Next, QueueStep

LEMMA AlwaysJobs == ASSUME InTime PROVE Spec => [](Kept => JobsInv)
<1>1. Init => (Kept => JobsInv)
  <2> SUFFICES ASSUME Init PROVE JobsInv
    OBVIOUS
  <2>1. \A w \in Workers : run[w].pc = "idle"
    BY DEF Init, ProcessorInit, Idle
  <2>2. \A m \in Messages : job[m].state \in {"waiting", "none"} /\ job[m].stalls = 0
    BY DEF Init, StoreInit
  <2>3. faults["crash"] = 0
    BY ProcessorAssumption DEF Init, ProcessorInit
  <2> QED
    BY <2>1, <2>2, <2>3 DEF JobsInv
<1>2. TypeInv /\ (Kept => DeliveryInv) /\ (Kept => JobsInv) /\ [Next]_vars => (Kept => JobsInv)'
  <2> SUFFICES ASSUME TypeInv, Kept => DeliveryInv, Kept => JobsInv, [Next]_vars, Kept' PROVE JobsInv'
    OBVIOUS
  <2> QED
    BY KeptBack, NextJobs
<1> QED
  BY <1>1, <1>2, AlwaysTyped, AlwaysInv, PTL DEF Spec

(* No job ends before its message, however many attempts, deferrals and     *)
(* forgiven crashes it takes, unless a call failed on the way or the slots  *)
(* died more often than BullMQ forgives (processor.ts:69-74, 212-226,       *)
(* index.ts).                                                               *)
THEOREM JobsEndWithTheirMessage == ASSUME InTime PROVE Spec => []JobEndsWithMessage
<1>1. TypeInv /\ (Kept => JobsInv) => JobEndsWithMessage
  <2> SUFFICES ASSUME TypeInv, Kept => JobsInv, NEW m \in Messages,
                      job[m].state \in {"completed", "failed"}, faults["error"] = 0, faults["stall"] = 0,
                      faults["crash"] <= MaxStalled
               PROVE  Closed(m)
    BY DEF JobEndsWithMessage
  <2>1. JobsInv /\ MaxStalled \in Nat /\ faults["crash"] \in Nat
    BY StoreAssumption, ProcessorAssumption, TypeInvParts DEF Kept, DataOK
  <2> QED
    BY <2>1 DEF JobsInv
<1> QED
  BY <1>1, AlwaysJobs, AlwaysTyped, PTL
-----------------------------------------------------------------------------
(* Where no lock may be lost, none is. *)
LEMMA AlwaysKept == ASSUME MaxFaults["stall"] = 0 PROVE Spec => []Kept
<1>1. Init => Kept
  BY ProcessorAssumption DEF Init, ProcessorInit, Kept
<1>2. TypeInv /\ Kept /\ [Next]_vars => Kept'
  <2> SUFFICES ASSUME TypeInv, Kept, [Next]_vars PROVE Kept'
    OBVIOUS
  <2>1. faults \in [FaultKinds -> Nat] /\ "stall" \in FaultKinds
    BY TypeInvParts, ProcessorAssumption DEF DataOK
  <2>2. CASE UNCHANGED faults
    BY <2>2 DEF Kept
  <2>3. ASSUME NEW k \in FaultKinds, Fault(k) PROVE Kept'
    BY <2>1, <2>3 DEF Fault, Kept
  <2> QED
    BY <2>2, <2>3, FaultsGrow
<1> QED
  BY <1>1, <1>2, AlwaysTyped, PTL DEF Spec
-----------------------------------------------------------------------------
(* save() is called on open messages only, stores the recipients as the     *)
(* slot knows them, touches none that is final, and closes the message only *)
(* when every recipient is.                                                 *)
LEMMA SavedDoc ==
    ASSUME TypeInv, DeliveryInv, NEW w \in Workers, SaveStart(w) \/ SaveOutcome(w), Others,
           NEW m \in Messages, m = run[w].msg
    PROVE  /\ run[w].pc \in Loaded /\ message[m].exists /\ message'[m].exists
           /\ \A k \in Messages : k # m => message'[k] = message[k]
           /\ message[m].status \in NonTerminal
           /\ \A a \in Addresses : message'[m].to[a] = run[w].to[a]
           /\ \A a \in Addresses : message[m].to[a] \notin NonTerminal => message'[m].to[a] = message[m].to[a]
           /\ message'[m].status \in Terminal => \A a \in Addresses : message'[m].to[a] \notin NonTerminal
<1>0. HoldInv /\ WalkInv
  BY DEF DeliveryInv
<1>1. run[w].pc \in {"start", "save"} /\ UNCHANGED <<raw, job>>
  BY DEF SaveStart, SaveOutcome, At
<1>2. \E pc : pc # "idle" /\ SaveThen(w, pc)
  BY DEF SaveStart, SaveOutcome, AfterSave
<1>3. /\ Moves(w) /\ message' = [message EXCEPT ![m] = Written(m, run[w])]
      /\ \A a \in Addresses : message'[m].to[a] = run[w].to[a]
  BY <1>0, <1>1, <1>2, SaveThenMoves
<1>4. /\ run[w] \in Run /\ message[m] \in MessageDoc /\ message \in [Messages -> MessageDoc]
      /\ message[m].exists /\ SlotWalk(run[w], message[m])
  BY <1>0, <1>1, SlotFacts DEF Fresh
<1>5. message[m].status \in NonTerminal /\ run[w].pc \in Loaded
  BY <1>1, <1>4 DEF SlotWalk, StatusInStep, Loaded, NonTerminal
<1>6. \A a \in Addresses : message[m].to[a] \notin NonTerminal => message'[m].to[a] = message[m].to[a]
  BY <1>3, <1>4, <1>5 DEF SlotWalk, InStep
<1>7. message'[m].exists
  BY <1>3, <1>4 DEF Moves
<1>8. message'[m].status = IF run[w].touched THEN run[w].status ELSE message[m].status
  BY <1>3, <1>4 DEF Written, MessageDoc
<1>9. message'[m].status \in Terminal => \A a \in Addresses : run[w].to[a] \notin NonTerminal
  BY <1>1, <1>4, <1>5, <1>8 DEF SlotWalk, StatusInStep, Decided, Terminal, NonTerminal
<1> QED
  BY <1>3, <1>4, <1>5, <1>6, <1>7, <1>9

(* Only save() and the retention job change documents. *)
LEMMA NextDocs ==
    ASSUME TypeInv, DeliveryInv, Kept', [Next]_vars
    PROVE  \/ UNCHANGED message
           \/ \E w \in Workers : (SaveStart(w) \/ SaveOutcome(w)) /\ Others
           \/ RetentionStep
<1>1. ASSUME NEW w \in Workers, WorkerStep(w) \/ FaultStep(w)
      PROVE  UNCHANGED message \/ SaveStart(w) \/ SaveOutcome(w)
  <2>1. HoldInv /\ WalkInv
    BY DEF DeliveryInv
  <2> QED
    BY <1>1, <2>1, SlotSteps
    DEF Ponders, Applies, FindMessage, CallFails, CompleteJob, FailJob, Finish, Crash, storeVars
<1>2. ASSUME NEW w \in Workers, WorkerStep(w) \/ FaultStep(w) PROVE Others
  BY <1>2 DEF WorkerStep, FaultStep
<1>3. CASE QueueStep \/ (\E m \in Messages : ReclaimStep(m)) \/ (\E d \in SendingDomains : ChangeDomain(d)) \/ UNCHANGED vars
  BY <1>3 DEF QueueStep, TakeJob, ReclaimStep, ReclaimJob, ChangeDomain, vars, storeVars
<1> QED
  BY <1>1, <1>2, <1>3 DEF Next

(* The outcome a customer has been shown does not change, neither that of a *)
(* recipient nor that of a message, by any later attempt, save or sweep     *)
(* (processor.ts:141, 194-226; retention.ts:46-61).                         *)
THEOREM ShownOutcomesStay ==
    ASSUME InTime, MaxFaults["stall"] = 0
    PROVE  Spec => OutcomesAreFinal
<1> DEFINE Stays(m) ==
      message'[m].exists =>
         /\ Closed(m) => message'[m].status = message[m].status
         /\ \A a \in Addresses : message[m].to[a] \in Terminal => message'[m].to[a] = message[m].to[a]
<1>1. TypeInv /\ DeliveryInv /\ Kept' /\ [Next]_vars => [\A m \in Messages : Stays(m)]_vars
  <2> SUFFICES ASSUME TypeInv, DeliveryInv, Kept', [Next]_vars, NEW m \in Messages PROVE Stays(m)
    OBVIOUS
  <2>1. CASE UNCHANGED message
    BY <2>1
  <2>2. ASSUME NEW w \in Workers, SaveStart(w) \/ SaveOutcome(w), Others PROVE Stays(m)
    <3>1. PICK k \in Messages : k = run[w].msg
      BY <2>2, BusyFresh DEF DeliveryInv, SaveStart, SaveOutcome, At
    <3>2. /\ message[k].status \in NonTerminal
          /\ \A a \in Addresses : message[k].to[a] \notin NonTerminal => message'[k].to[a] = message[k].to[a]
          /\ k # m => message'[m] = message[m]
      BY <2>2, <3>1, SavedDoc
    <3>3. k = m => ~Closed(m)
      BY <3>2 DEF Closed, NonTerminal, Terminal
    <3> QED
      BY <3>2, <3>3 DEF NonTerminal, Terminal
  <2>3. CASE RetentionStep
    BY <2>3, RetentionDocs DEF DeliveryInv
  <2> QED
    BY <2>1, <2>2, <2>3, NextDocs
<1>2. Spec => [](TypeInv /\ Kept /\ (Kept => DeliveryInv))
  BY AlwaysTyped, AlwaysKept, AlwaysInv, PTL
<1>3. TypeInv /\ Kept /\ (Kept => DeliveryInv) /\ (TypeInv /\ Kept /\ (Kept => DeliveryInv))' /\ [Next]_vars
        => [\A m \in Messages : Stays(m)]_vars
  BY <1>1
<1>4. Spec => [][\A m \in Messages : Stays(m)]_vars
  BY <1>2, <1>3, PTL DEF Spec
<1> QED
  BY <1>4 DEF OutcomesAreFinal
-----------------------------------------------------------------------------
(***************************************************************************)
(* The delivery side keeps the promise of MessageLifecycle.                *)
(***************************************************************************)

(* What a customer is told of the messages, *)
Shown == [m \in Messages |-> IF Closed(m) THEN message[m].status ELSE "open"]
Outcomes == [m \in Messages |-> [a \in Addresses |->
                IF message[m].to[a] \in Terminal THEN message[m].to[a] ELSE "open"]]
Removed == {m \in Messages : ~message[m].exists}

StillOpen(m) == Shown[m] = "open" /\ m \notin Removed

(* and the steps of MessageLifecycle, in these words.                       *)
Transmitted(m, A) ==
    /\ StillOpen(m)
    /\ A \subseteq To[m] /\ \A a \in A : Outcomes[m][a] = "open"
    /\ Receive(m, A)
    /\ UNCHANGED <<Shown, Outcomes, Removed>>

SettledNow(m) ==
    /\ StillOpen(m)
    /\ \A a \in To[m] : /\ Outcomes[m][a] # "open" => Outcomes'[m][a] = Outcomes[m][a]
                        /\ Outcomes'[m][a] = "delivered" => inbox[m][a] > 0
                        /\ Shown'[m] # "open" => Outcomes'[m][a] # "open"
                        /\ Shown'[m] = "bounced" => Outcomes'[m][a] = "bounced"
    /\ \A a \in Addresses \ To[m] : Outcomes'[m][a] = Outcomes[m][a]
    /\ Shown'[m] = "delivered" => \E a \in To[m] : Outcomes'[m][a] = "delivered"
    /\ \A k \in Messages \ {m} : Shown'[k] = Shown[k] /\ Outcomes'[k] = Outcomes[k]
    /\ UNCHANGED <<inbox, Removed>>

AbandonedNow(m) ==
    /\ StillOpen(m)
    /\ Shown'[m] = "failed" /\ \A k \in Messages \ {m} : Shown'[k] = Shown[k]
    /\ UNCHANGED <<Outcomes, inbox, Removed>>

RemovedNow(M) ==
    /\ \A m \in M : Shown[m] # "open"
    /\ Removed' = Removed \cup M
    /\ UNCHANGED <<Shown, Outcomes, inbox>>

LifecycleStep ==
    \/ UNCHANGED <<Shown, Outcomes, inbox, Removed>>
    \/ \E m \in Messages : \/ \E A \in SUBSET To[m] : Transmitted(m, A)
                           \/ SettledNow(m) \/ AbandonedNow(m)
    \/ \E M \in SUBSET Messages : RemovedNow(M)

BarsOK ==
    /\ Shown = [m \in Messages |-> Shown[m]] /\ Outcomes = [m \in Messages |-> Outcomes[m]]
    /\ \A m \in Messages : /\ Shown[m] \in {"open"} \cup Terminal
                           /\ Outcomes[m] \in [Addresses -> {"open"} \cup Terminal]

LEMMA BarsAreOK == BarsOK /\ BarsOK'
BY DEF BarsOK, Shown, Outcomes, Closed

LEMMA LifecycleForm == LifecycleStep => [Lifecycle!Next]_(Lifecycle!vars)
<1> SUFFICES ASSUME LifecycleStep PROVE [Lifecycle!Next]_(Lifecycle!vars)
  OBVIOUS
<1>1. CASE UNCHANGED <<Shown, Outcomes, inbox, Removed>>
  BY <1>1 DEF Shown, Outcomes, Removed, Lifecycle!vars
<1>2. ASSUME NEW m \in Messages, NEW A \in SUBSET To[m], Transmitted(m, A) PROVE Lifecycle!Transmit(m, A)
  BY <1>2 DEF Transmitted, StillOpen, Receive, Shown, Outcomes, Removed, Lifecycle!Transmit, Lifecycle!Open
<1>3. ASSUME NEW m \in Messages, SettledNow(m) PROVE Lifecycle!Settle(m)
  <2> DEFINE next == [a \in To[m] |-> Outcomes'[m][a]]
  <2>1. \A a \in To[m] : a \in Addresses
    BY StoreAssumption
  <2>2. Shown'[m] \in {"open"} \cup Terminal /\ Outcomes'[m] \in [Addresses -> {"open"} \cup Terminal]
    BY BarsAreOK DEF BarsOK
  <2>3. next \in [To[m] -> {"open"} \cup Terminal]
    BY <2>1, <2>2
  <2>4. Outcomes' = [Outcomes EXCEPT ![m] = [a \in Addresses |-> IF a \in To[m] THEN next[a] ELSE @[a]]]
    BY <1>3, <2>2, BarsAreOK DEF SettledNow, BarsOK
  <2>5. Shown' = [Shown EXCEPT ![m] = Shown'[m]]
    BY <1>3, BarsAreOK DEF SettledNow, BarsOK
  <2>6. /\ \A a \in To[m] : /\ Outcomes[m][a] # "open" => next[a] = Outcomes[m][a]
                            /\ next[a] = "delivered" => inbox[m][a] > 0
        /\ Shown'[m] # "open" => \A a \in To[m] : next[a] # "open"
        /\ Shown'[m] = "delivered" => \E a \in To[m] : next[a] = "delivered"
        /\ Shown'[m] = "bounced" => \A a \in To[m] : next[a] = "bounced"
    BY <1>3 DEF SettledNow
  <2>7. StillOpen(m) /\ UNCHANGED <<inbox, Removed>>
    BY <1>3 DEF SettledNow
  <2> HIDE DEF next
  <2>8. \E s \in {"open"} \cup Lifecycle!Final :
           /\ s # "open" => \A a \in To[m] : next[a] # "open"
           /\ s = "delivered" => \E a \in To[m] : next[a] = "delivered"
           /\ s = "bounced" => \A a \in To[m] : next[a] = "bounced"
           /\ Shown' = [Shown EXCEPT ![m] = s]
    <3>1. Shown'[m] \in {"open"} \cup Lifecycle!Final
      BY <2>2 DEF Terminal, Lifecycle!Final
    <3> QED
      BY <2>5, <2>6, <3>1
  <2>9. \E nx \in [To[m] -> {"open"} \cup Lifecycle!Final] :
           /\ \A a \in To[m] : /\ Outcomes[m][a] # "open" => nx[a] = Outcomes[m][a]
                               /\ nx[a] = "delivered" => inbox[m][a] > 0
           /\ Outcomes' = [Outcomes EXCEPT ![m] = [a \in Addresses |-> IF a \in To[m] THEN nx[a] ELSE @[a]]]
           /\ \E s \in {"open"} \cup Lifecycle!Final :
                 /\ s # "open" => \A a \in To[m] : nx[a] # "open"
                 /\ s = "delivered" => \E a \in To[m] : nx[a] = "delivered"
                 /\ s = "bounced" => \A a \in To[m] : nx[a] = "bounced"
                 /\ Shown' = [Shown EXCEPT ![m] = s]
    <3>1. next \in [To[m] -> {"open"} \cup Lifecycle!Final]
      BY <2>3 DEF Terminal, Lifecycle!Final
    <3> QED
      BY <2>4, <2>6, <2>8, <3>1
  <2> QED
    BY <2>7, <2>9 DEF StillOpen, Shown, Outcomes, Removed, Lifecycle!Settle, Lifecycle!Open
<1>4. ASSUME NEW m \in Messages, AbandonedNow(m) PROVE Lifecycle!Abandon(m)
  <2>1. Shown' = [Shown EXCEPT ![m] = "failed"]
    BY <1>4, BarsAreOK DEF AbandonedNow, BarsOK
  <2> QED
    BY <1>4, <2>1 DEF AbandonedNow, StillOpen, Shown, Outcomes, Removed, Lifecycle!Abandon, Lifecycle!Open
<1>5. ASSUME NEW M \in SUBSET Messages, RemovedNow(M) PROVE Lifecycle!Remove(M)
  BY <1>5 DEF RemovedNow, Shown, Outcomes, Removed, Lifecycle!Remove
<1> QED
  BY <1>1, <1>2, <1>3, <1>4, <1>5 DEF LifecycleStep, Lifecycle!Next
-----------------------------------------------------------------------------
(* An MX takes copies for a slot whose message is open, for recipients that *)
(* are; only its answer does.                                               *)
LEMMA InboxSteps ==
    ASSUME TypeInv, [Next]_vars
    PROVE  \/ UNCHANGED inbox
           \/ \E w \in Workers : \E A \in SUBSET run[w].group :
                 /\ run[w].pc = "deliver" /\ Receive(run[w].msg, A)
                 /\ UNCHANGED message
<1>1. ASSUME NEW w \in Workers, WorkerStep(w)
      PROVE  \/ UNCHANGED inbox
             \/ \E A \in SUBSET run[w].group : /\ run[w].pc = "deliver" /\ Receive(run[w].msg, A)
                                               /\ UNCHANGED message
  <2>1. ASSUME NEW rejected, NEW perm, MxAccepts(w, rejected, perm)
        PROVE  /\ run[w].pc = "deliver" /\ Receive(run[w].msg, run[w].group \ rejected)
               /\ UNCHANGED message
    BY <2>1 DEF MxAccepts, At, storeVars
  <2>2. \/ UNCHANGED inbox
        \/ \E rejected \in SUBSET run[w].group : \E perm \in SUBSET rejected : MxAccepts(w, rejected, perm)
    BY <1>1 DEF WorkerStep, Step, FindMessage, SaveStart, CheckDomain, LoadRaw, ReadSuppressions, ApplyResult,
       FailDeferred, Suppress, NotifySender, RecordEvent, NextDomain, MxRefuses,
       MxDefers, FailUnverified, FinalizeStatus, GiveUp, SaveOutcome, CompleteJob, FailJob, Finish
  <2> QED
    BY <2>1, <2>2
<1>2. ASSUME NEW w \in Workers, FaultStep(w)
      PROVE  \/ UNCHANGED inbox
             \/ \E A \in SUBSET run[w].group : /\ run[w].pc = "deliver" /\ Receive(run[w].msg, A)
                                               /\ UNCHANGED message
  BY <1>2 DEF FaultStep, Mishap, MxReplyLost, Crash, CallFails, LoseLock, At, storeVars
<1>3. CASE QueueStep \/ (\E m \in Messages : ReclaimStep(m)) \/ RetentionStep
           \/ (\E d \in SendingDomains : ChangeDomain(d)) \/ UNCHANGED vars
  BY <1>3 DEF QueueStep, TakeJob, ReclaimStep, ReclaimJob, RetentionStep, ChangeDomain, vars, processorVars
<1> QED
  BY <1>1, <1>2, <1>3 DEF Next

LEMMA BarsStay ==
    ASSUME UNCHANGED message
    PROVE  UNCHANGED <<Shown, Outcomes, Removed>>
BY DEF Shown, Outcomes, Removed, Closed

LEMMA ReceiveTransmits ==
    ASSUME TypeInv, DeliveryInv, NEW w \in Workers, NEW A \in SUBSET run[w].group,
           run[w].pc = "deliver", Receive(run[w].msg, A), UNCHANGED message
    PROVE  LifecycleStep
<1>1. PICK m \in Messages : m = run[w].msg
  BY BusyFresh DEF DeliveryInv
<1>2. /\ run[w] \in Run /\ message[m] \in MessageDoc /\ Fresh(m) /\ SlotWalk(run[w], message[m])
      /\ DocOK(message[m], To[m])
  BY <1>1, SlotFacts DEF DeliveryInv
<1>3. StillOpen(m)
  BY <1>2 DEF SlotWalk, StatusInStep, Loaded, Walking, Fresh, StillOpen, Shown, Removed, Closed, Terminal
<1>4. ASSUME NEW a \in A PROVE a \in To[m] /\ Outcomes[m][a] = "open"
  <2>1. a \in Addresses /\ run[w].to[a] \in NonTerminal
    BY <1>2 DEF SlotWalk, Walk, Walking, Run
  <2>2. message[m].to[a] \in NonTerminal
    BY <1>2, <2>1 DEF SlotWalk, InStep, Loaded, Walking
  <2> QED
    BY <1>2, <2>1, <2>2 DEF DocOK, Outcomes, NonTerminal, Terminal
<1>5. Transmitted(m, A)
  BY <1>1, <1>3, <1>4, BarsStay DEF Transmitted
<1>6. A \in SUBSET To[m]
  BY <1>4
<1> QED
  BY <1>5, <1>6 DEF LifecycleStep

LEMMA SaveSettles ==
    ASSUME TypeInv, SafeInv, DeliveryInv, DeliveryInv', NEW w \in Workers, SaveStart(w) \/ SaveOutcome(w), Others
    PROVE  LifecycleStep
<1>1. PICK m \in Messages : m = run[w].msg
  BY BusyFresh DEF DeliveryInv, SaveStart, SaveOutcome, At
<1>2. /\ run[w].pc \in Loaded /\ message[m].exists /\ message'[m].exists
      /\ \A k \in Messages : k # m => message'[k] = message[k]
      /\ message[m].status \in NonTerminal
      /\ \A a \in Addresses : message'[m].to[a] = run[w].to[a]
      /\ \A a \in Addresses : message[m].to[a] \notin NonTerminal => message'[m].to[a] = message[m].to[a]
      /\ message'[m].status \in Terminal => \A a \in Addresses : message'[m].to[a] \notin NonTerminal
  BY <1>1, SavedDoc
<1>3. message \in [Messages -> MessageDoc] /\ message[m] \in MessageDoc
      /\ \A a \in Addresses : run[w].to[a] \in RecipientStatus
  BY TypeInvParts DEF DataOK, Run
<1>4. DocOK(message[m], To[m]) /\ DocOK(message[m], To[m])'
  BY DEF DeliveryInv, WalkInv
<1>5. /\ StillOpen(m) /\ \A a \in To[m] : a \in Addresses
      /\ \A k \in Messages \ {m} : Shown'[k] = Shown[k] /\ Outcomes'[k] = Outcomes[k]
  BY <1>2, StoreAssumption DEF StillOpen, Shown, Outcomes, Removed, Closed, Terminal, NonTerminal
<1>6. UNCHANGED <<inbox, Removed>>
  <2>1. UNCHANGED inbox
    BY DEF SaveStart, SaveOutcome
  <2>2. \A k \in Messages : message'[k].exists <=> message[k].exists
    BY <1>2
  <2> QED
    BY <2>1, <2>2 DEF Removed
<1>7. Shown'[m] = (IF message'[m].status \in Terminal THEN message'[m].status ELSE "open")
  BY DEF Shown, Closed
<1>8. \A a \in Addresses : /\ Outcomes[m][a] = IF message[m].to[a] \in Terminal THEN message[m].to[a] ELSE "open"
                           /\ Outcomes'[m][a] = IF message'[m].to[a] \in Terminal THEN message'[m].to[a] ELSE "open"
  BY DEF Outcomes
<1>9. ASSUME NEW a \in To[m]
      PROVE  /\ Outcomes[m][a] # "open" => Outcomes'[m][a] = Outcomes[m][a]
             /\ Outcomes'[m][a] = "delivered" => inbox[m][a] > 0
             /\ Shown'[m] # "open" => Outcomes'[m][a] # "open"
             /\ Shown'[m] = "bounced" => Outcomes'[m][a] = "bounced"
  <2>1. a \in Addresses /\ message'[m].to[a] \in RecipientStatus
    BY <1>2, <1>3, <1>5
  <2>2. Outcomes[m][a] # "open" => Outcomes'[m][a] = Outcomes[m][a]
    BY <1>2, <1>8, <2>1 DEF Terminal, NonTerminal
  <2>3. Outcomes'[m][a] = "delivered" => inbox[m][a] > 0
    BY <1>1, <1>2, <1>8, <2>1 DEF SafeInv, SlotTrue, Says
  <2>4. message'[m].to[a] # "absent"
    BY <1>4, <2>1 DEF DocOK
  <2>5. Shown'[m] # "open" => Outcomes'[m][a] # "open"
    BY <1>2, <1>7, <1>8, <2>1, <2>4 DEF RecipientStatus, Terminal
  <2>6. Shown'[m] = "bounced" => Outcomes'[m][a] = "bounced"
    BY <1>4, <1>7, <1>8, <2>1 DEF DocOK, Terminal
  <2> QED
    BY <2>2, <2>3, <2>5, <2>6
<1>10. \A a \in Addresses \ To[m] : Outcomes'[m][a] = Outcomes[m][a]
  BY <1>4, <1>8 DEF DocOK, Terminal
<1>11. Shown'[m] = "delivered" => \E a \in To[m] : Outcomes'[m][a] = "delivered"
  <2> SUFFICES ASSUME Shown'[m] = "delivered" PROVE \E a \in To[m] : Outcomes'[m][a] = "delivered"
    OBVIOUS
  <2>1. PICK a \in To[m] : message'[m].to[a] = "delivered"
    BY <1>4, <1>7 DEF DocOK
  <2>2. Outcomes'[m][a] = "delivered"
    BY <1>5, <1>8, <2>1 DEF Terminal
  <2> QED
    BY <2>2
<1>12. SettledNow(m)
  BY <1>5, <1>6, <1>9, <1>10, <1>11 DEF SettledNow
<1> QED
  BY <1>12 DEF LifecycleStep

LEMMA RetentionKeeps ==
    ASSUME TypeInv, DeliveryInv, RetentionStep
    PROVE  LifecycleStep
<1>0. message \in [Messages -> MessageDoc] /\ sweep.batch \subseteq Messages /\ sweep.files \subseteq sweep.batch
  BY TypeInvParts DEF DataOK, TypeInv, TypeOK, RetentionTypeOK, Sweep, DeliveryInv, HoldInv
<1>1. UNCHANGED inbox
  BY DEF RetentionStep, processorVars
<1>2. CASE UNCHANGED message
  BY <1>1, <1>2, BarsStay DEF LifecycleStep
<1>3. CASE MarkDeleted
  <2>1. PICK m \in Messages :
           /\ m \in sweep.files /\ sweep.pc = "mark"
           /\ message' = [message EXCEPT ![m] =
                 IF ~@.exists THEN @
                 ELSE [@ EXCEPT !.rawDeleted = TRUE, !.status = MarkedStatus(m)]]
    BY <1>0, <1>3 DEF MarkDeleted
  <2>2. \A k \in Messages \ {m} : message'[k] = message[k]
    BY <1>0, <2>1
  <2>3. CASE ~message[m].exists
    <3>1. message'[m] = message[m]
      BY <1>0, <2>1, <2>3
    <3>2. UNCHANGED <<Shown, Outcomes, Removed>>
      BY <2>2, <3>1 DEF Shown, Outcomes, Removed, Closed
    <3> QED
      BY <1>1, <3>2 DEF LifecycleStep
  <2>4. CASE message[m].exists
    <3>1. message'[m] = [message[m] EXCEPT !.rawDeleted = TRUE, !.status = MarkedStatus(m)]
      BY <1>0, <2>1, <2>4
    <3>2. message'[m].to = message[m].to /\ message'[m].exists = message[m].exists /\ message'[m].status = MarkedStatus(m)
      BY <1>0, <3>1 DEF MessageDoc
    <3>3. UNCHANGED <<Outcomes, Removed>>
      <4>1. \A k \in Messages : message'[k].to = message[k].to /\ (message'[k].exists <=> message[k].exists)
        BY <2>2, <3>2
      <4> QED
        BY <4>1 DEF Outcomes, Removed
    <3>4. \A k \in Messages \ {m} : Shown'[k] = Shown[k]
      BY <2>2 DEF Shown, Closed
    <3>5. m \in sweep.unfinished <=> message[m].status \in NonTerminal
      BY <1>0, <2>1 DEF DeliveryInv, SweepInv
    <3>6. CASE m \in sweep.unfinished
      <4>1. StillOpen(m)
        BY <2>4, <3>5, <3>6 DEF StillOpen, Shown, Removed, Closed, NonTerminal, Terminal
      <4>2. Shown'[m] = "failed"
        BY <3>2, <3>6 DEF MarkedStatus, Shown, Closed, Terminal
      <4>3. AbandonedNow(m)
        BY <1>1, <3>3, <3>4, <4>1, <4>2 DEF AbandonedNow
      <4> QED
        BY <4>3 DEF LifecycleStep
    <3>7. CASE m \notin sweep.unfinished
      <4>1. message'[m].status = message[m].status
        BY <3>2, <3>7 DEF MarkedStatus
      <4>2. UNCHANGED Shown
        BY <2>2, <4>1 DEF Shown, Closed
      <4> QED
        BY <1>1, <3>3, <4>2 DEF LifecycleStep
    <3> QED
      BY <3>6, <3>7
  <2> QED
    BY <2>3, <2>4
<1>4. CASE DeleteMessages
  <2>1. sweep.pc = "purge" /\ \A m \in Messages : message'[m] = IF m \in sweep.batch THEN [message[m] EXCEPT !.exists = FALSE]
                                                                ELSE message[m]
    BY <1>4 DEF DeleteMessages
  <2>2. \A m \in Messages : /\ message'[m].to = message[m].to /\ message'[m].status = message[m].status
                            /\ ~message'[m].exists <=> m \in sweep.batch \/ ~message[m].exists
    BY <1>0, <2>1 DEF MessageDoc
  <2>3. UNCHANGED <<Shown, Outcomes>> /\ Removed' = Removed \cup sweep.batch
    BY <1>0, <2>2 DEF Shown, Outcomes, Closed, Removed
  <2>4. \A m \in sweep.batch : Shown[m] # "open"
    BY <1>0, <2>1 DEF DeliveryInv, SweepInv, Shown, Closed, Terminal
  <2>5. RemovedNow(sweep.batch)
    BY <1>1, <2>3, <2>4 DEF RemovedNow
  <2> QED
    BY <1>0, <2>5 DEF LifecycleStep
<1> QED
  BY <1>2, <1>3, <1>4
  DEF RetentionStep, RetentionNext, SweepStep, FindContent, DeleteRaw, FindRecords,
      DeleteLeftovers, DeleteEvents, AbortSweep, GrowOld, storeVars

LEMMA LifecycleStarts == Init => Lifecycle!Init
<1> SUFFICES ASSUME Init PROVE Lifecycle!Init
  OBVIOUS
<1>1. /\ message = [m \in Messages |-> Accepted(m)] /\ inbox = [m \in Messages |-> [a \in Addresses |-> 0]]
  BY DEF Init, StoreInit, ProcessorInit
<1>2. \A m \in Messages : /\ ~Closed(m) /\ message[m].exists
                          /\ \A a \in Addresses : message[m].to[a] \notin Terminal
  BY <1>1 DEF Accepted, Closed, Terminal
<1> QED
  BY <1>1, <1>2 DEF Lifecycle!Init

(* What the service promises a customer holds across crashes, failed calls, *)
(* lost replies, retries, deferrals and retention: copies go to open        *)
(* recipients of open messages only, a recipient gets one final outcome,    *)
(* "delivered" only after an MX took a copy, and a message closes with its  *)
(* last recipient unless it is abandoned (processor.ts, delivery.ts,        *)
(* retention.ts).                                                           *)
THEOREM DeliveryImplementsLifecycle ==
    ASSUME InTime, MaxFaults["stall"] = 0
    PROVE  Spec => ImplementsLifecycle
<1> DEFINE Inv == TypeInv /\ SafeInv /\ Kept /\ DeliveryInv
<1>1. Inv /\ Inv' /\ [Next]_vars => [Lifecycle!Next]_(Lifecycle!vars)
  <2> SUFFICES ASSUME Inv, Inv', [Next]_vars PROVE LifecycleStep
    BY LifecycleForm
  <2>1. CASE UNCHANGED inbox /\ UNCHANGED message
    BY <2>1, BarsStay DEF LifecycleStep
  <2>2. ASSUME NEW w \in Workers, (SaveStart(w) \/ SaveOutcome(w)) /\ Others PROVE LifecycleStep
    BY <2>2, SaveSettles
  <2>3. CASE RetentionStep
    BY <2>3, RetentionKeeps
  <2>4. ASSUME NEW w \in Workers, NEW A \in SUBSET run[w].group,
               run[w].pc = "deliver", Receive(run[w].msg, A), UNCHANGED message
        PROVE  LifecycleStep
    BY <2>4, ReceiveTransmits
  <2> QED
    BY <2>1, <2>2, <2>3, <2>4, InboxSteps, NextDocs
<1>2. Spec => []Inv
  BY AlwaysTyped, AlwaysSafe, AlwaysKept, AlwaysInv, PTL
<1> QED
  BY <1>1, <1>2, LifecycleStarts, PTL DEF Spec, ImplementsLifecycle, Lifecycle!Spec
-----------------------------------------------------------------------------
(***************************************************************************)
(* How often a recipient gets a message, and what is counted and shown of  *)
(* the outcomes.                                                           *)
(***************************************************************************)

(* Between the recipients nothing is half applied: a slot is at a recipient *)
(* only in the awaits of applyResult, and has applied every result before   *)
(* the final save (processor.ts:59-103, 182-226).                           *)
Tidy(r) == /\ r.cur # NoAddress => r.pc \in {"suppress", "notify", "record", "throw"}
           /\ r.pc = "save" => Unapplied(r) = {}

TidyInv == \A w \in Workers : Tidy(run[w])

LEMMA TidyStep ==
    ASSUME TypeInv, TidyInv, NEW w \in Workers, NEW q, Become(w, q), Tidy(q)
    PROVE  TidyInv'
<1>1. run \in [Workers -> Run] /\ run' = [run EXCEPT ![w] = q]
  BY TypeInvParts DEF Become
<1>2. \A v \in Workers : run'[v] = IF v = w THEN q ELSE run[v]
  BY <1>1
<1> QED
  BY <1>2 DEF TidyInv

LEMMA TidyGoto ==
    ASSUME TypeInv, TidyInv, NEW w \in Workers, NEW pc, Goto(w, pc), pc # "save",
           run[w].cur = NoAddress \/ pc \in {"suppress", "notify", "record", "throw"}
    PROVE  TidyInv'
<1>1. run[w] \in Run
  BY TypeInvParts
<1> DEFINE q == [run[w] EXCEPT !.pc = pc]
<1>2. q.pc = pc /\ q.cur = run[w].cur /\ Become(w, q)
  BY <1>1 DEF Run, Goto
<1>3. Tidy(q)
  BY <1>2 DEF Tidy
<1> HIDE DEF q
<1> QED
  BY <1>2, <1>3, TidyStep

LEMMA NextTidy == TypeInv /\ TidyInv /\ [Next]_vars => TidyInv'
<1> SUFFICES ASSUME TypeInv, TidyInv, [Next]_vars PROVE TidyInv'
  OBVIOUS
<1>1. ASSUME NEW w \in Workers, WorkerStep(w) \/ FaultStep(w) PROVE TidyInv'
  <2> DEFINE r == run[w]
  <2>1. r \in Run /\ Tidy(r) /\ run \in [Workers -> Run] /\ SlotOK(r)
    BY TypeInvParts DEF TidyInv, RunOK
  <2>2. r.pc \notin {"suppress", "notify", "record", "throw"} => r.cur = NoAddress
    BY <2>1 DEF Tidy
  <2>3. ASSUME FindMessage(w) PROVE TidyInv'
    <3> DEFINE q == [r EXCEPT !.pc = "start", !.to = message[r.msg].to, !.status = "sending",
                              !.touched = message[r.msg].status # "sending"]
    <3>1. q.pc = "start" /\ q.cur = r.cur /\ r.pc = "load"
      BY <2>1, <2>3 DEF Run, FindMessage, At
    <3> HIDE DEF q
    <3>2. Tidy(q)
      BY <2>2, <3>1 DEF Tidy
    <3>3. Become(w, q) \/ Goto(w, "ack")
      BY <2>3 DEF FindMessage, q
    <3> QED
      BY <2>2, <3>1, <3>2, <3>3, TidyStep, TidyGoto
  <2>4. ASSUME NEW pc, pc \notin {"save"}, SaveThen(w, pc), r.pc \in {"start", "save"} PROVE TidyInv'
    <3> DEFINE q == [r EXCEPT !.pc = pc, !.touched = FALSE, !.dirty = {}]
    <3>1. q.pc = pc /\ q.cur = r.cur
      BY <2>1 DEF Run
    <3> HIDE DEF q
    <3>2. Tidy(q)
      BY <2>2, <2>4, <3>1 DEF Tidy
    <3>3. Become(w, q) \/ Goto(w, "throw")
      BY <2>4 DEF SaveThen, q
    <3> QED
      BY <2>2, <2>4, <3>2, <3>3, TidyStep, TidyGoto
  <2>5. ASSUME SaveStart(w) \/ SaveOutcome(w) PROVE TidyInv'
    BY <2>4, <2>5 DEF SaveStart, SaveOutcome, AfterSave, At
  <2>6. ASSUME CheckDomain(w) PROVE TidyInv'
    <3> DEFINE q == [r EXCEPT !.pc = "apply", !.phase = "unverified",
                                 !.results = ResultFor(Pending(r), "bounced")]
    <3>1. q.pc = "apply" /\ q.cur = r.cur /\ r.pc = "domain"
      BY <2>1, <2>6 DEF Run, CheckDomain, At
    <3> HIDE DEF q
    <3>2. Tidy(q)
      BY <2>2, <3>1 DEF Tidy
    <3>3. Become(w, q) \/ Goto(w, "raw")
      BY <2>6 DEF CheckDomain, q
    <3> QED
      BY <2>2, <3>1, <3>2, <3>3, TidyStep, TidyGoto
  <2>7. ASSUME LoadRaw(w) PROVE TidyInv'
    BY <2>2, <2>7, TidyGoto DEF LoadRaw, At
  <2>8. ASSUME ReadSuppressions(w) PROVE TidyInv'
    <3> DEFINE q == [r EXCEPT !.pc = "apply", !.phase = "send",
                           !.results = ResultFor(Suppressed(r), "bounced"),
                           !.todo = Pending(r) \ Suppressed(r)]
    <3>1. q.pc = "apply" /\ q.cur = r.cur /\ r.pc = "suppressions" /\ Become(w, q)
      BY <2>1, <2>8 DEF Run, ReadSuppressions, At
    <3> HIDE DEF q
    <3> QED
      BY <2>2, <3>1, TidyStep DEF Tidy
  <2>9. ASSUME NEW a \in Addresses, ApplyResult(w, a) PROVE TidyInv'
    <3> DEFINE q == [r EXCEPT
          !.pc = AfterApply(r, r.results[a]),
          !.cur = a,
          !.results = [@ EXCEPT ![a] = "none"],
          !.to = [@ EXCEPT ![a] = r.results[a]],
          !.dirty = IF r.to[a] = r.results[a] THEN @ ELSE @ \cup {a}]
    <3>1. q.pc = AfterApply(r, r.results[a]) /\ Become(w, q)
      BY <2>1, <2>9 DEF Run, ApplyResult
    <3> HIDE DEF q
    <3>2. q.pc \in {"suppress", "notify", "record"}
      BY <3>1 DEF AfterApply
    <3> QED
      BY <3>1, <3>2, TidyStep DEF Tidy
  <2>10. ASSUME NEW a \in Addresses, FailDeferred(w, a) PROVE TidyInv'
    <3> DEFINE q == [r EXCEPT !.pc = "record", !.cur = a,
                           !.results = [@ EXCEPT ![a] = "none"],
                           !.to = [@ EXCEPT ![a] = "failed"],
                           !.dirty = @ \cup {a}]
    <3>1. q.pc = "record" /\ Become(w, q)
      BY <2>1, <2>10 DEF Run, FailDeferred
    <3> HIDE DEF q
    <3> QED
      BY <3>1, TidyStep DEF Tidy
  <2>11. ASSUME Suppress(w) \/ NotifySender(w) PROVE TidyInv'
    BY <2>11, TidyGoto DEF Suppress, NotifySender
  <2>12. ASSUME RecordEvent(w) PROVE TidyInv'
    <3> DEFINE q == [r EXCEPT !.pc = "apply", !.cur = NoAddress]
    <3>1. q.pc = "apply" /\ q.cur = NoAddress /\ Become(w, q)
      BY <2>1, <2>12 DEF Run, RecordEvent
    <3> HIDE DEF q
    <3> QED
      BY <3>1, TidyStep DEF Tidy
  <2>13. ASSUME NEW d, NEW n, NextDomain(w, d, n) PROVE TidyInv'
    <3> DEFINE group == {a \in r.todo : DomainOf[a] = d}
               q == [r EXCEPT
          !.pc = IF n = 0 THEN "apply" ELSE "deliver",
          !.suppress = TRUE,
          !.todo = StillToTry(r, group),
          !.group = IF n = 0 THEN {} ELSE group,
          !.results = IF n = 0 THEN ResultFor(group, WithoutTarget) ELSE @,
          !.targets = n]
    <3>1. q.pc \in {"apply", "deliver"} /\ q.cur = r.cur /\ Become(w, q) /\ r.pc = "apply"
      BY <2>1, <2>13 DEF Run, NextDomain, At
    <3> HIDE DEF q, group
    <3> QED
      BY <2>2, <3>1, TidyStep DEF Tidy
  <2>14. ASSUME NEW results, Become(w, Answered(r, results)), r.pc = "deliver" PROVE TidyInv'
    <3> DEFINE q == Answered(r, results)
    <3>1. q.pc = "apply" /\ q.cur = r.cur
      BY <2>1 DEF Run, Answered
    <3> HIDE DEF q
    <3> QED
      BY <2>2, <2>14, <3>1, TidyStep DEF Tidy, q
  <2>15. ASSUME NextTarget(w), r.pc = "deliver" PROVE TidyInv'
    <3> DEFINE q == [r EXCEPT !.targets = @ - 1]
    <3>1. q.pc = r.pc /\ q.cur = r.cur
      BY <2>1 DEF Run
    <3> HIDE DEF q
    <3>2. Tidy(q)
      BY <2>2, <2>15, <3>1 DEF Tidy
    <3>3. Become(w, q) \/ Become(w, Answered(r, ResultFor(r.group, AfterLastTarget)))
      BY <2>15 DEF NextTarget, q
    <3> QED
      BY <2>14, <2>15, <3>2, <3>3, TidyStep
  <2>16. ASSUME NEW phase, NEW s, Walked(w, phase), Become(w, [Settled(r) EXCEPT !.status = s]) PROVE TidyInv'
    <3> DEFINE q == [Settled(r) EXCEPT !.status = s]
    <3>1. q.cur = r.cur /\ q.results = r.results /\ r.pc = "apply" /\ Unapplied(r) = {}
      BY <2>1, <2>16 DEF Run, Settled, Walked, At
    <3> HIDE DEF q
    <3> QED
      BY <2>2, <2>16, <3>1, TidyStep DEF Tidy, Unapplied, q
  <2>17. ASSUME FailUnverified(w) \/ GiveUp(w) PROVE TidyInv'
    BY <2>16, <2>17 DEF FailUnverified, GiveUp
  <2>18. ASSUME FinalizeStatus(w) PROVE TidyInv'
    <3> DEFINE q == [r EXCEPT !.phase = "exhaust", !.results = ResultFor(StillDeferred(r), "failed")]
    <3>1. q.pc = r.pc /\ q.cur = r.cur /\ r.pc = "apply" /\ Walked(w, "send")
      BY <2>1, <2>18 DEF Run, FinalizeStatus, Walked, At
    <3> HIDE DEF q
    <3>2. Tidy(q)
      BY <2>2, <3>1 DEF Tidy
    <3>3. Become(w, q) \/ \E s : Become(w, [Settled(r) EXCEPT !.status = s])
      BY <2>18 DEF FinalizeStatus, q
    <3> QED
      BY <2>16, <3>1, <3>2, <3>3, TidyStep
  <2>19. ASSUME Become(w, Idle) PROVE TidyInv'
    BY <2>19, TidyStep DEF Tidy, Idle
  <2>20. ASSUME CallFails(w) PROVE TidyInv'
    BY <2>20, TidyGoto DEF CallFails
  <2>21. ASSUME MxReplyLost(w) \/ MxDefers(w) PROVE TidyInv'
    BY <2>15, <2>21 DEF MxReplyLost, MxDefers, At
  <2>22. ASSUME (\E rejected, perm : MxAccepts(w, rejected, perm)) \/ (\E perm : MxRefuses(w, perm)) PROVE TidyInv'
    BY <2>14, <2>22 DEF MxAccepts, MxRefuses, At
  <2>23. CASE \E m \in Messages : LoseLock(w, m)
    BY <2>23 DEF LoseLock, TidyInv
  <2> QED
    BY <1>1, <2>3, <2>5, <2>6, <2>7, <2>8, <2>9, <2>10, <2>11, <2>12, <2>13, <2>17, <2>18, <2>19, <2>20, <2>21, <2>22, <2>23
    DEF WorkerStep, FaultStep, Step, Mishap, CompleteJob, FailJob, Crash, Finish
<1>2. ASSUME NEW w \in Workers, NEW m \in Messages, TakeJob(w, m) PROVE TidyInv'
  <2> DEFINE q == [Idle EXCEPT !.pc = "load", !.msg = m, !.made = job[m].made, !.knew = suppression]
  <2>1. q.pc = "load" /\ q.cur = NoAddress /\ Become(w, q)
    BY <1>2 DEF TakeJob, Idle
  <2> HIDE DEF q
  <2> QED
    BY <2>1, TidyStep DEF Tidy
<1>3. CASE (\E m \in Messages : ReclaimStep(m)) \/ RetentionStep \/ (\E d \in SendingDomains : ChangeDomain(d)) \/ UNCHANGED vars
  BY <1>3 DEF ReclaimStep, ReclaimJob, RetentionStep, ChangeDomain, vars, processorVars, TidyInv
<1> QED
  BY <1>1, <1>2, <1>3 DEF Next, QueueStep
-----------------------------------------------------------------------------
(* A copy that no fault accounts for, of a message stored as open for its   *)
(* recipient, is known to the slot that sent it, which has still to save.   *)
Claims(w, m, a) == /\ run[w].msg = m /\ run[w].pc \in Walking \cup {"save"}
                   /\ Says(run[w], a)

CopyInv ==
    \A m \in Messages, a \in Addresses :
        /\ inbox[m][a] <= 1 + FaultCount
        /\ message[m].to[a] \in NonTerminal /\ inbox[m][a] > FaultCount => \E w \in Workers : Claims(w, m, a)

LEMMA FaultsCounted ==
    ASSUME TypeInv, [Next]_vars
    PROVE  /\ FaultCount \in Nat /\ FaultCount' \in Nat /\ FaultCount <= FaultCount'
           /\ \A k \in FaultKinds : Fault(k) => FaultCount' = FaultCount + 1
           /\ UNCHANGED faults => FaultCount' = FaultCount
<1>1. /\ faults \in [FaultKinds -> Nat] /\ faults' \in [FaultKinds -> Nat]
      /\ \A k \in FaultKinds : faults[k] <= faults'[k]
  BY FaultsUp
<1>2. FaultKinds = {"crash", "error", "stall", "lost"}
  BY ProcessorAssumption
<1>3. \A k \in FaultKinds : Fault(k) => FaultCount' = FaultCount + 1
  BY <1>1, <1>2 DEF Fault, FaultCount
<1> QED
  BY <1>1, <1>2, <1>3 DEF FaultCount

LEMMA CopyOfFault ==
    ASSUME TypeInv, CopyInv, [Next]_vars, UNCHANGED inbox, NEW k \in FaultKinds, Fault(k)
    PROVE  CopyInv'
<1>1. FaultCount \in Nat /\ FaultCount' = FaultCount + 1 /\ \A m \in Messages, a \in Addresses : inbox[m][a] \in Nat
  BY FaultsCounted, TypeInvParts DEF DataOK
<1> QED
  BY <1>1 DEF CopyInv

LEMMA CopyStays ==
    ASSUME TypeInv, CopyInv, [Next]_vars, UNCHANGED inbox,
           \A m \in Messages, a \in Addresses :
              message'[m].to[a] \in NonTerminal =>
                 /\ message[m].to[a] \in NonTerminal
                 /\ \A w \in Workers : Claims(w, m, a) => Claims(w, m, a)'
    PROVE  CopyInv'
<1>1. FaultCount \in Nat /\ FaultCount' \in Nat /\ FaultCount <= FaultCount' /\ \A m \in Messages, a \in Addresses : inbox[m][a] \in Nat
  BY FaultsCounted, TypeInvParts DEF DataOK
<1> SUFFICES ASSUME NEW m \in Messages, NEW a \in Addresses
             PROVE  /\ inbox'[m][a] <= 1 + FaultCount'
                    /\ message'[m].to[a] \in NonTerminal /\ inbox'[m][a] > FaultCount'
                         => \E w \in Workers : Claims(w, m, a)'
  BY DEF CopyInv
<1>2. inbox[m][a] <= 1 + FaultCount /\ inbox'[m][a] = inbox[m][a]
  BY DEF CopyInv
<1>3. ASSUME message'[m].to[a] \in NonTerminal, inbox'[m][a] > FaultCount' PROVE \E w \in Workers : Claims(w, m, a)'
  <2>1. message[m].to[a] \in NonTerminal /\ inbox[m][a] > FaultCount
    BY <1>1, <1>2, <1>3
  <2>2. PICK w \in Workers : Claims(w, m, a)
    BY <2>1 DEF CopyInv
  <2> QED
    BY <1>3, <2>2
<1> QED
  BY <1>1, <1>2, <1>3

(* What a slot says of a recipient stored as open, it has found out itself. *)
LEMMA SaidWalking ==
    ASSUME NEW r \in Run, NEW doc, SlotWalk(r, doc), r.pc \in Loaded, NEW a \in Addresses, Says(r, a),
           doc.to[a] \in NonTerminal
    PROVE  r.pc \in Walking \cup {"save"}
<1>1. SUFFICES ASSUME r.pc \in Early PROVE FALSE
  BY DEF Loaded, Walking, Early
<1>2. r.results[a] = "none" /\ a \notin r.dirty
  BY <1>1 DEF SlotWalk, Begun, Unapplied
<1>3. r.to[a] = doc.to[a]
  BY <1>2 DEF SlotWalk, InStep
<1> QED
  BY <1>2, <1>3 DEF Says, NonTerminal

LEMMA PondersClaims ==
    ASSUME TypeInv, TypeInv', DeliveryInv, NEW w \in Workers, Ponders(w), SlotWalk(run'[w], message[run[w].msg]),
           NEW v \in Workers, NEW m \in Messages, NEW a \in Addresses, message[m].to[a] \in NonTerminal, Claims(v, m, a)
    PROVE  Claims(v, m, a)'
<1>1. CASE v # w
  BY <1>1 DEF Ponders, Moves, Claims
<1>2. CASE v = w
  <2>1. run'[w].msg = m /\ run'[w].pc \in Loaded /\ run[w].msg = m
    BY <1>2 DEF Ponders, Moves, Claims
  <2>2. Says(run'[w], a)
    BY <1>2 DEF Claims, Says, Ponders
  <2>3. run'[w] \in Run
    BY TypeInvParts DEF TypeInv, TypeOK, ProcessorTypeOK
  <2> QED
    BY <1>2, <2>1, <2>2, <2>3, SaidWalking DEF Claims
<1> QED
  BY <1>1, <1>2

(* The recipients a slot contacts have no copy that is not accounted for.   *)
LEMMA GroupUnclaimed ==
    ASSUME TypeInv, DeliveryInv, CopyInv, NEW w \in Workers, run[w].pc = "deliver",
           NEW m \in Messages, m = run[w].msg, NEW a \in run[w].group
    PROVE  a \in Addresses /\ inbox[m][a] <= FaultCount
<1>1. run[w] \in Run /\ SlotWalk(run[w], message[m]) /\ HoldInv
  BY SlotFacts DEF DeliveryInv
<1>2. a \in Addresses /\ run[w].to[a] \in NonTerminal /\ run[w].results[a] = "none"
  BY <1>1 DEF SlotWalk, Walk, Walking, Run
<1>3. message[m].to[a] \in NonTerminal
  BY <1>1, <1>2 DEF SlotWalk, InStep, Loaded, Walking
<1>4. ASSUME NEW v \in Workers PROVE ~Claims(v, m, a)
  <2>1. CASE v = w
    BY <1>2, <2>1 DEF Claims, Says, NonTerminal
  <2>2. CASE v # w
    <3>1. run[v].pc # "idle" => run[v].msg # run[w].msg
      BY <1>1, <2>2, OneSlot
    <3> QED
      BY <3>1 DEF Claims, Walking
  <2> QED
    BY <2>1, <2>2
<1>5. ~(inbox[m][a] > FaultCount)
  BY <1>2, <1>3, <1>4 DEF CopyInv
<1>6. inbox[m][a] \in Nat /\ FaultCount \in Nat
  BY <1>2, TypeInvParts, ProcessorAssumption DEF DataOK, FaultCount
<1> QED
  BY <1>2, <1>5, <1>6

LEMMA ReceiveCopies ==
    ASSUME TypeInv, TypeInv', DeliveryInv, CopyInv, [Next]_vars, NEW w \in Workers, NEW A \in SUBSET run[w].group,
           run[w].pc = "deliver", Receive(run[w].msg, A), Ponders(w), SlotWalk(run'[w], message[run[w].msg]),
           \/ \A a \in A : run'[w].results[a] = "delivered"
           \/ FaultCount' = FaultCount + 1
    PROVE  CopyInv'
<1>1. PICK k \in Messages : k = run[w].msg
  BY BusyFresh DEF DeliveryInv
<1>2. /\ FaultCount \in Nat /\ FaultCount' \in Nat /\ FaultCount <= FaultCount'
      /\ inbox \in [Messages -> [Addresses -> Nat]] /\ message' = message /\ run'[w] \in Run
  BY FaultsCounted, TypeInvParts DEF DataOK, Ponders, TypeInv, TypeOK, ProcessorTypeOK
<1> SUFFICES ASSUME NEW m \in Messages, NEW a \in Addresses
             PROVE  /\ inbox'[m][a] <= 1 + FaultCount'
                    /\ message[m].to[a] \in NonTerminal /\ inbox'[m][a] > FaultCount'
                         => \E v \in Workers : Claims(v, m, a)'
  BY <1>2 DEF CopyInv
<1>3. CASE m = k /\ a \in A
  <2>1. inbox[m][a] <= FaultCount
    BY <1>1, <1>3, GroupUnclaimed
  <2>2. inbox'[m][a] = inbox[m][a] + 1
    BY <1>1, <1>2, <1>3 DEF Receive
  <2>3. CASE FaultCount' = FaultCount + 1
    BY <1>2, <2>1, <2>2, <2>3
  <2>4. CASE run'[w].results[a] = "delivered"
    <3>1. run'[w].pc \in Loaded /\ run'[w].msg = m /\ Says(run'[w], a)
      BY <1>1, <1>3, <2>4 DEF Ponders, Moves, Says
    <3>2. message[m].to[a] \in NonTerminal => Claims(w, m, a)'
      BY <1>1, <1>2, <1>3, <3>1, SaidWalking DEF Claims
    <3> QED
      BY <1>2, <2>1, <2>2, <3>2
  <2> QED
    BY <1>3, <2>3, <2>4
<1>4. CASE ~(m = k /\ a \in A)
  <2>1. inbox'[m][a] = inbox[m][a]
    BY <1>1, <1>2, <1>4 DEF Receive
  <2>2. inbox[m][a] <= 1 + FaultCount
        /\ (message[m].to[a] \in NonTerminal /\ inbox[m][a] > FaultCount => \E v \in Workers : Claims(v, m, a))
    BY DEF CopyInv
  <2>3. \A v \in Workers : message[m].to[a] \in NonTerminal /\ Claims(v, m, a) => Claims(v, m, a)'
    BY PondersClaims
  <2>4. inbox[m][a] \in Nat
    BY <1>2
  <2> QED
    BY <1>2, <2>1, <2>2, <2>3, <2>4
<1> QED
  BY <1>3, <1>4

LEMMA SlotCopies ==
    ASSUME TypeInv, TypeInv', TidyInv, DeliveryInv, CopyInv, Kept', [Next]_vars, NEW w \in Workers,
           WorkerStep(w) \/ FaultStep(w)
    PROVE  CopyInv'
<1>0. HoldInv /\ WalkInv /\ Others
  BY DEF DeliveryInv, WorkerStep, FaultStep
<1>1. ASSUME NEW rejected, NEW perm, MxAccepts(w, rejected, perm) PROVE CopyInv'
  <2>1. /\ Ponders(w) /\ SlotWalk(run'[w], message[run[w].msg])
        /\ \A a \in run[w].group \ rejected : run'[w].results[a] = "delivered"
    BY <1>0, <1>1, MxAcceptsWalk
  <2>2. run[w].pc = "deliver" /\ Receive(run[w].msg, run[w].group \ rejected)
    BY <1>1 DEF MxAccepts, At
  <2> QED
    BY <2>1, <2>2, ReceiveCopies
<1>2. CASE MxReplyLost(w)
  <2>1. Ponders(w) /\ SlotWalk(run'[w], message[run[w].msg])
    BY <1>0, <1>2, DeliverWalk
  <2>2. run[w].pc = "deliver" /\ Receive(run[w].msg, run[w].group) /\ FaultCount' = FaultCount + 1
    BY <1>2, FaultsCounted, ProcessorAssumption DEF MxReplyLost, At
  <2> QED
    BY <2>1, <2>2, ReceiveCopies
<1>3. UNCHANGED inbox \/ MxReplyLost(w) \/ \E rejected, perm : MxAccepts(w, rejected, perm)
  BY DEF WorkerStep, FaultStep, Step, Mishap, FindMessage, SaveStart, CheckDomain, LoadRaw, ReadSuppressions,
     ApplyResult, FailDeferred, Suppress, NotifySender, RecordEvent, NextDomain, MxRefuses,
     MxDefers, FailUnverified, FinalizeStatus, GiveUp, SaveOutcome, CompleteJob, FailJob, Finish, Crash, CallFails, LoseLock
<1>4. CASE UNCHANGED inbox /\ Ponders(w) /\ SlotWalk(run'[w], message[run[w].msg])
  BY <1>4, PondersClaims, CopyStays DEF Ponders
<1>5. ASSUME UNCHANGED inbox, NEW a \in Addresses, Applies(w, a) PROVE CopyInv'
  <2>1. UNCHANGED message /\ run[w] \in Run
    BY <1>5, TypeInvParts DEF Applies
  <2>2. ASSUME NEW m \in Messages, NEW b \in Addresses, message[m].to[b] \in NonTerminal,
               NEW v \in Workers, Claims(v, m, b)
        PROVE  Claims(v, m, b)'
    <3>1. CASE v # w
      BY <1>5, <2>2, <3>1 DEF Applies, Moves, Claims
    <3>2. CASE v = w
      <4>1. run'[w].msg = m /\ run'[w].pc \in Walking
        BY <1>5, <2>2, <3>2 DEF Applies, Moves, Claims, Walking
      <4>2. Says(run'[w], b)
        BY <1>5, <2>1, <2>2, <3>2 DEF Applies, Claims, Says, Run, NonTerminal
      <4> QED
        BY <3>2, <4>1, <4>2 DEF Claims
    <3> QED
      BY <3>1, <3>2
  <2> QED
    BY <1>5, <2>1, <2>2, CopyStays
<1>6. CASE FindMessage(w)
  <2>1. Moves(w) /\ UNCHANGED <<message, inbox>> /\ run[w].pc = "load"
    BY <1>0, <1>6, FindMessageWalk DEF FindMessage, storeVars, At
  <2>2. \A v \in Workers, m \in Messages, a \in Addresses : Claims(v, m, a) => Claims(v, m, a)'
    BY <2>1 DEF Moves, Claims, Walking
  <2> QED
    BY <2>1, <2>2, CopyStays
<1>7. CASE SaveStart(w) \/ SaveOutcome(w)
  <2>1. PICK k \in Messages : k = run[w].msg
    BY <1>7, BusyFresh DEF DeliveryInv, SaveStart, SaveOutcome, At
  <2>2. /\ \A m \in Messages : m # k => message'[m] = message[m]
        /\ \A a \in Addresses : message'[k].to[a] = run[w].to[a]
        /\ \A a \in Addresses : message[k].to[a] \notin NonTerminal => message'[k].to[a] = message[k].to[a]
    BY <1>0, <1>7, <2>1, SavedDoc
  <2>3. UNCHANGED inbox /\ run[w].pc \in {"start", "save"} /\ UNCHANGED <<raw, job>>
    BY <1>7 DEF SaveStart, SaveOutcome, At
  <2>4. \E pc : pc # "idle" /\ SaveThen(w, pc)
    BY <1>7 DEF SaveStart, SaveOutcome, AfterSave
  <2>5. Moves(w)
    BY <1>0, <2>3, <2>4, SaveThenMoves
  <2>6. ASSUME NEW m \in Messages, NEW a \in Addresses, message'[m].to[a] \in NonTerminal
        PROVE  /\ message[m].to[a] \in NonTerminal
               /\ \A v \in Workers : Claims(v, m, a) => Claims(v, m, a)'
    <3>1. message[m].to[a] \in NonTerminal
      BY <2>2, <2>6
    <3>2. ASSUME NEW v \in Workers, Claims(v, m, a) PROVE Claims(v, m, a)'
      <4>1. CASE v # w
        BY <2>5, <3>2, <4>1 DEF Moves, Claims
      <4>2. CASE v = w
        <5>1. m = k /\ run[w].pc = "save" /\ run[w].to[a] \in NonTerminal
          BY <2>1, <2>2, <2>3, <2>6, <3>2, <4>2 DEF Claims, Walking
        <5>2. run[w].results[a] = "none"
          BY <5>1 DEF TidyInv, Tidy, Unapplied
        <5> QED
          BY <3>2, <4>2, <5>1, <5>2 DEF Claims, Says, NonTerminal
      <4> QED
        BY <4>1, <4>2
    <3> QED
      BY <3>1, <3>2
  <2> QED
    BY <2>3, <2>6, CopyStays
<1>8. CASE CallFails(w) \/ Crash(w)
  <2>1. UNCHANGED inbox /\ (Fault("error") \/ Fault("crash"))
    BY <1>8 DEF CallFails, Crash
  <2> QED
    BY <2>1, CopyOfFault, ProcessorAssumption
<1>9. CASE CompleteJob(w) \/ FailJob(w)
  <2>1. LetsGo(w) /\ run[w].pc \in {"ack", "throw"}
    BY <1>0, <1>9, FinishLetsGo DEF CompleteJob, FailJob, At
  <2>2. \A v \in Workers, m \in Messages, a \in Addresses : Claims(v, m, a) => Claims(v, m, a)'
    BY <2>1 DEF LetsGo, Claims, Walking
  <2> QED
    BY <2>1, <2>2, CopyStays DEF LetsGo
<1> QED
  BY <1>0, <1>1, <1>2, <1>3, <1>4, <1>5, <1>6, <1>7, <1>8, <1>9, SlotSteps

LEMMA NextCopies ==
    ASSUME InTime, TypeInv, TypeInv', TidyInv, DeliveryInv, CopyInv, Kept', [Next]_vars
    PROVE  CopyInv'
<1>0. HoldInv /\ WalkInv /\ SweepInv
  BY DEF DeliveryInv
<1>1. ASSUME NEW w \in Workers, NEW m \in Messages, TakeJob(w, m), Others PROVE CopyInv'
  <2>1. /\ \A v \in Workers \ {w} : run'[v] = run[v]
        /\ run[w].pc = "idle" /\ UNCHANGED <<message, inbox>>
    BY <1>0, <1>1, TakeJobInv DEF TakeJob, At
  <2>2. \A v \in Workers, k \in Messages, a \in Addresses : Claims(v, k, a) => Claims(v, k, a)'
    BY <2>1 DEF Claims, Walking
  <2> QED
    BY <2>1, <2>2, CopyStays
<1>2. CASE (\E m \in Messages : ReclaimStep(m)) \/ (\E d \in SendingDomains : ChangeDomain(d)) \/ UNCHANGED vars
  <2>1. UNCHANGED <<message, run, inbox>>
    BY <1>2 DEF ReclaimStep, ReclaimJob, ChangeDomain, vars, storeVars, processorVars
  <2>2. \A v \in Workers, k \in Messages, a \in Addresses : Claims(v, k, a) => Claims(v, k, a)'
    BY <2>1 DEF Claims
  <2> QED
    BY <2>1, <2>2, CopyStays
<1>3. CASE RetentionStep
  <2>1. UNCHANGED <<run, inbox>> /\ \A m \in Messages : message'[m].to = message[m].to
    BY <1>0, <1>3, RetentionDocs DEF RetentionStep, processorVars
  <2>2. \A v \in Workers, k \in Messages, a \in Addresses : Claims(v, k, a) => Claims(v, k, a)'
    BY <2>1 DEF Claims
  <2> QED
    BY <2>1, <2>2, CopyStays
<1> QED
  BY <1>1, <1>2, <1>3, SlotCopies DEF Next, QueueStep

LEMMA InitCopies == Init => TidyInv /\ CopyInv
<1> SUFFICES ASSUME Init PROVE TidyInv /\ CopyInv
  OBVIOUS
<1>1. /\ \A w \in Workers : run[w] = Idle
      /\ \A m \in Messages, a \in Addresses : inbox[m][a] = 0
      /\ \A k \in FaultKinds : faults[k] = 0
  BY DEF Init, ProcessorInit
<1>2. FaultCount = 0
  BY <1>1, ProcessorAssumption DEF FaultCount
<1> QED
  BY <1>1, <1>2 DEF TidyInv, Tidy, Idle, CopyInv

LEMMA AlwaysTidy == Spec => []TidyInv
<1>1. Init => TidyInv
  BY InitCopies
<1> QED
  BY <1>1, AlwaysTyped, NextTidy, PTL DEF Spec

LEMMA AlwaysCopies == ASSUME InTime PROVE Spec => [](Kept => CopyInv)
<1>1. Init => (Kept => CopyInv)
  BY InitCopies
<1>2. TypeInv /\ TypeInv' /\ TidyInv /\ (Kept => DeliveryInv) /\ (Kept => CopyInv) /\ [Next]_vars => (Kept => CopyInv)'
  BY KeptBack, NextCopies
<1> QED
  BY <1>1, <1>2, AlwaysTyped, AlwaysTidy, AlwaysInv, PTL DEF Spec

(* Each extra copy of a message is paid for by a fault: without crashes,    *)
(* failed calls and lost replies a recipient gets at most one copy over all *)
(* attempts (processor.ts:141, the pending filter).                         *)
THEOREM CopiesArePaidFor == ASSUME InTime PROVE Spec => [](Kept => CopiesBounded)
<1>1. (Kept => CopyInv) => (Kept => CopiesBounded)
  BY DEF CopyInv, CopiesBounded
<1> QED
  BY <1>1, AlwaysCopies, PTL
-----------------------------------------------------------------------------
(* A slot has recorded an event for every outcome it knows of, but the one  *)
(* it is at.                                                                *)
EventsInv ==
    /\ sweep.pc \notin {"records", "events", "purge"}
    /\ OutcomesHaveEvents
    /\ \A w \in Workers, a \in Addresses :
          run[w].pc \in Loaded /\ run[w].to[a] \in Terminal /\ run[w].cur # a =>
             <<run[w].msg, run[w].to[a], a>> \in events

(* Slot v still knows of no outcome without an event.                       *)
EventsKnown(v) ==
    \A a \in Addresses :
       run[v].pc \in Loaded /\ run[v].to[a] \in Terminal /\ run[v].cur # a =>
          <<run[v].msg, run[v].to[a], a>> \in events

LEMMA EventsStay ==
    ASSUME EventsInv, UNCHANGED sweep, events \subseteq events', NEW w \in Workers, EventsKnown(w)',
           \A v \in Workers : v # w => run'[v] = run[v],
           \A m \in Messages, a \in Addresses :
              /\ message'[m].exists => message[m].exists
              /\ message'[m].to[a] \in Terminal => message'[m].to[a] = message[m].to[a]
    PROVE  EventsInv'
<1>1. OutcomesHaveEvents'
  BY DEF EventsInv, OutcomesHaveEvents
<1>2. ASSUME NEW v \in Workers PROVE EventsKnown(v)'
  BY DEF EventsInv, EventsKnown
<1> QED
  BY <1>1, <1>2 DEF EventsInv, EventsKnown

LEMMA SlotEvents ==
    ASSUME TypeInv, TypeInv', TidyInv, DeliveryInv, EventsInv, Kept', NEW w \in Workers,
           WorkerStep(w) \/ FaultStep(w)
    PROVE  EventsInv'
<1>0. /\ HoldInv /\ WalkInv /\ Others /\ UNCHANGED sweep
      /\ run[w].pc # "idle" => run[w] \in Run /\ run[w].msg \in Messages
  BY BusyFresh DEF DeliveryInv, WorkerStep, FaultStep, Others, retentionVars
<1>1. CASE Ponders(w)
  <2>1. /\ run'[w].msg = run[w].msg /\ run'[w].to = run[w].to /\ run[w].pc \in Loaded
        /\ run'[w].cur = run[w].cur
           \/ (run'[w].cur = NoAddress /\ <<run[w].msg, run[w].to[run[w].cur], run[w].cur>> \in events')
        /\ events \subseteq events' /\ UNCHANGED message
        /\ \A v \in Workers : v # w => run'[v] = run[v]
    BY <1>1 DEF Ponders, Moves
  <2>2. ASSUME NEW a \in Addresses, run'[w].to[a] \in Terminal, run'[w].cur # a
        PROVE  <<run'[w].msg, run'[w].to[a], a>> \in events'
    <3>1. CASE run[w].cur # a
      BY <2>1, <2>2, <3>1 DEF EventsInv
    <3>2. CASE run[w].cur = a
      BY <2>1, <2>2, <3>2
    <3> QED
      BY <3>1, <3>2
  <2>3. EventsKnown(w)'
    BY <2>2 DEF EventsKnown
  <2> QED
    BY <1>0, <2>1, <2>3, EventsStay
<1>2. ASSUME NEW a \in Addresses, Applies(w, a) PROVE EventsInv'
  <2>1. /\ run'[w].msg = run[w].msg /\ run[w].pc = "apply" /\ run'[w].cur = a
        /\ run'[w].to = [run[w].to EXCEPT ![a] = run[w].results[a]]
        /\ UNCHANGED <<message, events>> /\ \A v \in Workers : v # w => run'[v] = run[v]
    BY <1>2 DEF Applies, Moves
  <2>2. run[w].cur = NoAddress /\ run[w] \in Run
    BY <1>0, <2>1 DEF TidyInv, Tidy
  <2>3. \A b \in Addresses : b # a => run'[w].to[b] = run[w].to[b]
    BY <2>1, <2>2 DEF Run
  <2>4. EventsKnown(w)'
    BY <2>1, <2>2, <2>3, ProcessorAssumption DEF EventsKnown, EventsInv, Loaded, Walking
  <2> QED
    BY <1>0, <2>1, <2>4, EventsStay
<1>3. CASE FindMessage(w)
  <2>1. PICK m \in Messages : m = run[w].msg
    BY <1>0, <1>3 DEF FindMessage, At
  <2>2. Moves(w) /\ UNCHANGED <<message, events>>
    BY <1>0, <1>3, FindMessageWalk DEF FindMessage, storeVars
  <2>3. run'[w].pc \in Loaded => run'[w].to = message[m].to /\ run'[w].msg = m /\ message[m].exists
    <3> DEFINE q == [run[w] EXCEPT !.pc = "start", !.to = message[m].to, !.status = "sending",
                                   !.touched = message[m].status # "sending"]
    <3>1. run[w] \in Run /\ run \in [Workers -> Run]
      BY <1>0, <1>3, TypeInvParts DEF FindMessage, At
    <3>2. q.to = message[m].to /\ q.msg = m
      BY <2>1, <3>1 DEF Run
    <3> HIDE DEF q
    <3>3. CASE Become(w, q) /\ message[m].exists
      BY <3>1, <3>2, <3>3 DEF Become
    <3>4. CASE Goto(w, "ack")
      BY <3>1, <3>4 DEF Goto, Become, Run, Loaded, Walking
    <3> QED
      BY <1>3, <2>1, <3>3, <3>4 DEF FindMessage, Unfinished, q
  <2>4. EventsKnown(w)'
    BY <2>1, <2>2, <2>3 DEF EventsKnown, EventsInv, OutcomesHaveEvents
  <2> QED
    BY <1>0, <2>2, <2>4, EventsStay DEF Moves
<1>4. CASE SaveStart(w) \/ SaveOutcome(w)
  <2>1. /\ run[w].pc \in {"start", "save"} /\ UNCHANGED <<raw, job, events>>
        /\ \E pc : pc # "idle" /\ SaveThen(w, pc)
    BY <1>4 DEF SaveStart, SaveOutcome, AfterSave, At
  <2>2. PICK k \in Messages : k = run[w].msg
    BY <1>0, <2>1
  <2>3. /\ message[k].exists /\ \A m \in Messages : m # k => message'[m] = message[m]
        /\ \A a \in Addresses : message'[k].to[a] = run[w].to[a]
        /\ run[w].pc \in Loaded
    BY <1>0, <1>4, <2>2, SavedDoc
  <2>4. Moves(w) /\ run[w] \in Run /\ \E pc : run'[w] = [run[w] EXCEPT !.pc = pc, !.touched = FALSE, !.dirty = {}]
    BY <1>0, <2>1, SaveThenMoves
  <2>5. run'[w].to = run[w].to /\ run'[w].cur = run[w].cur /\ run'[w].msg = run[w].msg
    BY <2>4 DEF Run
  <2>6. run[w].cur = NoAddress
    BY <2>1 DEF TidyInv, Tidy
  <2>7. \A a \in Addresses : run[w].to[a] \in Terminal => <<k, run[w].to[a], a>> \in events
    BY <2>2, <2>3, <2>6, ProcessorAssumption DEF EventsInv
  <2>8. OutcomesHaveEvents'
    <3> SUFFICES ASSUME NEW m \in Messages, NEW a \in Addresses, message'[m].exists, message'[m].to[a] \in Terminal
                 PROVE  <<m, message'[m].to[a], a>> \in events
      BY <2>1 DEF OutcomesHaveEvents
    <3>1. CASE m = k
      BY <2>3, <2>7, <3>1
    <3>2. CASE m # k
      BY <2>3, <3>2 DEF EventsInv, OutcomesHaveEvents
    <3> QED
      BY <3>1, <3>2
  <2>9. ASSUME NEW v \in Workers PROVE EventsKnown(v)'
    <3>1. CASE v = w
      BY <2>1, <2>2, <2>5, <2>7, <3>1 DEF EventsKnown
    <3>2. CASE v # w
      BY <2>1, <2>4, <3>2 DEF EventsKnown, EventsInv, Moves
    <3> QED
      BY <3>1, <3>2
  <2> QED
    BY <1>0, <2>8, <2>9 DEF EventsInv, EventsKnown
<1>5. CASE CallFails(w)
  <2>1. Moves(w) /\ UNCHANGED <<message, events>>
    BY <1>0, <1>5, CallFailsWalk DEF CallFails, storeVars
  <2>2. run'[w].pc = "throw"
    BY <1>0, <1>5, TypeInvParts DEF CallFails, Goto, Become, Run, At
  <2>3. EventsKnown(w)'
    BY <2>2 DEF EventsKnown, Loaded, Walking
  <2> QED
    BY <1>0, <2>1, <2>3, EventsStay DEF Moves
<1>6. CASE CompleteJob(w) \/ FailJob(w) \/ Crash(w)
  <2>1. LetsGo(w)
    BY <1>0, <1>6, FinishLetsGo
  <2>2. EventsKnown(w)'
    BY <2>1 DEF EventsKnown, Loaded, Walking, LetsGo
  <2> QED
    BY <1>0, <2>1, <2>2, EventsStay DEF LetsGo
<1> QED
  BY <1>0, <1>1, <1>2, <1>3, <1>4, <1>5, <1>6, SlotSteps

LEMMA NextEvents ==
    ASSUME InTime, MaxAge < 2, TypeInv, TypeInv', TidyInv, DeliveryInv, EventsInv, Kept', [Next]_vars
    PROVE  EventsInv'
<1>0. HoldInv /\ WalkInv /\ SweepInv
  BY DEF DeliveryInv
<1>1. ASSUME NEW w \in Workers, NEW m \in Messages, TakeJob(w, m), Others PROVE EventsInv'
  <2>1. /\ \A v \in Workers \ {w} : run'[v] = run[v]
        /\ run'[w].pc = "load" /\ UNCHANGED <<message, events, sweep>>
    BY <1>0, <1>1, TakeJobInv DEF TakeJob, Others, retentionVars
  <2>2. EventsKnown(w)'
    BY <2>1 DEF EventsKnown, Loaded, Walking
  <2> QED
    BY <2>1, <2>2, EventsStay
<1>2. CASE (\E m \in Messages : ReclaimStep(m)) \/ (\E d \in SendingDomains : ChangeDomain(d)) \/ UNCHANGED vars
  <2>1. UNCHANGED <<message, run, events, sweep>>
    BY <1>2 DEF ReclaimStep, ReclaimJob, ChangeDomain, Others, retentionVars, vars, storeVars, processorVars
  <2> QED
    BY <2>1 DEF EventsInv, OutcomesHaveEvents
<1>3. CASE RetentionStep
  <2>1. /\ UNCHANGED run
        /\ \A m \in Messages : message'[m].to = message[m].to /\ (message'[m].exists => message[m].exists)
    BY <1>0, <1>3, RetentionDocs DEF RetentionStep, processorVars
  <2>2. Outdated = {}
    <3>1. MaxAge \in Nat /\ age \in [Messages -> 0 .. MaxAge]
      BY RetentionAssumption DEF TypeInv, TypeOK, RetentionTypeOK
    <3> QED
      BY <3>1 DEF Outdated
  <2>3. /\ UNCHANGED events
        /\ sweep'.pc \notin {"records", "events", "purge"}
    <3>1. sweep \in Sweep /\ sweep.pc \notin {"records", "events", "purge"}
      BY DEF EventsInv, TypeInv, TypeOK, RetentionTypeOK
    <3>2. CASE FindContent \/ MarkDeleted \/ AbortSweep \/ \E m \in Messages : GrowOld(m) \/ DeleteRaw(m)
      <4>1. UNCHANGED events
        BY <3>2 DEF FindContent, MarkDeleted, AbortSweep, GrowOld, DeleteRaw, storeVars
      <4>2. CASE FindContent
        BY <4>1, <4>2 DEF FindContent, AtRest
      <4>3. CASE MarkDeleted
        BY <3>1, <4>1, <4>3 DEF MarkDeleted, AtRest, Sweep
      <4>4. CASE AbortSweep
        BY <4>1, <4>4 DEF AbortSweep, AtRest
      <4>5. ASSUME NEW m \in Messages, GrowOld(m) \/ DeleteRaw(m) PROVE sweep'.pc \notin {"records", "events", "purge"}
        BY <3>1, <4>5 DEF GrowOld, DeleteRaw, Sweep
      <4> QED
        BY <3>2, <4>1, <4>2, <4>3, <4>4, <4>5
    <3>3. ~FindRecords /\ ~DeleteLeftovers /\ ~DeleteEvents /\ ~DeleteMessages
      BY <2>2, <3>1 DEF FindRecords, DeleteLeftovers, DeleteEvents, DeleteMessages
    <3> QED
      BY <1>3, <3>2, <3>3 DEF RetentionStep, RetentionNext, SweepStep
  <2> QED
    BY <2>1, <2>3 DEF EventsInv, OutcomesHaveEvents
<1> QED
  BY <1>1, <1>2, <1>3, SlotEvents DEF Next, QueueStep
-----------------------------------------------------------------------------
(* The recipients known to have the outcome s: from the document, or to the *)
(* slot that works on it.                                                   *)
Knows(w, m, a, s) == run[w].pc \in Loaded /\ run[w].msg = m /\ run[w].to[a] = s
IsKnown(m, a, s) == message[m].to[a] = s \/ \E w \in Workers : Knows(w, m, a, s)
Known(s) == {p \in Messages \X Addresses : IsKnown(p[1], p[2], s)}

UsageInv ==
    \A s \in Terminal :
        /\ Cardinality(Known(s)) <= usage[s]
        /\ FaultCount = 0 => usage[s] = Cardinality(Known(s))

LEMMA KnownFinite ==
    ASSUME IsFiniteSet(Messages), IsFiniteSet(Addresses), NEW S \in SUBSET (Messages \X Addresses)
    PROVE  IsFiniteSet(S) /\ Cardinality(S) \in Nat
<1>1. IsFiniteSet(Messages \X Addresses)
  BY FS_Product
<1> QED
  BY <1>1, FS_Subset, FS_CardinalityType

LEMMA UsageStays ==
    ASSUME IsFiniteSet(Messages), IsFiniteSet(Addresses), TypeInv, UsageInv, [Next]_vars, UNCHANGED usage,
           \A m \in Messages, a \in Addresses, s \in Terminal :
              /\ IsKnown(m, a, s)' => IsKnown(m, a, s)
              /\ UNCHANGED faults => (IsKnown(m, a, s) => IsKnown(m, a, s)')
    PROVE  UsageInv'
<1>1. /\ FaultCount \in Nat /\ FaultCount' \in Nat /\ FaultCount <= FaultCount'
      /\ \A k \in FaultKinds : Fault(k) => FaultCount' = FaultCount + 1
  BY FaultsCounted
<1>2. FaultCount' = 0 => UNCHANGED faults
  BY <1>1, FaultsGrow
<1> SUFFICES ASSUME NEW s \in Terminal
             PROVE  /\ Cardinality(Known(s)') <= usage[s]
                    /\ FaultCount' = 0 => usage[s] = Cardinality(Known(s)')
  BY DEF UsageInv
<1> DEFINE K == Known(s)
           L == Known(s)'
<1>3. K \in SUBSET (Messages \X Addresses) /\ L \in SUBSET (Messages \X Addresses) /\ L \subseteq K
  BY DEF Known
<1>4. FaultCount' = 0 => L = K
  BY <1>2 DEF Known
<1>5. usage[s] \in Nat /\ Cardinality(K) <= usage[s] /\ (FaultCount = 0 => usage[s] = Cardinality(K))
  BY TypeInvParts DEF UsageInv, DataOK
<1> HIDE DEF K, L
<1>6. Cardinality(K) \in Nat /\ Cardinality(L) \in Nat /\ Cardinality(L) <= Cardinality(K)
  BY <1>3, KnownFinite, FS_Subset
<1>7. Cardinality(L) <= usage[s] /\ (FaultCount' = 0 => usage[s] = Cardinality(L))
  BY <1>1, <1>4, <1>5, <1>6
<1> QED
  BY <1>7 DEF L

(* One more outcome is known, and counted.                                  *)
OneMore(k, b, o) ==
    /\ usage' = [usage EXCEPT ![o] = @ + 1]
    /\ ~IsKnown(k, b, o) /\ IsKnown(k, b, o)'
    /\ \A m \in Messages, a \in Addresses, s \in Terminal :
          ~(m = k /\ a = b /\ s = o) => (IsKnown(m, a, s)' <=> IsKnown(m, a, s))

LEMMA UsageCounts ==
    ASSUME IsFiniteSet(Messages), IsFiniteSet(Addresses), TypeInv, UsageInv, [Next]_vars,
           NEW k \in Messages, NEW b \in Addresses, NEW o \in Terminal, OneMore(k, b, o)
    PROVE  UsageInv'
<1>1. FaultCount \in Nat /\ FaultCount' \in Nat /\ FaultCount <= FaultCount'
  BY FaultsCounted
<1> SUFFICES ASSUME NEW s \in Terminal
             PROVE  /\ Cardinality(Known(s)') <= usage'[s]
                    /\ FaultCount' = 0 => usage'[s] = Cardinality(Known(s)')
  BY DEF UsageInv
<1> DEFINE K == Known(s)
           L == Known(s)'
           x == <<k, b>>
<1>2. K \in SUBSET (Messages \X Addresses) /\ L \in SUBSET (Messages \X Addresses)
  BY DEF Known
<1>3. /\ usage[s] \in Nat /\ Cardinality(K) <= usage[s] /\ (FaultCount = 0 => usage[s] = Cardinality(K))
      /\ usage'[s] = IF s = o THEN usage[s] + 1 ELSE usage[s]
  BY TypeInvParts DEF UsageInv, DataOK, OneMore
<1>4. CASE s # o
  <2>1. L = K
    BY <1>4 DEF Known, OneMore
  <2> HIDE DEF K, L
  <2>2. Cardinality(L) <= usage'[s] /\ (FaultCount' = 0 => usage'[s] = Cardinality(L))
    BY <1>1, <1>3, <1>4, <2>1
  <2> QED
    BY <2>2 DEF L
<1>5. CASE s = o
  <2>1. x \notin K /\ x \in Messages \X Addresses
    BY <1>5 DEF Known, OneMore
  <2>2. L = K \cup {x}
    <3>1. x \in L
      BY <1>5 DEF Known, OneMore
    <3>2. ASSUME NEW p \in Messages \X Addresses, p # x PROVE p \in L <=> p \in K
      <4>1. p[1] \in Messages /\ p[2] \in Addresses /\ ~(p[1] = k /\ p[2] = b)
        BY <3>2
      <4> QED
        BY <4>1 DEF Known, OneMore
    <3> HIDE DEF K, L, x
    <3> QED
      BY <1>2, <2>1, <3>1, <3>2
  <2> HIDE DEF K, L, x
  <2>3. Cardinality(L) = Cardinality(K) + 1 /\ Cardinality(K) \in Nat
    BY <1>2, <2>1, <2>2, KnownFinite, FS_AddElement
  <2>4. Cardinality(L) <= usage'[s] /\ (FaultCount' = 0 => usage'[s] = Cardinality(L))
    BY <1>1, <1>3, <1>5, <2>3
  <2> QED
    BY <2>4 DEF L
<1> QED
  BY <1>4, <1>5

LEMMA MovesKnown ==
    ASSUME NEW w \in Workers, \A v \in Workers : v # w => run'[v] = run[v],
           NEW m \in Messages, NEW a \in Addresses, NEW s,
           message'[m].to[a] = s \/ Knows(w, m, a, s)' <=> message[m].to[a] = s \/ Knows(w, m, a, s)
    PROVE  IsKnown(m, a, s)' <=> IsKnown(m, a, s)
<1>1. \A v \in Workers : v # w => (Knows(v, m, a, s)' <=> Knows(v, m, a, s))
  BY DEF Knows
<1> QED
  BY <1>1 DEF IsKnown

LEMMA SlotUsage ==
    ASSUME IsFiniteSet(Messages), IsFiniteSet(Addresses), TypeInv, DeliveryInv, UsageInv, Kept', [Next]_vars,
           NEW w \in Workers, WorkerStep(w) \/ FaultStep(w)
    PROVE  UsageInv'
<1>0. /\ HoldInv /\ WalkInv /\ Others
      /\ run[w].pc # "idle" => run[w] \in Run /\ run[w].msg \in Messages /\ SlotWalk(run[w], message[run[w].msg])
  BY SlotFacts DEF DeliveryInv, WorkerStep, FaultStep
<1>1. CASE Ponders(w)
  <2>1. \A m \in Messages, a \in Addresses, s \in Terminal : IsKnown(m, a, s)' <=> IsKnown(m, a, s)
    BY <1>1, MovesKnown DEF Ponders, Moves, Knows
  <2> QED
    BY <1>1, <2>1, UsageStays DEF Ponders
<1>2. ASSUME NEW a \in Addresses, Applies(w, a) PROVE UsageInv'
  <2>1. PICK k \in Messages : k = run[w].msg
    BY <1>0, <1>2 DEF Applies
  <2>10. PICK o \in Outcome : o = run[w].results[a]
    BY <1>0, <1>2 DEF Applies, Run
  <2>2. /\ run'[w].msg = k /\ run[w].pc = "apply" /\ run'[w].pc \in Loaded /\ run[w].to[a] \in NonTerminal /\ o # "none"
        /\ run'[w].to = [run[w].to EXCEPT ![a] = o]
        /\ usage' = (IF o # "deferred" THEN [usage EXCEPT ![o] = @ + 1] ELSE usage)
        /\ UNCHANGED message /\ \A v \in Workers : v # w => run'[v] = run[v]
    BY <1>2, <2>1, <2>10 DEF Applies, Moves, Loaded, Walking
  <2>3. run[w] \in Run /\ o \in Outcome /\ message[k].to[a] \in NonTerminal
    BY <1>0, <2>1, <2>2 DEF Run, SlotWalk, InStep, Loaded, Walking
  <2>4. run'[w].to[a] = o /\ \A b \in Addresses : b # a => run'[w].to[b] = run[w].to[b]
    BY <2>2, <2>3 DEF Run
  <2>5. \A v \in Workers, b \in Addresses, s \in Terminal : v # w => ~Knows(v, k, b, s) /\ ~Knows(v, k, b, s)'
    BY <1>0, <2>1, <2>2, OneSlot DEF Knows, Loaded, Walking
  <2>6. ASSUME NEW s \in Terminal
        PROVE  ~IsKnown(k, a, s) /\ (IsKnown(k, a, s)' <=> s = o)
    <3>1. ~Knows(w, k, a, s) /\ (Knows(w, k, a, s)' <=> s = o)
      BY <2>2, <2>4 DEF Knows, Terminal, NonTerminal
    <3>2. message[k].to[a] # s /\ message'[k].to[a] # s
      BY <2>2, <2>3 DEF Terminal, NonTerminal
    <3> QED
      BY <2>5, <3>1, <3>2 DEF IsKnown
  <2>7. ASSUME NEW m \in Messages, NEW b \in Addresses, NEW s \in Terminal, ~(m = k /\ b = a)
        PROVE  IsKnown(m, b, s)' <=> IsKnown(m, b, s)
    <3>1. Knows(w, m, b, s)' <=> Knows(w, m, b, s)
      BY <2>1, <2>2, <2>4, <2>7 DEF Knows, Loaded, Walking
    <3> QED
      BY <2>2, <3>1, MovesKnown
  <2>8. CASE o # "deferred"
    <3>1. o \in Terminal
      BY <2>2, <2>3, <2>8 DEF Outcome, Terminal
    <3>2. ~IsKnown(k, a, o) /\ IsKnown(k, a, o)'
      BY <2>6, <3>1
    <3>3. ASSUME NEW m \in Messages, NEW b \in Addresses, NEW s \in Terminal, ~(m = k /\ b = a /\ s = o)
          PROVE  IsKnown(m, b, s)' <=> IsKnown(m, b, s)
      <4>1. CASE m = k /\ b = a
        BY <2>6, <3>3, <4>1
      <4>2. CASE ~(m = k /\ b = a)
        BY <2>7, <4>2
      <4> QED
        BY <4>1, <4>2
    <3>4. OneMore(k, a, o)
      BY <2>2, <2>8, <3>2, <3>3 DEF OneMore
    <3> QED
      BY <3>1, <3>4, UsageCounts
  <2>9. CASE o = "deferred"
    <3>1. UNCHANGED usage /\ \A s \in Terminal : s # o
      BY <2>2, <2>9 DEF Terminal
    <3> QED
      BY <2>6, <2>7, <3>1, UsageStays
  <2> QED
    BY <2>8, <2>9
<1>3. CASE FindMessage(w)
  <2>1. PICK m \in Messages : m = run[w].msg
    BY <1>0, <1>3 DEF FindMessage, At
  <2>2. Moves(w) /\ UNCHANGED <<message, usage>> /\ WalkInv' /\ run[w].pc = "load"
    BY <1>0, <1>3, FindMessageWalk DEF FindMessage, storeVars, At
  <2>3. run'[w].pc \in Loaded => run'[w].to = message[m].to /\ run'[w].msg = m
    <3> DEFINE q == [run[w] EXCEPT !.pc = "start", !.to = message[m].to, !.status = "sending",
                                   !.touched = message[m].status # "sending"]
    <3>1. run[w] \in Run /\ run \in [Workers -> Run]
      BY <1>0, <2>2, TypeInvParts
    <3>2. q.to = message[m].to /\ q.msg = m
      BY <2>1, <3>1 DEF Run
    <3> HIDE DEF q
    <3>3. CASE Become(w, q)
      BY <3>1, <3>2, <3>3 DEF Become
    <3>4. CASE Goto(w, "ack")
      BY <3>1, <3>4 DEF Goto, Become, Run, Loaded, Walking
    <3> QED
      BY <1>3, <2>1, <3>3, <3>4 DEF FindMessage, q
  <2>4. \A k \in Messages, a \in Addresses, s \in Terminal : IsKnown(k, a, s)' <=> IsKnown(k, a, s)
    BY <2>1, <2>2, <2>3, MovesKnown DEF Knows, Moves, Loaded, Walking
  <2> QED
    BY <2>2, <2>4, UsageStays
<1>4. CASE SaveStart(w) \/ SaveOutcome(w)
  <2>1. /\ run[w].pc \in {"start", "save"} /\ UNCHANGED <<raw, job, usage>>
        /\ \E pc : pc # "idle" /\ SaveThen(w, pc)
    BY <1>4 DEF SaveStart, SaveOutcome, AfterSave, At
  <2>2. PICK k \in Messages : k = run[w].msg
    BY <1>0, <2>1
  <2>3. /\ \A m \in Messages : m # k => message'[m] = message[m]
        /\ \A a \in Addresses : message'[k].to[a] = run[w].to[a]
        /\ \A a \in Addresses : message[k].to[a] \notin NonTerminal => message'[k].to[a] = message[k].to[a]
        /\ run[w].pc \in Loaded
    BY <1>0, <1>4, <2>2, SavedDoc
  <2>4. Moves(w) /\ run[w] \in Run /\ \E pc : run'[w] = [run[w] EXCEPT !.pc = pc, !.touched = FALSE, !.dirty = {}]
    BY <1>0, <2>1, SaveThenMoves
  <2>5. run'[w].to = run[w].to /\ run'[w].msg = k
    BY <2>2, <2>4 DEF Run
  <2>6. ASSUME NEW m \in Messages, NEW a \in Addresses, NEW s \in Terminal
        PROVE  IsKnown(m, a, s)' <=> IsKnown(m, a, s)
    <3>1. message'[m].to[a] = s \/ Knows(w, m, a, s)' <=> message[m].to[a] = s \/ Knows(w, m, a, s)
      <4>1. CASE m # k
        BY <2>2, <2>3, <2>5, <4>1 DEF Knows
      <4>2. CASE m = k
        <5>1. message[k].to[a] = s => run[w].to[a] = s
          BY <2>3 DEF Terminal, NonTerminal
        <5> QED
          BY <2>2, <2>3, <2>5, <4>2, <5>1 DEF Knows
      <4> QED
        BY <4>1, <4>2
    <3> QED
      BY <2>4, <3>1, MovesKnown DEF Moves
  <2> QED
    BY <2>1, <2>6, UsageStays
<1>5. CASE CallFails(w) \/ Crash(w)
  <2>1. UNCHANGED <<message, usage>> /\ faults' # faults
    BY <1>5, FaultsUp, ProcessorAssumption DEF CallFails, Crash, Fault, storeVars
  <2>2. \A m \in Messages, a \in Addresses, s \in Terminal : Knows(w, m, a, s)' => Knows(w, m, a, s)
    BY <1>0, <1>5, TypeInvParts DEF CallFails, Crash, Goto, Become, Knows, Loaded, Walking, Idle, Run
  <2>3. \A v \in Workers : v # w => run'[v] = run[v]
    BY <1>5, TypeInvParts DEF CallFails, Crash, Goto, Become
  <2>4. \A m \in Messages, a \in Addresses, s \in Terminal : IsKnown(m, a, s)' => IsKnown(m, a, s)
    BY <2>1, <2>2, <2>3 DEF IsKnown, Knows
  <2> QED
    BY <2>1, <2>4, UsageStays
<1>6. CASE CompleteJob(w) \/ FailJob(w)
  <2>1. LetsGo(w) /\ run[w].pc \in {"ack", "throw"}
    BY <1>0, <1>6, FinishLetsGo DEF CompleteJob, FailJob, At
  <2>2. \A m \in Messages, a \in Addresses, s \in Terminal : IsKnown(m, a, s)' <=> IsKnown(m, a, s)
    BY <2>1, MovesKnown DEF LetsGo, Knows, Loaded, Walking
  <2> QED
    BY <2>1, <2>2, UsageStays DEF LetsGo
<1> QED
  BY <1>0, <1>1, <1>2, <1>3, <1>4, <1>5, <1>6, SlotSteps

LEMMA NextUsage ==
    ASSUME IsFiniteSet(Messages), IsFiniteSet(Addresses), InTime,
           TypeInv, DeliveryInv, UsageInv, Kept', [Next]_vars
    PROVE  UsageInv'
<1>0. HoldInv /\ WalkInv /\ SweepInv
  BY DEF DeliveryInv
<1>1. ASSUME NEW w \in Workers, NEW m \in Messages, TakeJob(w, m), Others PROVE UsageInv'
  <2>1. /\ \A v \in Workers \ {w} : run'[v] = run[v]
        /\ run[w].pc = "idle" /\ run'[w].pc = "load" /\ UNCHANGED <<message, usage>>
    BY <1>0, <1>1, TakeJobInv DEF TakeJob, At
  <2>2. \A k \in Messages, a \in Addresses, s \in Terminal : IsKnown(k, a, s)' <=> IsKnown(k, a, s)
    BY <2>1, MovesKnown DEF Knows, Loaded, Walking
  <2> QED
    BY <2>1, <2>2, UsageStays
<1>2. CASE (\E m \in Messages : ReclaimStep(m)) \/ (\E d \in SendingDomains : ChangeDomain(d)) \/ UNCHANGED vars
  <2>1. UNCHANGED <<message, run, usage>>
    BY <1>2 DEF ReclaimStep, ReclaimJob, ChangeDomain, vars, storeVars, processorVars
  <2>2. \A k \in Messages, a \in Addresses, s \in Terminal : IsKnown(k, a, s)' <=> IsKnown(k, a, s)
    BY <2>1 DEF IsKnown, Knows
  <2> QED
    BY <2>1, <2>2, UsageStays
<1>3. CASE RetentionStep
  <2>1. UNCHANGED <<run, usage>> /\ \A m \in Messages : message'[m].to = message[m].to
    BY <1>0, <1>3, RetentionDocs
    DEF RetentionStep, RetentionNext, SweepStep, FindContent, DeleteRaw, MarkDeleted, FindRecords, DeleteLeftovers,
        DeleteEvents, DeleteMessages, AbortSweep, GrowOld, storeVars, processorVars
  <2>2. \A k \in Messages, a \in Addresses, s \in Terminal : IsKnown(k, a, s)' <=> IsKnown(k, a, s)
    BY <2>1 DEF IsKnown, Knows
  <2> QED
    BY <2>1, <2>2, UsageStays
<1> QED
  BY <1>1, <1>2, <1>3, SlotUsage DEF Next, QueueStep

LEMMA InitAccounts ==
    ASSUME IsFiniteSet(Messages), IsFiniteSet(Addresses)
    PROVE  Init => EventsInv /\ UsageInv
<1> SUFFICES ASSUME Init PROVE EventsInv /\ UsageInv
  OBVIOUS
<1>1. /\ \A w \in Workers : run[w].pc = "idle"
      /\ \A m \in Messages, a \in Addresses : message[m].to[a] \notin Terminal
      /\ \A s \in Terminal : usage[s] = 0
      /\ sweep.pc = "idle"
  BY DEF Init, ProcessorInit, Idle, StoreInit, Accepted, Terminal, RetentionInit, AtRest
<1>2. EventsInv
  BY <1>1 DEF EventsInv, OutcomesHaveEvents, Loaded, Walking
<1>3. \A s \in Terminal : Known(s) = {}
  BY <1>1 DEF Known, IsKnown, Knows, Loaded, Walking
<1> QED
  BY <1>1, <1>2, <1>3, FS_EmptySet DEF UsageInv

(* What a slot knows is at most what is recorded, when no slot works.       *)
LEMMA AccountsAgree ==
    ASSUME IsFiniteSet(Messages), IsFiniteSet(Addresses), TypeInv, EventsInv, UsageInv
    PROVE  OutcomesAccounted
<1> SUFFICES ASSUME NEW s \in Terminal
             PROVE  /\ usage[s] >= Recorded(s)
                    /\ AllIdle /\ FaultCount = 0 => usage[s] = Recorded(s)
  BY DEF OutcomesAccounted, UsageCoversOutcomes, EventsInv
<1> DEFINE R == {p \in Messages \X Addresses : message[p[1]].to[p[2]] = s}
           K == Known(s)
<1>1. K \in SUBSET (Messages \X Addresses) /\ R \subseteq K
  BY DEF Known, IsKnown
<1>2. AllIdle => R = K
  BY DEF Known, IsKnown, Knows, AllIdle, At, Loaded, Walking
<1>3. usage[s] \in Nat /\ Cardinality(K) <= usage[s] /\ (FaultCount = 0 => usage[s] = Cardinality(K))
  BY TypeInvParts DEF UsageInv, DataOK
<1>4. Recorded(s) = Cardinality(R)
  BY DEF Recorded
<1> HIDE DEF K, R
<1>5. Cardinality(K) \in Nat /\ Cardinality(R) \in Nat /\ Cardinality(R) <= Cardinality(K)
  BY <1>1, KnownFinite, FS_Subset
<1> QED
  BY <1>2, <1>3, <1>4, <1>5

(* What the customer is billed for and sees agrees with what the documents  *)
(* say, wherever a run was cut short between counter, event and save        *)
(* (processor.ts:59-103), as long as no record is past its 30 days.         *)
THEOREM OutcomesAreAccounted ==
    ASSUME IsFiniteSet(Messages), IsFiniteSet(Addresses), InTime, MaxAge < 2
    PROVE  Spec => [](Kept => OutcomesAccounted)
<1> DEFINE Inv == EventsInv /\ UsageInv
<1>1. Init => (Kept => Inv)
  BY InitAccounts
<1>2. TypeInv /\ TypeInv' /\ TidyInv /\ (Kept => DeliveryInv) /\ (Kept => Inv) /\ [Next]_vars => (Kept => Inv)'
  <2> SUFFICES ASSUME TypeInv, TypeInv', TidyInv, Kept => DeliveryInv, Kept => Inv, [Next]_vars, Kept' PROVE Inv'
    OBVIOUS
  <2> QED
    BY KeptBack, NextEvents, NextUsage
<1>3. TypeInv /\ (Kept => Inv) => (Kept => OutcomesAccounted)
  BY AccountsAgree
<1> QED
  BY <1>1, <1>2, <1>3, AlwaysTyped, AlwaysTidy, AlwaysInv, PTL DEF Spec
-----------------------------------------------------------------------------
(***************************************************************************)
(* Bounces: who is suppressed, and what a sender has been told of.         *)
(***************************************************************************)

(* The steps of a slot, by what they do to the recipients it has in hand:   *)
(* it only goes on,                                                         *)
Same(q, r) ==
    /\ q.msg = r.msg /\ q.suppress = r.suppress
    /\ q.to = r.to /\ q.results = r.results /\ q.todo = r.todo /\ q.group = r.group

Goes(q, r) ==
    /\ Same(q, r)
    /\ q.pc \notin {"raw", "suppressions", "suppress", "notify"}
    /\ q.pc \in Early => r.pc \in Early

(* begins: it reads the document, finds the domain verified, the content    *)
(* there,                                                                   *)
Begins(q, r) ==
    \/ /\ r.pc = "load" /\ q.pc = "start"
       /\ q.msg = r.msg /\ q.suppress = r.suppress /\ q.to = message[r.msg].to
       /\ q.results = r.results /\ q.todo = r.todo /\ q.group = r.group
    \/ r.pc = "domain" /\ q.pc = "raw" /\ Same(q, r) /\ FromDomain[r.msg] \in verified
    \/ r.pc = "raw" /\ q.pc = "suppressions" /\ Same(q, r)

(* decides who bounces without being tried,                                 *)
Judges(q, r) ==
    /\ r.pc \in {"domain", "suppressions"} /\ q.pc = "apply"
    /\ q.msg = r.msg /\ q.suppress = r.suppress /\ q.to = r.to /\ q.group = r.group
    /\ \A a \in Addresses :
          q.results[a] # "none" =>
             /\ q.results[a] = "bounced" /\ r.to[a] \in NonTerminal
             /\ IF r.pc = "domain" THEN FromDomain[r.msg] \notin verified ELSE a \in suppression
    /\ \/ r.pc = "domain" /\ q.todo = r.todo
       \/ /\ r.pc = "suppressions"
          /\ q.todo \subseteq {a \in Addresses : r.to[a] \in NonTerminal} \ suppression

(* applies the result of one recipient,                                     *)
AppliesOne(q, r) ==
    /\ r.pc = "apply"
    /\ q.msg = r.msg /\ q.suppress = r.suppress /\ q.todo = r.todo /\ q.group = r.group
    /\ q.cur \in Addresses /\ r.results[q.cur] # "none"
    /\ q.to = [r.to EXCEPT ![q.cur] = r.results[q.cur]]
    /\ q.results = [r.results EXCEPT ![q.cur] = "none"]
    /\ q.pc \in {"suppress", "notify"} => r.results[q.cur] = "bounced" /\ (q.pc = "suppress" <=> r.suppress)
    /\ q.pc \in {"suppress", "notify", "record"}

(* takes the recipients of the next domain,                                 *)
TakesUp(q, r) ==
    /\ r.pc = "apply" /\ q.pc \in {"apply", "deliver"}
    /\ q.msg = r.msg /\ q.suppress /\ q.to = r.to
    /\ q.todo \subseteq r.todo /\ q.group \subseteq r.todo
    /\ \A a, b \in q.group : DomainOf[a] = DomainOf[b]
    /\ \A a \in Addresses : q.results[a] # "none" => q.results[a] = "deferred" /\ a \in r.todo

(* or hears what an MX answers: where it refuses a domain, it refuses some  *)
(* recipient, and where it rejects one, it has taken another.               *)
Hears(q, r) ==
    /\ r.pc = "deliver" /\ q.pc = "apply"
    /\ q.msg = r.msg /\ q.suppress = r.suppress /\ q.to = r.to /\ q.todo = r.todo /\ q.group = {}
    /\ \A a \in Addresses :
          /\ q.results[a] # "none" => a \in r.group
          /\ q.results[a] = "bounced" => a \in refused' \/ \E b \in r.group : b # a

(* Past the last attempt it fails those who are still deferred.             *)
Exhausts(q, r) ==
    /\ r.pc = "apply" /\ q.pc = "apply" /\ q.msg = r.msg /\ q.suppress = r.suppress
    /\ q.to = r.to /\ q.todo = r.todo /\ q.group = r.group
    /\ \A a \in Addresses : q.results[a] # "none" => q.results[a] = "failed" /\ r.to[a] = "deferred"

SlotForm(q, r) ==
    \/ /\ UNCHANGED <<suppression, dsn, refused>>
       /\ \/ q = Idle \/ Goes(q, r) \/ Begins(q, r) \/ Judges(q, r)
          \/ AppliesOne(q, r) \/ TakesUp(q, r) \/ Exhausts(q, r)
    \/ Hears(q, r) /\ refused \subseteq refused' /\ UNCHANGED <<suppression, dsn>>
    \/ /\ r.pc = "suppress" /\ q.pc = "notify" /\ Same(q, r) /\ q.cur = r.cur
       /\ suppression' = suppression \cup {r.cur} /\ UNCHANGED <<dsn, refused>>
    \/ /\ r.pc = "notify" /\ q.pc = "record" /\ Same(q, r)
       /\ dsn \subseteq dsn' /\ dsn' \subseteq dsn \cup {<<r.msg, r.cur>>}
       /\ UNCHANGED <<suppression, refused>>

LEMMA GotoSame ==
    ASSUME TypeInv, NEW w \in Workers, NEW pc, Goto(w, pc)
    PROVE  \E q : Become(w, q) /\ Same(q, run[w]) /\ q.pc = pc /\ q.cur = run[w].cur
<1> DEFINE q == [run[w] EXCEPT !.pc = pc]
<1>1. run[w] \in Run
  BY TypeInvParts
<1>2. Same(q, run[w]) /\ q.pc = pc /\ q.cur = run[w].cur
  BY <1>1 DEF Same, Run
<1>3. Become(w, q)
  BY DEF Goto
<1> HIDE DEF q
<1> QED
  BY <1>2, <1>3

LEMMA AnsweredForm ==
    ASSUME TypeInv, NEW w \in Workers, run[w].pc = "deliver", NEW results,
           \A a \in Addresses :
              /\ results[a] # "none" => a \in run[w].group
              /\ results[a] = "bounced" => a \in refused' \/ \E b \in run[w].group : b # a
    PROVE  Hears(Answered(run[w], results), run[w])
<1>1. run[w] \in Run
  BY TypeInvParts
<1> DEFINE q == Answered(run[w], results)
<1>2. /\ q.pc = "apply" /\ q.msg = run[w].msg /\ q.suppress = run[w].suppress /\ q.to = run[w].to
      /\ q.todo = run[w].todo /\ q.group = {} /\ q.results = results
  BY <1>1 DEF Answered, Run
<1> HIDE DEF q
<1> QED
  BY <1>2 DEF Hears, q

LEMMA NextTargetForm ==
    ASSUME TypeInv, NEW w \in Workers, run[w].pc = "deliver", NextTarget(w), refused' = refused
    PROVE  \E q : Become(w, q) /\ (Goes(q, run[w]) \/ Hears(q, run[w]))
<1>1. run[w] \in Run
  BY TypeInvParts
<1>2. CASE run[w].targets > 1
  <2> DEFINE q == [run[w] EXCEPT !.targets = @ - 1]
  <2>1. Same(q, run[w]) /\ q.pc = "deliver"
    BY <1>1 DEF Same, Run
  <2>2. Become(w, q)
    BY <1>2 DEF NextTarget
  <2> HIDE DEF q
  <2> QED
    BY <2>1, <2>2 DEF Goes, Early
<1>3. CASE ~(run[w].targets > 1)
  <2> DEFINE results == ResultFor(run[w].group, AfterLastTarget)
  <2>1. \A a \in Addresses : /\ results[a] # "none" => a \in run[w].group
                             /\ results[a] # "bounced"
    BY DEF ResultFor, AfterLastTarget
  <2>2. Become(w, Answered(run[w], results))
    BY <1>3 DEF NextTarget
  <2> HIDE DEF results
  <2> QED
    BY <2>1, <2>2, AnsweredForm
<1> QED
  BY <1>2, <1>3

(* Every step of a slot has one of these forms, unless the slot only loses  *)
(* its lock; save() alone changes documents.                                *)
LEMMA StepForm ==
    ASSUME TypeInv, NEW w \in Workers, WorkerStep(w) \/ FaultStep(w)
    PROVE  \/ UNCHANGED <<run, suppression, dsn, refused, message>>
           \/ /\ run[w].pc # "idle"
              /\ \E q : Become(w, q) /\ SlotForm(q, run[w])
              /\ \/ UNCHANGED message
                 \/ \E m \in Messages : m = run[w].msg /\ message' = [message EXCEPT ![m] = Written(m, run[w])]
<1> DEFINE r == run[w]
           Form == \E q : Become(w, q) /\ SlotForm(q, r)
           Docs == \/ UNCHANGED message
                   \/ \E m \in Messages : m = r.msg /\ message' = [message EXCEPT ![m] = Written(m, r)]
           Quietly == UNCHANGED <<suppression, dsn, refused>>
<1>1. r \in Run /\ run \in [Workers -> Run] /\ (r.pc # "idle" => r.msg \in Messages)
  BY TypeInvParts DEF RunOK, SlotOK
<1>2. ASSUME NEW pc, Goto(w, pc), Quietly, pc \notin {"raw", "suppressions", "suppress", "notify"},
             pc \in Early => r.pc \in Early
      PROVE  Form
  <2>1. PICK q : Become(w, q) /\ Same(q, r) /\ q.pc = pc
    BY <1>2, GotoSame
  <2> QED
    BY <1>2, <2>1 DEF SlotForm, Goes
<1>3. ASSUME FindMessage(w) PROVE r.pc # "idle" /\ Form /\ Docs
  <2> DEFINE q == [r EXCEPT !.pc = "start", !.to = message[r.msg].to, !.status = "sending",
                            !.touched = message[r.msg].status # "sending"]
  <2>1. r.pc = "load" /\ Quietly /\ UNCHANGED message
    BY <1>3 DEF FindMessage, At, storeVars
  <2>2. Begins(q, r)
    BY <1>1, <2>1 DEF Begins, Run
  <2> HIDE DEF q
  <2>3. Become(w, q) \/ Goto(w, "ack")
    BY <1>3 DEF FindMessage, q
  <2> QED
    BY <1>2, <2>1, <2>2, <2>3 DEF SlotForm, Early
<1>4. ASSUME SaveStart(w) \/ SaveOutcome(w) PROVE r.pc # "idle" /\ Form /\ Docs
  <2>1. PICK pc : SaveThen(w, pc) /\ pc \in {"domain", "throw", "ack"} /\ (pc = "domain" => r.pc = "start")
    BY <1>4 DEF SaveStart, SaveOutcome, AfterSave, At
  <2>2. r.pc \in {"start", "save"} /\ Quietly
    BY <1>4 DEF SaveStart, SaveOutcome, At
  <2> DEFINE q == [r EXCEPT !.pc = pc, !.touched = FALSE, !.dirty = {}]
  <2>3. Same(q, r) /\ q.pc = pc
    BY <1>1 DEF Same, Run
  <2> HIDE DEF q
  <2>4. Goes(q, r)
    BY <2>1, <2>3 DEF Goes, Early
  <2>5. Docs /\ (Become(w, q) \/ Goto(w, "throw"))
    BY <1>1, <2>1, <2>2 DEF SaveThen, q
  <2> QED
    BY <1>2, <2>2, <2>4, <2>5 DEF SlotForm, Early
<1>5. ASSUME CheckDomain(w) PROVE r.pc # "idle" /\ Form /\ Docs
  <2> DEFINE q == [r EXCEPT !.pc = "apply", !.phase = "unverified", !.results = ResultFor(Pending(r), "bounced")]
  <2>1. r.pc = "domain" /\ Quietly /\ UNCHANGED message
    BY <1>5 DEF CheckDomain, At, storeVars
  <2>2. CASE FromDomain[r.msg] \in verified /\ Goto(w, "raw")
    <3>1. PICK p : Become(w, p) /\ Same(p, r) /\ p.pc = "raw"
      BY <2>2, GotoSame
    <3> QED
      BY <2>1, <2>2, <3>1 DEF SlotForm, Begins
  <2>3. CASE FromDomain[r.msg] \notin verified /\ Become(w, q)
    <3>1. Judges(q, r)
      BY <1>1, <2>1, <2>3 DEF Judges, Run, ResultFor, Pending
    <3> QED
      BY <2>1, <2>3, <3>1 DEF SlotForm
  <2> QED
    BY <1>5, <2>1, <2>2, <2>3 DEF CheckDomain
<1>6. ASSUME LoadRaw(w) PROVE r.pc # "idle" /\ Form /\ Docs
  <2>1. r.pc = "raw" /\ Quietly /\ UNCHANGED message /\ (Goto(w, "suppressions") \/ Goto(w, "throw"))
    BY <1>6 DEF LoadRaw, At, storeVars
  <2>2. CASE Goto(w, "suppressions")
    <3>1. PICK p : Become(w, p) /\ Same(p, r) /\ p.pc = "suppressions"
      BY <2>2, GotoSame
    <3> QED
      BY <2>1, <3>1 DEF SlotForm, Begins
  <2> QED
    BY <1>2, <2>1, <2>2 DEF Early
<1>7. ASSUME ReadSuppressions(w) PROVE r.pc # "idle" /\ Form /\ Docs
  <2> DEFINE q == [r EXCEPT !.pc = "apply", !.phase = "send",
                           !.results = ResultFor(Suppressed(r), "bounced"),
                           !.todo = Pending(r) \ Suppressed(r)]
  <2>1. r.pc = "suppressions" /\ Quietly /\ UNCHANGED message /\ Become(w, q)
    BY <1>7 DEF ReadSuppressions, At, storeVars
  <2>2. Judges(q, r)
    BY <1>1, <2>1 DEF Judges, Run, ResultFor, Pending, Suppressed
  <2> QED
    BY <2>1, <2>2 DEF SlotForm
<1>8. ASSUME NEW a \in Addresses, ApplyResult(w, a) PROVE r.pc # "idle" /\ Form /\ Docs
  <2> DEFINE o == r.results[a]
             q == [r EXCEPT !.pc = AfterApply(r, o), !.cur = a,
                            !.results = [@ EXCEPT ![a] = "none"], !.to = [@ EXCEPT ![a] = o],
                            !.dirty = IF r.to[a] = o THEN @ ELSE @ \cup {a}]
  <2>1. r.pc = "apply" /\ o # "none" /\ Quietly /\ UNCHANGED message /\ Become(w, q)
    BY <1>8 DEF ApplyResult, At
  <2>2. /\ q.pc = AfterApply(r, o) /\ q.cur = a /\ q.msg = r.msg /\ q.suppress = r.suppress
        /\ q.todo = r.todo /\ q.group = r.group
        /\ q.to = [r.to EXCEPT ![a] = o] /\ q.results = [r.results EXCEPT ![a] = "none"]
    BY <1>1 DEF Run
  <2> HIDE DEF q
  <2>3. AppliesOne(q, r)
    BY <1>1, <2>1, <2>2 DEF AppliesOne, AfterApply, Run
  <2> QED
    BY <2>1, <2>3 DEF SlotForm
<1>9. ASSUME NEW a \in Addresses, FailDeferred(w, a) PROVE r.pc # "idle" /\ Form /\ Docs
  <2> DEFINE q == [r EXCEPT !.pc = "record", !.cur = a,
                           !.results = [@ EXCEPT ![a] = "none"],
                           !.to = [@ EXCEPT ![a] = "failed"],
                           !.dirty = @ \cup {a}]
  <2>1. r.pc = "apply" /\ r.results[a] = "failed" /\ Quietly /\ UNCHANGED message /\ Become(w, q)
    BY <1>9 DEF FailDeferred, At
  <2>2. AppliesOne(q, r)
    BY <1>1, <2>1 DEF AppliesOne, Run
  <2> QED
    BY <2>1, <2>2 DEF SlotForm
<1>10. ASSUME Suppress(w) PROVE r.pc # "idle" /\ Form /\ Docs
  <2>1. PICK q : Become(w, q) /\ Same(q, r) /\ q.pc = "notify" /\ q.cur = r.cur
    BY <1>10, GotoSame DEF Suppress
  <2> QED
    BY <1>10, <2>1 DEF Suppress, At, SlotForm
<1>11. ASSUME NotifySender(w) PROVE r.pc # "idle" /\ Form /\ Docs
  <2>1. PICK q : Become(w, q) /\ Same(q, r) /\ q.pc = "record"
    BY <1>11, GotoSame DEF NotifySender
  <2>2. /\ r.pc = "notify" /\ UNCHANGED <<suppression, refused, message>>
        /\ dsn \subseteq dsn' /\ dsn' \subseteq dsn \cup {<<r.msg, r.cur>>}
    BY <1>11 DEF NotifySender, At, storeVars
  <2> QED
    BY <2>1, <2>2 DEF SlotForm
<1>12. ASSUME RecordEvent(w) PROVE r.pc # "idle" /\ Form /\ Docs
  <2> DEFINE q == [r EXCEPT !.pc = "apply", !.cur = NoAddress]
  <2>1. r.pc = "record" /\ Quietly /\ UNCHANGED message /\ Become(w, q)
    BY <1>12 DEF RecordEvent, At
  <2>2. Goes(q, r)
    BY <1>1 DEF Goes, Same, Run, Early
  <2> QED
    BY <2>1, <2>2 DEF SlotForm
<1>13. ASSUME NEW d, NEW n, NextDomain(w, d, n) PROVE r.pc # "idle" /\ Form /\ Docs
  <2> DEFINE group == {a \in r.todo : DomainOf[a] = d}
             q == [r EXCEPT !.pc = IF n = 0 THEN "apply" ELSE "deliver",
                            !.suppress = TRUE,
                            !.todo = StillToTry(r, group),
                            !.group = IF n = 0 THEN {} ELSE group,
                            !.results = IF n = 0 THEN ResultFor(group, WithoutTarget) ELSE @,
                            !.targets = n]
  <2>1. r.pc = "apply" /\ Unapplied(r) = {} /\ Quietly /\ UNCHANGED message /\ Become(w, q)
    BY <1>13 DEF NextDomain, At, storeVars
  <2>2. TakesUp(q, r)
    BY <1>1, <2>1 DEF TakesUp, Run, StillToTry, ResultFor, WithoutTarget, Unapplied
  <2> QED
    BY <2>1, <2>2 DEF SlotForm
<1>14. ASSUME NEW rejected, NEW perm, MxAccepts(w, rejected, perm) PROVE r.pc # "idle" /\ Form /\ Docs
  <2> DEFINE results == [a \in Addresses |-> IF a \in rejected THEN "bounced"
                                             ELSE IF a \in r.group \ rejected THEN "delivered" ELSE "none"]
  <2>1. /\ r.pc = "deliver" /\ rejected \subseteq r.group /\ r.group \ rejected # {}
        /\ Become(w, Answered(r, results)) /\ UNCHANGED <<suppression, dsn, message>> /\ refused \subseteq refused'
    BY <1>14 DEF MxAccepts, At, storeVars
  <2>2. \A a \in Addresses : /\ results[a] # "none" => a \in r.group
                             /\ results[a] = "bounced" => a \in refused' \/ \E b \in r.group : b # a
    BY <2>1
  <2> HIDE DEF results
  <2>3. Hears(Answered(r, results), r)
    BY <2>1, <2>2, AnsweredForm
  <2> QED
    BY <2>1, <2>3 DEF SlotForm
<1>15. ASSUME NEW perm, MxRefuses(w, perm) PROVE r.pc # "idle" /\ Form /\ Docs
  <2> DEFINE results == ResultFor(r.group, "bounced")
  <2>1. /\ r.pc = "deliver" /\ perm \subseteq r.group /\ perm # {} /\ refused' = refused \cup perm
        /\ Become(w, Answered(r, results)) /\ UNCHANGED <<suppression, dsn, message>>
    BY <1>15 DEF MxRefuses, At, storeVars
  <2>2. \A a \in Addresses : /\ results[a] # "none" => a \in r.group
                             /\ results[a] = "bounced" => a \in refused' \/ \E b \in r.group : b # a
    BY <2>1 DEF ResultFor
  <2> HIDE DEF results
  <2>3. Hears(Answered(r, results), r)
    BY <2>1, <2>2, AnsweredForm
  <2> QED
    BY <2>1, <2>3 DEF SlotForm
<1>16. ASSUME MxDefers(w) \/ MxReplyLost(w) PROVE r.pc # "idle" /\ Form /\ Docs
  <2>1. r.pc = "deliver" /\ Quietly /\ UNCHANGED message /\ NextTarget(w)
    BY <1>16 DEF MxDefers, MxReplyLost, At, storeVars
  <2> QED
    BY <2>1, NextTargetForm DEF SlotForm
<1>17. ASSUME NEW s, Become(w, [Settled(r) EXCEPT !.status = s]), r.pc = "apply", Quietly PROVE Form
  <2> DEFINE q == [Settled(r) EXCEPT !.status = s]
  <2>1. Goes(q, r)
    BY <1>1 DEF Goes, Same, Run, Settled, Early
  <2> QED
    BY <1>17, <2>1 DEF SlotForm
<1>18. ASSUME FailUnverified(w) \/ GiveUp(w) PROVE r.pc # "idle" /\ Form /\ Docs
  BY <1>17, <1>18 DEF FailUnverified, GiveUp, Walked, At, storeVars
<1>19. ASSUME FinalizeStatus(w) PROVE r.pc # "idle" /\ Form /\ Docs
  <2> DEFINE q == [r EXCEPT !.phase = "exhaust", !.results = ResultFor(StillDeferred(r), "failed")]
  <2>1. r.pc = "apply" /\ Quietly /\ UNCHANGED message
    BY <1>19 DEF FinalizeStatus, Walked, At, storeVars
  <2>2. Exhausts(q, r)
    BY <1>1, <2>1 DEF Exhausts, Run, ResultFor, StillDeferred, Having
  <2> HIDE DEF q
  <2>3. Become(w, q) \/ \E s : Become(w, [Settled(r) EXCEPT !.status = s])
    BY <1>19 DEF FinalizeStatus, q
  <2> QED
    BY <1>17, <2>1, <2>2, <2>3 DEF SlotForm
<1>20. ASSUME CompleteJob(w) \/ FailJob(w) \/ Crash(w) PROVE r.pc # "idle" /\ Form /\ Docs
  BY <1>20 DEF CompleteJob, FailJob, Crash, Finish, At, SlotForm
<1>21. ASSUME CallFails(w) PROVE r.pc # "idle" /\ Form /\ Docs
  BY <1>2, <1>21 DEF CallFails, At, storeVars, Early
<1>22. ASSUME \E m \in Messages : LoseLock(w, m) PROVE UNCHANGED <<run, suppression, dsn, refused, message>>
  BY <1>22 DEF LoseLock
<1> QED
  BY <1>3, <1>4, <1>5, <1>6, <1>7, <1>8, <1>9, <1>10, <1>11, <1>12, <1>13, <1>14, <1>15, <1>16, <1>18, <1>19, <1>20, <1>21, <1>22
  DEF WorkerStep, FaultStep, Step, Mishap
-----------------------------------------------------------------------------
(* Each domain gets one recipient of a message, and answers for nobody else. *)
OnePerDomain == \A m \in Messages : \A a, b \in To[m] : DomainOf[a] = DomainOf[b] => a = b

(* A slot works on recipients of its message only; a group is of one        *)
(* domain; what it is going to suppress, an MX has refused.                 *)
SlotRefused(r, ref) ==
    /\ r.pc # "idle" =>
          /\ \A a \in Addresses \ To[r.msg] : r.to[a] = "absent" /\ r.results[a] = "none"
          /\ r.todo \cup r.group \subseteq To[r.msg]
    /\ \A a, b \in r.group : DomainOf[a] = DomainOf[b]
    /\ r.pc \in Early => ~r.suppress
    /\ r.suppress => \A a \in Addresses : r.results[a] = "bounced" => a \in ref
    /\ r.pc = "suppress" => r.cur \in ref

RefusedInv ==
    /\ SuppressedWasRefused
    /\ \A m \in Messages : \A a \in Addresses \ To[m] : message[m].to[a] = "absent"
    /\ \A w \in Workers : SlotRefused(run[w], refused)

LEMMA FormRefused ==
    ASSUME OnePerDomain, TypeInv, RefusedInv, NEW w \in Workers, run[w].pc # "idle",
           NEW q, SlotForm(q, run[w])
    PROVE  /\ refused \subseteq refused' /\ suppression' \subseteq refused'
           /\ SlotRefused(q, refused')
<1> DEFINE r == run[w]
<1>1. /\ r \in Run /\ r.msg \in Messages /\ To[r.msg] \subseteq Addresses
      /\ suppression \subseteq refused /\ SlotRefused(r, refused)
      /\ \A a \in Addresses \ To[r.msg] : message[r.msg].to[a] = "absent"
  BY TypeInvParts, StoreAssumption DEF RunOK, SlotOK, RefusedInv, SuppressedWasRefused
<1>2. /\ \A a \in Addresses \ To[r.msg] : r.to[a] = "absent" /\ r.results[a] = "none"
      /\ r.todo \cup r.group \subseteq To[r.msg]
      /\ \A a, b \in r.group : a = b
  <2>1. r.todo \cup r.group \subseteq To[r.msg] /\ \A a, b \in r.group : DomainOf[a] = DomainOf[b]
    BY <1>1 DEF SlotRefused
  <2>2. \A a, b \in r.group : a = b
    BY <1>1, <2>1 DEF OnePerDomain
  <2> QED
    BY <1>1, <2>1, <2>2 DEF SlotRefused
<1>3. \A a \in Addresses : r.to[a] \in NonTerminal => a \in To[r.msg]
  BY <1>2 DEF NonTerminal
<1>4. CASE q = Idle /\ UNCHANGED <<suppression, refused>>
  BY <1>1, <1>4 DEF SlotRefused, Idle, Early
<1>5. CASE Same(q, r) /\ UNCHANGED refused /\ suppression' \subseteq suppression \cup {r.cur}
           /\ q.pc # "suppress" /\ (q.pc \in Early => r.pc \in Early)
           /\ (suppression' = suppression \/ r.pc = "suppress")
  BY <1>1, <1>2, <1>5 DEF SlotRefused, Same
<1>6. CASE Begins(q, r) /\ UNCHANGED <<suppression, refused>>
  BY <1>1, <1>2, <1>6 DEF SlotRefused, Begins, Same, Early
<1>7. CASE Judges(q, r) /\ UNCHANGED <<suppression, refused>>
  <2>1. ~q.suppress /\ q.pc = "apply" /\ q.msg = r.msg /\ q.to = r.to /\ q.group = r.group
    BY <1>1, <1>7 DEF SlotRefused, Judges, Early
  <2>2. q.todo \subseteq To[r.msg] /\ \A a \in Addresses \ To[r.msg] : q.results[a] = "none"
    BY <1>2, <1>3, <1>7 DEF Judges
  <2> QED
    BY <1>1, <1>2, <1>7, <2>1, <2>2 DEF SlotRefused, Early
<1>8. CASE AppliesOne(q, r) /\ UNCHANGED <<suppression, refused>>
  <2>1. /\ q.pc \in {"suppress", "notify", "record"} /\ q.msg = r.msg /\ q.suppress = r.suppress
        /\ q.todo = r.todo /\ q.group = r.group /\ q.cur \in To[r.msg]
        /\ q.pc = "suppress" => r.suppress /\ r.results[q.cur] = "bounced"
    BY <1>2, <1>8 DEF AppliesOne
  <2>2. \A a \in Addresses : /\ a # q.cur => q.to[a] = r.to[a]
                             /\ q.results[a] = IF a = q.cur THEN "none" ELSE r.results[a]
    BY <1>1, <1>8 DEF AppliesOne, Run
  <2> QED
    BY <1>1, <1>2, <1>8, <2>1, <2>2 DEF SlotRefused, Early
<1>9. CASE TakesUp(q, r) /\ UNCHANGED <<suppression, refused>>
  BY <1>1, <1>2, <1>9 DEF SlotRefused, TakesUp, Early
<1>10. CASE Exhausts(q, r) /\ UNCHANGED <<suppression, refused>>
  <2>1. \A a \in Addresses : q.results[a] # "none" => q.results[a] = "failed" /\ a \in To[r.msg]
    BY <1>3, <1>10 DEF Exhausts, NonTerminal
  <2> QED
    BY <1>1, <1>2, <1>10, <2>1 DEF SlotRefused, Exhausts, Early
<1>11. CASE Hears(q, r) /\ refused \subseteq refused' /\ UNCHANGED suppression
  BY <1>1, <1>2, <1>11 DEF SlotRefused, Hears, Early
<1> QED
  BY <1>4, <1>5, <1>6, <1>7, <1>8, <1>9, <1>10, <1>11 DEF SlotForm, Goes, Early

(* Retention never changes an outcome. *)
LEMMA RetentionOutcomes ==
    ASSUME TypeInv, RetentionStep, NEW m \in Messages
    PROVE  message'[m].to = message[m].to
<1>1. message[m] \in MessageDoc /\ message \in [Messages -> MessageDoc]
  BY TypeInvParts DEF DataOK
<1>2. CASE UNCHANGED message
  BY <1>2
<1>3. CASE MarkDeleted
  <2>1. PICK k \in sweep.files :
           message' = [message EXCEPT ![k] =
                 IF ~@.exists THEN @
                 ELSE [@ EXCEPT !.rawDeleted = TRUE, !.status = MarkedStatus(k)]]
    BY <1>3 DEF MarkDeleted
  <2>2. CASE k = m
    BY <1>1, <2>1, <2>2 DEF MessageDoc
  <2>3. CASE k # m
    BY <1>1, <2>1, <2>3
  <2> QED
    BY <2>2, <2>3
<1>4. CASE DeleteMessages
  <2>1. message'[m] = IF m \in sweep.batch THEN [message[m] EXCEPT !.exists = FALSE] ELSE message[m]
    BY <1>4 DEF DeleteMessages
  <2> QED
    BY <1>1, <2>1 DEF MessageDoc
<1> QED
  BY <1>2, <1>3, <1>4
  DEF RetentionStep, RetentionNext, SweepStep, FindContent, DeleteRaw, FindRecords,
      DeleteLeftovers, DeleteEvents, AbortSweep, GrowOld, storeVars

(* A save writes what the slot or the document said.                        *)
LEMMA WrittenTo ==
    ASSUME TypeInv, NEW m \in Messages, NEW r, message' = [message EXCEPT ![m] = Written(m, r)],
           NEW k \in Messages, NEW a \in Addresses
    PROVE  message'[k].to[a] = message[k].to[a] \/ (k = m /\ message'[k].to[a] = r.to[a])
<1>1. message[m] \in MessageDoc /\ message \in [Messages -> MessageDoc]
  BY TypeInvParts DEF DataOK
<1>2. Written(m, r).to[a] = IF a \in r.dirty THEN r.to[a] ELSE message[m].to[a]
  BY <1>1 DEF Written, MessageDoc
<1> QED
  BY <1>1, <1>2

LEMMA NextRefused == ASSUME OnePerDomain, TypeInv, RefusedInv, [Next]_vars PROVE RefusedInv'
<1>1. CASE UNCHANGED <<run, suppression, refused>> /\ \A m \in Messages : message'[m].to = message[m].to
  BY <1>1 DEF RefusedInv, SuppressedWasRefused
<1>2. ASSUME NEW w \in Workers, NEW q, Become(w, q), refused \subseteq refused', suppression' \subseteq refused',
             SlotRefused(q, refused'),
             \A m \in Messages : \A a \in Addresses \ To[m] : message'[m].to[a] = "absent"
      PROVE  RefusedInv'
  <2>1. run' = [run EXCEPT ![w] = q] /\ run \in [Workers -> Run]
    BY <1>2, TypeInvParts DEF Become
  <2>2. ASSUME NEW v \in Workers PROVE SlotRefused(run'[v], refused')
    <3>1. CASE v = w
      BY <1>2, <2>1, <3>1
    <3>2. CASE v # w
      BY <1>2, <2>1, <3>2 DEF RefusedInv, SlotRefused
    <3> QED
      BY <3>1, <3>2
  <2> QED
    BY <1>2, <2>2 DEF RefusedInv, SuppressedWasRefused
<1>3. ASSUME NEW w \in Workers, WorkerStep(w) \/ FaultStep(w) PROVE RefusedInv'
  <2>1. CASE UNCHANGED <<run, suppression, refused, message>>
    BY <1>1, <2>1
  <2>2. CASE /\ run[w].pc # "idle"
             /\ \E q : Become(w, q) /\ SlotForm(q, run[w])
             /\ \/ UNCHANGED message
                \/ \E m \in Messages : m = run[w].msg /\ message' = [message EXCEPT ![m] = Written(m, run[w])]
    <3>1. PICK q : Become(w, q) /\ SlotForm(q, run[w])
      BY <2>2
    <3>2. ASSUME NEW m \in Messages, NEW a \in Addresses \ To[m] PROVE message'[m].to[a] = "absent"
      <4>1. message[m].to[a] = "absent" /\ (m = run[w].msg => run[w].to[a] = "absent")
        BY <2>2, <3>2 DEF RefusedInv, SlotRefused
      <4> QED
        BY <2>2, <4>1, WrittenTo
    <3> QED
      BY <1>2, <2>2, <3>1, <3>2, FormRefused
  <2> QED
    BY <1>3, <2>1, <2>2, StepForm
<1>4. ASSUME NEW w \in Workers, NEW m \in Messages, TakeJob(w, m) PROVE RefusedInv'
  <2> DEFINE q == [Idle EXCEPT !.pc = "load", !.msg = m, !.made = job[m].made, !.knew = suppression]
  <2>1. Become(w, q) /\ UNCHANGED <<suppression, refused, message>>
    BY <1>4 DEF TakeJob
  <2>2. SlotRefused(q, refused')
    BY DEF SlotRefused, Idle, NoResults
  <2> HIDE DEF q
  <2> QED
    BY <1>2, <2>1, <2>2 DEF RefusedInv, SuppressedWasRefused
<1>5. CASE RetentionStep
  BY <1>1, <1>5, RetentionOutcomes
  DEF RetentionStep, RetentionNext, SweepStep, FindContent, DeleteRaw, MarkDeleted, FindRecords,
      DeleteLeftovers, DeleteEvents, DeleteMessages, AbortSweep, GrowOld, storeVars, processorVars
<1>6. CASE (\E m \in Messages : ReclaimStep(m)) \/ (\E d \in SendingDomains : ChangeDomain(d)) \/ UNCHANGED vars
  BY <1>1, <1>6 DEF ReclaimStep, ReclaimJob, ChangeDomain, vars, storeVars, processorVars
<1> QED
  BY <1>3, <1>4, <1>5, <1>6 DEF Next, QueueStep

(* The suppression list holds only addresses an MX has refused for good     *)
(* (smtpCodes.ts:8), however runs fail, overlap and are repeated, where     *)
(* each domain gets one recipient of a message.                             *)
THEOREM SuppressedForGood == ASSUME OnePerDomain PROVE Spec => []SuppressedWasRefused
<1>1. Init => RefusedInv
  <2> SUFFICES ASSUME Init PROVE RefusedInv
    OBVIOUS
  <2>1. suppression = {} /\ \A w \in Workers : run[w] = Idle
    BY DEF Init, StoreInit, ProcessorInit
  <2>2. ASSUME NEW m \in Messages, NEW a \in Addresses \ To[m] PROVE message[m].to[a] = "absent"
    BY DEF Init, StoreInit, Accepted
  <2>3. SlotRefused(Idle, refused)
    BY DEF SlotRefused, Idle, NoResults
  <2> QED
    BY <2>1, <2>2, <2>3 DEF RefusedInv, SuppressedWasRefused
<1>2. TypeInv /\ RefusedInv /\ [Next]_vars => RefusedInv'
  BY NextRefused
<1>3. RefusedInv => SuppressedWasRefused
  BY DEF RefusedInv
<1> QED
  BY <1>1, <1>2, <1>3, AlwaysTyped, PTL DEF Spec
-----------------------------------------------------------------------------
(* Whoever a sender has been told of is suppressed, or the sender's domain  *)
(* is gone for good: no later run gets through to that recipient.           *)
Doomed(m, a, sup, ver) == a \in sup \/ FromDomain[m] \notin ver

SlotNoted(r, notes, sup, ver) ==
    /\ r.pc # "idle" =>
          /\ \A a \in Addresses : <<r.msg, a>> \in notes =>
                /\ r.pc \in {"raw", "suppressions"} => a \in sup
                /\ ~Says(r, a)
                /\ a \notin r.todo \cup r.group
          /\ ~r.suppress => \A a \in Addresses : r.results[a] = "bounced" => Doomed(r.msg, a, sup, ver)
    /\ r.group # {} => r.suppress
    /\ r.pc \in {"suppress", "notify"} => r.to[r.cur] = "bounced"
    /\ r.pc = "notify" => Doomed(r.msg, r.cur, sup, ver)

NotedInv ==
    /\ \A m \in Messages : FromDomain[m] \notin verified => domainChanges > 0
    /\ \A m \in Messages, a \in Addresses :
          <<m, a>> \in dsn => message[m].to[a] # "delivered" /\ Doomed(m, a, suppression, verified)
    /\ \A w \in Workers : SlotNoted(run[w], dsn, suppression, verified)

LEMMA FormNoted ==
    ASSUME TypeInv, DeliveryInv, NotedInv, NEW w \in Workers, run[w].pc # "idle",
           NEW q, SlotForm(q, run[w])
    PROVE  /\ suppression \subseteq suppression' /\ dsn' \subseteq dsn \cup ({run[w].msg} \X Addresses)
           /\ \A m \in Messages, a \in Addresses : <<m, a>> \in dsn' =>
                 /\ message[m].to[a] # "delivered" /\ Doomed(m, a, suppression', verified)
                 /\ m = run[w].msg => run[w].to[a] # "delivered"
           /\ SlotNoted(q, dsn', suppression', verified)
<1> DEFINE r == run[w]
           Good == /\ suppression \subseteq suppression' /\ dsn' \subseteq dsn \cup ({r.msg} \X Addresses)
                   /\ \A m \in Messages, a \in Addresses : <<m, a>> \in dsn' =>
                         /\ message[m].to[a] # "delivered" /\ Doomed(m, a, suppression', verified)
                         /\ m = r.msg => r.to[a] # "delivered"
           Noted == SlotNoted(q, dsn, suppression, verified)
<1>1. /\ r \in Run /\ r.msg \in Messages /\ SlotNoted(r, dsn, suppression, verified)
      /\ r.pc \in {"suppress", "notify"} => r.cur \in Addresses
      /\ SlotWalk(r, message[r.msg])
  BY TypeInvParts DEF RunOK, SlotOK, NotedInv, DeliveryInv, WalkInv
<1>2. ASSUME NEW a \in Addresses, <<r.msg, a>> \in dsn
      PROVE  /\ message[r.msg].to[a] # "delivered" /\ Doomed(r.msg, a, suppression, verified)
             /\ r.to[a] # "delivered" /\ r.results[a] # "delivered" /\ a \notin r.todo \cup r.group
             /\ r.pc \in {"raw", "suppressions"} => a \in suppression
  BY <1>1, <1>2 DEF NotedInv, SlotNoted, Says
<1>3. ASSUME UNCHANGED <<suppression, dsn>>, Noted
      PROVE  Good /\ SlotNoted(q, dsn', suppression', verified)
  BY <1>2, <1>3 DEF NotedInv
<1>4. ASSUME q = Idle PROVE Noted
  BY <1>4 DEF SlotNoted, Idle
<1>5. ASSUME Goes(q, r) PROVE Noted
  BY <1>1, <1>5 DEF SlotNoted, Goes, Same, Says
<1>6. ASSUME Begins(q, r) PROVE Noted
  <2>1. ASSUME NEW a \in Addresses, <<r.msg, a>> \in dsn, FromDomain[r.msg] \in verified
        PROVE  a \in suppression
    BY <1>2, <2>1 DEF Doomed
  <2> QED
    BY <1>1, <1>2, <1>6, <2>1 DEF SlotNoted, Begins, Same, Says
<1>7. ASSUME Judges(q, r) PROVE Noted
  <2>1. q.pc = "apply" /\ q.msg = r.msg /\ q.suppress = r.suppress /\ q.to = r.to /\ q.group = r.group
    BY <1>7 DEF Judges
  <2>2. ASSUME NEW a \in Addresses, <<r.msg, a>> \in dsn
        PROVE  ~Says(q, a) /\ a \notin q.todo \cup q.group
    BY <1>2, <1>7, <2>1, <2>2 DEF Judges, Says
  <2>3. ASSUME NEW a \in Addresses, q.results[a] = "bounced"
        PROVE  Doomed(r.msg, a, suppression, verified)
    BY <1>7, <2>3 DEF Judges, Doomed
  <2> QED
    BY <1>1, <2>1, <2>2, <2>3 DEF SlotNoted
<1>8. ASSUME AppliesOne(q, r) PROVE Noted
  <2>1. /\ q.pc \in {"suppress", "notify", "record"} /\ q.msg = r.msg /\ q.suppress = r.suppress
        /\ q.todo = r.todo /\ q.group = r.group /\ q.cur \in Addresses
        /\ q.pc \in {"suppress", "notify"} => r.results[q.cur] = "bounced" /\ (q.pc = "suppress" <=> r.suppress)
    BY <1>8 DEF AppliesOne
  <2>2. \A a \in Addresses : /\ q.to[a] = IF a = q.cur THEN r.results[a] ELSE r.to[a]
                             /\ q.results[a] = IF a = q.cur THEN "none" ELSE r.results[a]
    BY <1>1, <1>8 DEF AppliesOne, Run
  <2>3. ASSUME NEW a \in Addresses, <<r.msg, a>> \in dsn
        PROVE  ~Says(q, a) /\ a \notin q.todo \cup q.group
    BY <1>2, <2>1, <2>2, <2>3 DEF Says
  <2>4. q.pc = "notify" => Doomed(r.msg, q.cur, suppression, verified)
    BY <1>1, <2>1 DEF SlotNoted
  <2>5. ~r.suppress => \A a \in Addresses : q.results[a] = "bounced" => Doomed(r.msg, a, suppression, verified)
    BY <1>1, <2>2 DEF SlotNoted
  <2> QED
    BY <1>1, <2>1, <2>2, <2>3, <2>4, <2>5 DEF SlotNoted
<1>9. ASSUME TakesUp(q, r) PROVE Noted
  <2>1. ASSUME NEW a \in Addresses, <<r.msg, a>> \in dsn
        PROVE  ~Says(q, a) /\ a \notin q.todo \cup q.group
    BY <1>2, <1>9, <2>1 DEF TakesUp, Says
  <2> QED
    BY <1>9, <2>1 DEF SlotNoted, TakesUp
<1>10. ASSUME Exhausts(q, r) PROVE Noted
  <2>1. ASSUME NEW a \in Addresses, <<r.msg, a>> \in dsn
        PROVE  ~Says(q, a) /\ a \notin q.todo \cup q.group
    BY <1>2, <1>10, <2>1 DEF Exhausts, Says
  <2>2. \A a \in Addresses : q.results[a] # "bounced"
    BY <1>10 DEF Exhausts
  <2> QED
    BY <1>1, <1>10, <2>1, <2>2 DEF SlotNoted, Exhausts
<1>11. ASSUME Hears(q, r) PROVE Noted
  <2>1. /\ q.pc = "apply" /\ q.msg = r.msg /\ q.suppress = r.suppress /\ q.to = r.to /\ q.todo = r.todo
        /\ q.group = {} /\ \A a \in Addresses : q.results[a] # "none" => a \in r.group
    BY <1>11 DEF Hears
  <2>2. ASSUME NEW a \in Addresses, <<r.msg, a>> \in dsn
        PROVE  ~Says(q, a) /\ a \notin q.todo \cup q.group
    BY <1>2, <2>1, <2>2 DEF Says
  <2>3. ~r.suppress => \A a \in Addresses : q.results[a] # "bounced"
    BY <1>1, <2>1 DEF SlotNoted
  <2> QED
    BY <2>1, <2>2, <2>3 DEF SlotNoted
<1>12. ASSUME r.pc = "suppress", q.pc = "notify", Same(q, r), q.cur = r.cur,
              suppression' = suppression \cup {r.cur}, UNCHANGED dsn
       PROVE  Good /\ SlotNoted(q, dsn', suppression', verified)
  <2>1. \A m, a : Doomed(m, a, suppression, verified) => Doomed(m, a, suppression', verified)
    BY <1>12 DEF Doomed
  <2>2. Good
    BY <1>2, <1>12, <2>1 DEF NotedInv
  <2>3. ASSUME NEW a \in Addresses, <<r.msg, a>> \in dsn
        PROVE  ~Says(q, a) /\ a \notin q.todo \cup q.group
    BY <1>2, <1>12, <2>3 DEF Same, Says
  <2>4. q.to[q.cur] = "bounced" /\ Doomed(q.msg, q.cur, suppression', verified)
    BY <1>1, <1>12 DEF SlotNoted, Same, Doomed
  <2>5. /\ q.group # {} => q.suppress
        /\ ~q.suppress => \A a \in Addresses : q.results[a] = "bounced" => Doomed(q.msg, a, suppression', verified)
    BY <1>1, <1>12, <2>1 DEF SlotNoted, Same
  <2>6. q.msg = r.msg
    BY <1>12 DEF Same
  <2> QED
    BY <1>12, <2>2, <2>3, <2>4, <2>5, <2>6 DEF SlotNoted
<1>13. ASSUME r.pc = "notify", q.pc = "record", Same(q, r), dsn \subseteq dsn',
              dsn' \subseteq dsn \cup {<<r.msg, r.cur>>}, UNCHANGED suppression
       PROVE  Good /\ SlotNoted(q, dsn', suppression', verified)
  <2>1. r.cur \in Addresses /\ r.to[r.cur] = "bounced" /\ Doomed(r.msg, r.cur, suppression, verified)
    BY <1>1, <1>13 DEF SlotNoted
  <2>2. message[r.msg].to[r.cur] # "delivered"
    BY <1>1, <1>13, <2>1 DEF SlotWalk, InStep, Loaded, Walking, NonTerminal
  <2>3. r.results[r.cur] = "none" /\ r.cur \notin r.todo \cup r.group
    BY <1>1, <1>13, <2>1 DEF SlotWalk, Walk, Walking, NonTerminal
  <2>4. ASSUME NEW m \in Messages, NEW a \in Addresses, <<m, a>> \in dsn', <<m, a>> \notin dsn
        PROVE  m = r.msg /\ a = r.cur
    BY <1>13, <2>4
  <2>5. Good
    BY <1>2, <1>13, <2>1, <2>2, <2>4 DEF NotedInv
  <2>6. ASSUME NEW a \in Addresses, <<r.msg, a>> \in dsn'
        PROVE  ~Says(q, a) /\ a \notin q.todo \cup q.group
    BY <1>1, <1>2, <1>13, <2>1, <2>3, <2>4, <2>6 DEF Same, Says
  <2> QED
    BY <1>1, <1>13, <2>5, <2>6 DEF SlotNoted, Same
<1> QED
  BY <1>3, <1>4, <1>5, <1>6, <1>7, <1>8, <1>9, <1>10, <1>11, <1>12, <1>13 DEF SlotForm

(* A slot never touches the sender's domain. *)
LEMMA DomainStays ==
    ASSUME NEW w \in Workers, WorkerStep(w) \/ FaultStep(w)
    PROVE  UNCHANGED <<verified, domainChanges>>
BY DEF WorkerStep, FaultStep, Others, Step, Mishap, FindMessage, SaveStart, CheckDomain, LoadRaw, ReadSuppressions,
   ApplyResult, FailDeferred, Suppress, NotifySender, RecordEvent, NextDomain, MxAccepts, MxRefuses, MxDefers,
   FailUnverified, FinalizeStatus, GiveUp, SaveOutcome, CompleteJob, FailJob, Finish, MxReplyLost, Crash, CallFails,
   LoseLock, storeVars

(* What is noted stays noted of the slots that stand still. *)
LEMMA NotedStays ==
    ASSUME NEW r, NEW notes, NEW more, NEW sup, NEW sup2, NEW ver, SlotNoted(r, notes, sup, ver), sup \subseteq sup2,
           r.pc # "idle" => \A a \in Addresses : <<r.msg, a>> \in more => <<r.msg, a>> \in notes
    PROVE  SlotNoted(r, more, sup2, ver)
BY DEF SlotNoted, Doomed

LEMMA NextNoted ==
    ASSUME MaxDomainChanges <= 1, TypeInv, DeliveryInv, NotedInv, [Next]_vars
    PROVE  NotedInv'
<1>0. run \in [Workers -> Run] /\ dsn \subseteq Messages \X Addresses /\ HoldInv
  BY TypeInvParts DEF DataOK, DeliveryInv
<1>1. CASE /\ UNCHANGED <<run, dsn, suppression, verified, domainChanges>>
           /\ \A m \in Messages : message'[m].to = message[m].to
  BY <1>1 DEF NotedInv
<1>2. ASSUME NEW w \in Workers, WorkerStep(w) \/ FaultStep(w) PROVE NotedInv'
  <2>0. UNCHANGED <<verified, domainChanges>>
    BY <1>2, DomainStays
  <2>1. CASE UNCHANGED <<run, suppression, dsn, refused, message>>
    BY <1>1, <2>0, <2>1
  <2>2. CASE /\ run[w].pc # "idle"
             /\ \E q : Become(w, q) /\ SlotForm(q, run[w])
             /\ \/ UNCHANGED message
                \/ \E m \in Messages : m = run[w].msg /\ message' = [message EXCEPT ![m] = Written(m, run[w])]
    <3>1. PICK q : Become(w, q) /\ SlotForm(q, run[w])
      BY <2>2
    <3>2. /\ suppression \subseteq suppression' /\ dsn' \subseteq dsn \cup ({run[w].msg} \X Addresses)
          /\ \A m \in Messages, a \in Addresses : <<m, a>> \in dsn' =>
                /\ message[m].to[a] # "delivered" /\ Doomed(m, a, suppression', verified)
                /\ m = run[w].msg => run[w].to[a] # "delivered"
          /\ SlotNoted(q, dsn', suppression', verified)
      BY <2>2, <3>1, FormNoted
    <3>3. run' = [run EXCEPT ![w] = q]
      BY <3>1 DEF Become
    <3>4. ASSUME NEW v \in Workers PROVE SlotNoted(run'[v], dsn', suppression', verified)
      <4>1. CASE v = w
        BY <1>0, <3>2, <3>3, <4>1
      <4>2. CASE v # w
        <5>1. run'[v] = run[v] /\ (run[v].pc # "idle" => run[v].msg # run[w].msg)
          BY <1>0, <2>2, <3>3, <4>2, OneSlot
        <5>2. run[v].pc # "idle" => \A a \in Addresses : <<run[v].msg, a>> \in dsn' => <<run[v].msg, a>> \in dsn
          BY <3>2, <5>1
        <5>3. SlotNoted(run[v], dsn, suppression, verified)
          BY DEF NotedInv
        <5>4. SlotNoted(run[v], dsn', suppression', verified)
          BY <3>2, <5>2, <5>3, NotedStays
        <5> QED
          BY <5>1, <5>4
      <4> QED
        BY <4>1, <4>2
    <3>5. ASSUME NEW m \in Messages, NEW a \in Addresses, <<m, a>> \in dsn' PROVE message'[m].to[a] # "delivered"
      BY <2>2, <3>2, <3>5, WrittenTo
    <3> QED
      BY <2>0, <3>2, <3>4, <3>5 DEF NotedInv
  <2> QED
    BY <1>2, <2>1, <2>2, StepForm
<1>3. ASSUME NEW w \in Workers, NEW m \in Messages, TakeJob(w, m), Others PROVE NotedInv'
  <2> DEFINE q == [Idle EXCEPT !.pc = "load", !.msg = m, !.made = job[m].made, !.knew = suppression]
  <2>1. run' = [run EXCEPT ![w] = q] /\ UNCHANGED <<message, suppression, verified, dsn, domainChanges>>
    BY <1>3 DEF TakeJob, Become, Others
  <2>2. SlotNoted(q, dsn, suppression, verified)
    BY DEF SlotNoted, Idle, NoResults, Says
  <2> HIDE DEF q
  <2> QED
    BY <1>0, <2>1, <2>2 DEF NotedInv
<1>4. ASSUME NEW d \in SendingDomains, ChangeDomain(d) PROVE NotedInv'
  <2>1. domainChanges = 0 /\ domainChanges' = 1 /\ UNCHANGED <<message, run, suppression, dsn>>
    BY <1>4, DeliveryAssumption DEF ChangeDomain, TypeInv, TypeOK, processorVars
  <2>2. \A m \in Messages, a \in Addresses : Doomed(m, a, suppression, verified) => a \in suppression
    BY <2>1 DEF NotedInv, Doomed
  <2>3. ASSUME NEW m \in Messages, NEW a \in Addresses, Doomed(m, a, suppression, verified)
        PROVE  Doomed(m, a, suppression, verified')
    BY <2>2, <2>3 DEF Doomed
  <2>4. ASSUME NEW w \in Workers PROVE SlotNoted(run[w], dsn, suppression, verified')
    <3>1. SlotNoted(run[w], dsn, suppression, verified)
      BY DEF NotedInv
    <3>2. /\ run[w].pc # "idle" => run[w].msg \in Messages
          /\ run[w].pc \in {"suppress", "notify"} => run[w].cur \in Addresses
      BY TypeInvParts DEF RunOK, SlotOK
    <3> QED
      BY <2>3, <3>1, <3>2 DEF SlotNoted
  <2> QED
    BY <2>1, <2>3, <2>4 DEF NotedInv
<1>5. CASE RetentionStep
  BY <1>1, <1>5, RetentionOutcomes
  DEF RetentionStep, RetentionNext, SweepStep, FindContent, DeleteRaw, MarkDeleted, FindRecords,
      DeleteLeftovers, DeleteEvents, DeleteMessages, AbortSweep, GrowOld, storeVars, processorVars
<1>6. CASE (\E m \in Messages : ReclaimStep(m)) \/ UNCHANGED vars
  BY <1>1, <1>6 DEF ReclaimStep, ReclaimJob, Others, vars, storeVars, processorVars
<1> QED
  BY <1>2, <1>3, <1>4, <1>5, <1>6 DEF Next, QueueStep

(* A sender told that a recipient bounced never sees it delivered after all *)
(* (processor.ts:66-98): the address was suppressed before, or the sender's *)
(* domain had lost its verification and stays without.                      *)
THEOREM NoticesAreFinal ==
    ASSUME InTime, MaxDomainChanges <= 1
    PROVE  Spec => [](Kept => BounceNoticeIsFinal)
<1>1. Init => NotedInv
  <2> SUFFICES ASSUME Init PROVE NotedInv
    OBVIOUS
  <2>1. dsn = {} /\ \A w \in Workers : run[w] = Idle
    BY DEF Init, ProcessorInit
  <2>2. \A m \in Messages : FromDomain[m] \in verified
    BY DEF Init, StoreInit
  <2>3. SlotNoted(Idle, dsn, suppression, verified)
    BY DEF SlotNoted, Idle
  <2> QED
    BY <2>1, <2>2, <2>3 DEF NotedInv
<1>2. TypeInv /\ (Kept => DeliveryInv) /\ (Kept => NotedInv) /\ [Next]_vars => (Kept => NotedInv)'
  <2> SUFFICES ASSUME TypeInv, Kept => DeliveryInv, Kept => NotedInv, [Next]_vars, Kept' PROVE NotedInv'
    OBVIOUS
  <2> QED
    BY KeptBack, NextNoted
<1>3. NotedInv => BounceNoticeIsFinal
  BY DEF NotedInv, BounceNoticeIsFinal
<1> QED
  BY <1>1, <1>2, <1>3, AlwaysTyped, AlwaysInv, PTL DEF Spec

(* A bounce is real and stays one: on the suppression list, in the sender's *)
(* notice and in the document (processor.ts:59-103).                        *)
THEOREM BouncesStay ==
    ASSUME OnePerDomain, InTime, MaxDomainChanges <= 1
    PROVE  Spec => [](Kept => BouncesAreTrue)
BY SuppressedForGood, NoticesAreFinal, PTL DEF BouncesAreTrue
=============================================================================
