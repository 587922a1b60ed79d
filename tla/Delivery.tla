------------------------------- MODULE Delivery -------------------------------
(***************************************************************************)
(* The delivery side of the service: the job slots of the workers, the     *)
(* retention job beside them, the customer who deletes or re-verifies a    *)
(* sending domain, and the passing of time, over the store they share.     *)
(***************************************************************************)
EXTENDS Processor, Retention

CONSTANT MaxDomainChanges  \* bound on changes of a domain's verification

ASSUME DeliveryAssumption == MaxDomainChanges \in Nat

VARIABLE domainChanges

vars == <<storeVars, processorVars, retentionVars, domainChanges>>

TypeOK == /\ StoreTypeOK
          /\ ProcessorTypeOK
          /\ RetentionTypeOK
          /\ domainChanges \in 0 .. MaxDomainChanges

Init == /\ StoreInit /\ ProcessorInit /\ RetentionInit
        /\ domainChanges = 0

(* A verified domain is deleted, and may be added again; a domain passes its *)
(* DNS check (domains/routes.ts).                                            *)
ChangeDomain(d) ==
    /\ domainChanges < MaxDomainChanges
    /\ domainChanges' = domainChanges + 1
    /\ verified' = IF d \in verified THEN verified \ {d} ELSE verified \cup {d}
    /\ UNCHANGED <<message, raw, events, suppression, usage, job,
                   processorVars, retentionVars>>

Others == UNCHANGED <<retentionVars, domainChanges>>

WorkerStep(w) == Step(w) /\ Others
QueueStep == (\E w \in Workers, m \in Messages : TakeJob(w, m)) /\ Others
ReclaimStep(m) == ReclaimJob(m) /\ Others
FaultStep(w) == Mishap(w) /\ Others
RetentionStep == RetentionNext /\ UNCHANGED <<processorVars, domainChanges>>

Next == \/ QueueStep
        \/ \E w \in Workers : WorkerStep(w) \/ FaultStep(w)
        \/ \E m \in Messages : ReclaimStep(m)
        \/ RetentionStep
        \/ \E d \in SendingDomains : ChangeDomain(d)

Spec == Init /\ [][Next]_vars

(* A slot goes on with its job, an idle one takes a waiting job, the stalled *)
(* check and the hourly retention run, and time passes.  Nothing is assumed  *)
(* of the faults, of the customer or of what an MX answers.                  *)
Fairness ==
    /\ \A w \in Workers : WF_vars(WorkerStep(w))
    /\ WF_vars(QueueStep)
    /\ \A m \in Messages : WF_vars(ReclaimStep(m))
    /\ WF_vars(SweepStep /\ UNCHANGED <<processorVars, domainChanges>>)
    /\ \A m \in Messages : WF_vars(GrowOld(m) /\ UNCHANGED <<processorVars, domainChanges>>)

FairSpec == Spec /\ Fairness
-----------------------------------------------------------------------------
Closed(m) == message[m].status \in Terminal
FaultCount == faults["crash"] + faults["error"] + faults["stall"] + faults["lost"]
AllIdle == \A w \in Workers : At(w, "idle")
Recorded(s) == Cardinality({p \in Messages \X Addresses : message[p[1]].to[p[2]] = s})

(* A recipient is only recorded as delivered when an MX has accepted a copy *)
(* for it (applyResult, processor.ts:59): no crash, retry or stale save     *)
(* reports mail as delivered that nobody received.                          *)
DeliveredWasAccepted ==
    \A m \in Messages, a \in Addresses :
        message[m].to[a] = "delivered" => inbox[m][a] > 0

(* Each extra copy of a message is paid for by a fault: without crashes,    *)
(* failed calls, lost locks and lost replies a recipient gets at most one   *)
(* copy over all attempts (processor.ts:141, the pending filter).           *)
CopiesBounded ==
    \A m \in Messages, a \in Addresses : inbox[m][a] <= 1 + FaultCount

(* A message that closes as delivered or bounced has no open recipient, and *)
(* is delivered exactly if some recipient got it (finalizeStatus).          *)
ClosedIsSettled ==
    \A m \in Messages :
        message[m].status \in {"delivered", "bounced"} =>
            /\ \A a \in To[m] : message[m].to[a] \in Terminal
            /\ (message[m].status = "delivered") <=>
                  (\E a \in To[m] : message[m].to[a] = "delivered")

(* Only a permanent refusal by an MX puts an address on the suppression     *)
(* list (smtpCodes.ts:8, "4xx / no code -> deferred (transient; retry       *)
(* later)"): true as long as each domain gets one recipient.                *)
SuppressedWasRefused == suppression \subseteq refused

(* A run never contacts an address that was on the suppression list when it *)
(* began, its own message's earlier hard bounces included: the list is      *)
(* written before the document is saved, so a crash does not undo it.       *)
SuppressedNotContacted ==
    \A w \in Workers : At(w, "deliver") => run[w].group \cap run[w].knew = {}

(* A sender told that a recipient bounced never sees it delivered after all *)
(* (applyResult suppresses before it notifies, processor.ts:66-98).         *)
BounceNoticeIsFinal ==
    \A m \in Messages, a \in Addresses :
        <<m, a>> \in dsn => message[m].to[a] # "delivered"

(* A bounce is real and stays one: on the suppression list, in the sender's *)
(* notice and in the document (processor.ts:59-103).                        *)
BouncesAreTrue == SuppressedWasRefused /\ BounceNoticeIsFinal

(* Usage counts every recorded outcome; it may count one more than once     *)
(* after a fault, and is exact when there was none.                         *)
UsageCoversOutcomes ==
    \A s \in Terminal :
        /\ usage[s] >= Recorded(s)
        /\ AllIdle /\ FaultCount = 0 => usage[s] = Recorded(s)

(* Activity shows an event for every final outcome of a recipient. *)
OutcomesHaveEvents ==
    \A m \in Messages, a \in Addresses :
        message[m].exists /\ message[m].to[a] \in Terminal =>
            <<m, message[m].to[a], a>> \in events

(* What the customer is billed for and sees agrees with what the documents  *)
(* say, wherever a run was cut short between counter, event and save        *)
(* (processor.ts:59-103).                                                   *)
OutcomesAccounted == UsageCoversOutcomes /\ OutcomesHaveEvents

(* A job does not end before its message, unless a call failed on the last  *)
(* attempt, the slots died more often than BullMQ forgives, or a slot went  *)
(* on without the job's lock.                                               *)
JobEndsWithMessage ==
    \A m \in Messages :
        /\ job[m].state \in {"completed", "failed"}
        /\ faults["error"] = 0 /\ faults["stall"] = 0
        /\ faults["crash"] <= MaxStalled
        => Closed(m)

(* No file outlives the record that names it, nor its own mark: the content *)
(* is gone before the document says so (retention.ts:53-54, 83-85), however *)
(* a sweep is cut short.                                                    *)
NoOrphanedContent ==
    \A m \in Messages : ~message[m].exists \/ message[m].rawDeleted => m \notin raw

(* The outcome a customer has been shown does not change: neither that of a *)
(* recipient nor that of a message.                                         *)
OutcomesAreFinal ==
    [][\A m \in Messages :
          message'[m].exists =>
             /\ Closed(m) => message'[m].status = message[m].status
             /\ \A a \in Addresses :
                   message[m].to[a] \in Terminal => message'[m].to[a] = message[m].to[a]]_vars

(* Every accepted message reaches a final status, through its job or, if    *)
(* the job was lost or ended early, through retention.                      *)
EventuallyClosed == \A m \in Messages : <>[]Closed(m)

(* retention.ts:15-17: "anything still unfinished is marked failed before   *)
(* its content goes".  True as long as every job has ended by day 7.        *)
UnfinishedKeepsContent ==
    \A m \in Messages : message[m].rawDeleted => Closed(m)
-----------------------------------------------------------------------------
(* The detailed specification implements MessageLifecycle: an outcome is    *)
(* what the saved document says, copies are what the MXs took.              *)
Lifecycle == INSTANCE MessageLifecycle WITH
    status <- [m \in Messages |->
                  IF Closed(m) THEN message[m].status ELSE "open"],
    outcome <- [m \in Messages |-> [a \in Addresses |->
                  IF message[m].to[a] \in Terminal THEN message[m].to[a] ELSE "open"]],
    copies <- inbox,
    removed <- {m \in Messages : ~message[m].exists}

ImplementsLifecycle == Lifecycle!Spec
=============================================================================
