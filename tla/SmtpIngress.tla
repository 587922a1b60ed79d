------------------------------ MODULE SmtpIngress ------------------------------
(***************************************************************************)
(* The SMTP ingress (server.ts): sessions log in through the guard and     *)
(* then submit messages, over one process that may die and start again,    *)
(* while plans change and the delivery worker counts in the same row.      *)
(***************************************************************************)
EXTENDS AuthGuard, Acceptance

CONSTANT MaxSize    \* recipients of one envelope, 200 in onRcptTo

ASSUME IngressAssumption == Clients = Sessions /\ MaxSize \in Nat \ {0}

vars == <<guardVars, acceptVars, faults>>

TypeOK == GuardTypeOK /\ AcceptTypeOK

Init == GuardInit /\ AcceptInit

(* onMailFrom and onData: session.user must be set; it stays set when the   *)
(* credential is removed.                                                   *)
Submit(s) ==
    /\ login[s] = "in"
    /\ \E m \in Submissions : RefuseIdentity(s, m) \/ \E n \in 1..MaxSize : ReceiveData(s, m, n)

CallFails(s) ==
    /\ Fault("reject")
    /\ \/ Rejects(s)
       \/ \E w \in {"event", "job"} : PostRejects(s, w)

Crash == Fault("crash") /\ GuardCrash /\ AcceptCrash

Serve(s) ==
    \/ LoginStep(s) /\ UNCHANGED acceptVars
    \/ AcceptStep(s) /\ UNCHANGED <<guardVars, faults>>

Next ==
    \/ \E s \in Sessions :
          \/ (\E ip \in Ips \cup {NoIp} : Attempt(s, ip)) /\ UNCHANGED acceptVars
          \/ Submit(s) /\ UNCHANGED <<guardVars, faults>>
          \/ Serve(s)
          \/ CallFails(s) /\ UNCHANGED guardVars
    \/ WindowPasses /\ UNCHANGED acceptVars
    \/ (WorkerCounts \/ \E p \in Plans : ChangePlan(p)) /\ UNCHANGED <<guardVars, faults>>
    \/ Crash

Spec == Init /\ [][Next]_vars

(* Drivers time out: an awaited call of a login or of a message ends, one   *)
(* way or the other.  Nothing is assumed of clients, plans and faults.      *)
FairSpec == Spec /\ \A s \in Sessions : WF_vars(Serve(s))
-----------------------------------------------------------------------------
(* A client that was told 250 can forget the message: its content, record,  *)
(* event and job are stored (accept.ts:110-131), whatever failed for other  *)
(* messages and in earlier tries.                                           *)
AcknowledgedIsStored ==
    \A m \in Submissions :
        reply[m] = "ok" => m \in content \cap message \cap event \cap job

(* The worker never finds a job without its record, or a record without its *)
(* content, however early it takes the job and wherever acceptMessage fails *)
(* (MailStore.StoreInit starts from this).                                  *)
JobHasMessage == job \subseteq message /\ message \subseteq content

(* What acceptMessage stores is whole where it counts: behind a 250, and    *)
(* behind a job.                                                            *)
NothingHalfStored == AcknowledgedIsStored /\ JobHasMessage

(* The counter moves by one message at a time, within the quota its sender  *)
(* was checked against, and a sender is refused for the quota only when it  *)
(* is used up, with first reservations of the month racing each other and   *)
(* the worker (usage.ts:56-78).                                             *)
QuotaExact ==
    [][/\ counter'.accepted # counter.accepted =>
             \E s \in Sessions :
                /\ work[s].pc \in {"reserve", "insert", "update"}
                /\ counter'.accepted = counter.accepted + Size(s)
                /\ counter'.accepted <= Quota[work[s].plan]
       /\ \A s \in Sessions :
             /\ work[s].of # NoSubmission
             /\ reply[work[s].of] = "open"
             /\ reply'[work[s].of] = "full"
             => counter.accepted + Size(s) > Quota[work[s].plan]]_vars

Busy(s) == login[s] \notin {"out", "in"} \/ ~AtPc(s, "idle")

(* Every login and every message is answered, unless the process dies: the  *)
(* line for a slot moves on, and no wait of one session depends on another  *)
(* that waits itself.                                                       *)
EveryoneAnswered == \A s \in Sessions : Busy(s) ~> ~Busy(s)

(* A submission is charged from its reservation until it is answered. *)
Charged == {work[s].of : s \in {t \in Sessions : work[t].pc \in {"store", "create", "post"}}}

Promise == INSTANCE MessagePromise WITH
    status <- [m \in Submissions |->
                 CASE reply[m] = "none" -> "new"
                   [] reply[m] = "open" -> IF m \in Charged THEN "charged" ELSE "open"
                   [] reply[m] = "ok" -> "accepted"
                   [] OTHER -> "refused"],
    used <- counter.accepted

KeepsPromise == Promise!Spec
=============================================================================
