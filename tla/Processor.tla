------------------------------ MODULE Processor ------------------------------
(***************************************************************************)
(* processDelivery (processor.ts) and deliverToDomain (delivery.ts): what  *)
(* a job slot of the worker does with one delivery job.  Every action is   *)
(* the code between two awaits; the document is loaded once, changed in    *)
(* memory and written back by save(), which sends the changed paths only.  *)
(***************************************************************************)
EXTENDS MailStore

CONSTANTS
    NoMessage,   \* the message of an idle slot
    NoAddress,   \* no recipient
    MaxTargets,  \* MAX_TARGETS: connection attempts one domain gets
    FaultKinds,  \* "crash", "error", "stall", "lost"
    MaxFaults    \* MaxFaults[k]: bound on the faults of kind k

ASSUME ProcessorAssumption ==
    /\ NoMessage \notin Messages
    /\ NoAddress \notin Addresses
    /\ MaxTargets \in Nat
    /\ FaultKinds = {"crash", "error", "stall", "lost"}
    /\ MaxFaults \in [FaultKinds -> Nat]

VARIABLES
    run,     \* what each slot is doing
    inbox,   \* inbox[m][a]: copies of m an MX has accepted for a
    refused, \* addresses an MX has refused permanently, with a 5xx reply
    dsn,     \* failure notices sent, as <<message, address>>
    faults   \* faults so far, by kind

processorVars == <<run, inbox, refused, dsn, faults>>

(* The phases in which applyResult and the retry limit walk the recipients *)
Phase == {"unverified", "send", "exhaust"}

PC == {"idle", "load", "start", "domain", "raw", "suppressions", "apply",
       "suppress", "notify", "record", "deliver", "save", "throw", "ack"}

Outcome == {"none", "delivered", "deferred", "bounced", "failed"}

Run == [pc: PC,
        msg: Messages \cup {NoMessage},
        made: 0 .. MaxAttempts,              \* job.attemptsMade when taken
        status: NonTerminal \cup Terminal,   \* the document in memory ...
        to: [Addresses -> RecipientStatus],
        touched: BOOLEAN,                    \* ... and the paths save() sends
        dirty: SUBSET Addresses,
        results: [Addresses -> Outcome],     \* results still to apply
        cur: Addresses \cup {NoAddress},     \* the one applyResult is at
        suppress: BOOLEAN,                   \* its opts.suppress
        todo: SUBSET Addresses,              \* deliverable, not yet tried
        group: SUBSET Addresses,             \* recipients of this domain
        targets: 0 .. MaxTargets,            \* MX targets left for it
        phase: Phase,
        knew: SUBSET Addresses]              \* history: suppressed when taken

NoResults == [a \in Addresses |-> "none"]

Idle == [pc |-> "idle", msg |-> NoMessage, made |-> 0,
         status |-> "queued", to |-> [a \in Addresses |-> "absent"],
         touched |-> FALSE, dirty |-> {}, results |-> NoResults,
         cur |-> NoAddress, suppress |-> FALSE, todo |-> {}, group |-> {},
         targets |-> 0, phase |-> "send", knew |-> {}]

ProcessorTypeOK ==
    /\ run \in [Workers -> Run]
    /\ inbox \in [Messages -> [Addresses -> Nat]]
    /\ refused \subseteq Addresses
    /\ dsn \subseteq Messages \X Addresses
    /\ faults \in [FaultKinds -> Nat]

ProcessorInit ==
    /\ run = [w \in Workers |-> Idle]
    /\ inbox = [m \in Messages |-> [a \in Addresses |-> 0]]
    /\ refused = {}
    /\ dsn = {}
    /\ faults = [k \in FaultKinds |-> 0]
-----------------------------------------------------------------------------
At(w, pc) == run[w].pc = pc
Become(w, r) == run' = [run EXCEPT ![w] = r]
Goto(w, pc) == Become(w, [run[w] EXCEPT !.pc = pc])

(* Mutant: a retry takes up every recipient again. *)
Pending_Everyone(r) == {a \in Addresses : r.to[a] # "absent"}

Pending(r) == {a \in Addresses : r.to[a] \in NonTerminal}
Having(r, s) == {a \in Addresses : r.to[a] = s}
Unapplied(r) == {a \in Addresses : r.results[a] # "none"}

ResultFor(A, outcome) == [a \in Addresses |-> IF a \in A THEN outcome ELSE "none"]

Fault(k) == /\ faults[k] < MaxFaults[k]
            /\ faults' = [faults EXCEPT ![k] = @ + 1]

(* message.save(): $set of the modified paths; it throws if the document is *)
(* gone.                                                                    *)
Written(m, r) ==
    [message[m] EXCEPT
        !.status = IF r.touched THEN r.status ELSE @,
        !.to = [a \in Addresses |-> IF a \in r.dirty THEN r.to[a] ELSE @[a]]]

SaveThen(w, pc) ==
    LET r == run[w] m == r.msg IN
    \/ /\ message[m].exists
       /\ message' = [message EXCEPT ![m] = Written(m, r)]
       /\ Become(w, [r EXCEPT !.pc = pc, !.touched = FALSE, !.dirty = {}])
    \/ /\ ~message[m].exists
       /\ Goto(w, "throw")
       /\ UNCHANGED message
-----------------------------------------------------------------------------
(* The slot takes a waiting job. *)
TakeJob(w, m) ==
    /\ At(w, "idle")
    /\ job[m].state = "waiting"
    /\ job' = [job EXCEPT ![m] = [@ EXCEPT !.state = "active", !.owner = w]]
    /\ Become(w, [Idle EXCEPT !.pc = "load", !.msg = m, !.made = job[m].made,
                              !.knew = suppression])
    /\ UNCHANGED <<message, raw, events, suppression, usage, verified,
                   inbox, refused, dsn, faults>>

(* Mutant: the early return on a finished message is missing. *)
Unfinished_Exists(doc) == doc.exists

Unfinished(doc) == doc.exists /\ doc.status \in NonTerminal

(* findById; an unknown or finished message completes the job. *)
FindMessage(w) ==
    LET r == run[w] doc == message[r.msg] IN
    /\ At(w, "load")
    /\ \/ /\ Unfinished(doc)
          /\ Become(w, [r EXCEPT !.pc = "start", !.to = doc.to,
                                 !.status = "sending",
                                 !.touched = doc.status # "sending"])
       \/ /\ ~Unfinished(doc)
          /\ Goto(w, "ack")
    /\ UNCHANGED <<storeVars, inbox, refused, dsn, faults>>

SaveStart(w) ==
    /\ At(w, "start")
    /\ SaveThen(w, "domain")
    /\ UNCHANGED <<raw, events, suppression, usage, verified, job,
                   inbox, refused, dsn, faults>>

(* The From domain may have been deleted since the message was accepted:    *)
(* then every open recipient bounces, unsuppressed.                         *)
CheckDomain(w) ==
    LET r == run[w] IN
    /\ At(w, "domain")
    /\ \/ /\ FromDomain[r.msg] \in verified
          /\ Goto(w, "raw")
       \/ /\ FromDomain[r.msg] \notin verified
          /\ Become(w, [r EXCEPT !.pc = "apply", !.phase = "unverified",
                                 !.results = ResultFor(Pending(r), "bounced")])
    /\ UNCHANGED <<storeVars, inbox, refused, dsn, faults>>

LoadRaw(w) ==
    /\ At(w, "raw")
    /\ Goto(w, IF run[w].msg \in raw THEN "suppressions" ELSE "throw")
    /\ UNCHANGED <<storeVars, inbox, refused, dsn, faults>>

(* Mutant: the suppression list is not consulted. *)
Suppressed_None(r) == {}

Suppressed(r) == Pending(r) \cap suppression

(* One read of the suppression list decides who is contacted in this run. *)
ReadSuppressions(w) ==
    LET r == run[w] IN
    /\ At(w, "suppressions")
    /\ Become(w, [r EXCEPT !.pc = "apply", !.phase = "send",
                           !.results = ResultFor(Suppressed(r), "bounced"),
                           !.todo = Pending(r) \ Suppressed(r)])
    /\ UNCHANGED <<storeVars, inbox, refused, dsn, faults>>
-----------------------------------------------------------------------------
(* Mutants: only delivered recipients are counted; hard bounces are not     *)
(* suppressed.                                                              *)
Counted_Delivered(outcome) == outcome = "delivered"
AfterApply_Unsuppressed(r, outcome) == IF outcome = "bounced" THEN "notify" ELSE "record"

Counted(outcome) == outcome # "deferred"

AfterApply(r, outcome) == IF outcome # "bounced" THEN "record"
                          ELSE IF r.suppress THEN "suppress" ELSE "notify"

(* applyResult, up to its next await: the recipient in memory and the usage *)
(* counter.  A result is only ever produced for an open recipient.          *)
ApplyResult(w, a) ==
    LET r == run[w] outcome == r.results[a] IN
    /\ At(w, "apply")
    /\ r.phase # "exhaust"
    /\ outcome # "none"
    /\ r.to[a] \in NonTerminal
    /\ Become(w, [r EXCEPT
          !.pc = AfterApply(r, outcome),
          !.cur = a,
          !.results = [@ EXCEPT ![a] = "none"],
          !.to = [@ EXCEPT ![a] = outcome],
          !.dirty = IF r.to[a] = outcome THEN @ ELSE @ \cup {a}])
    /\ usage' = IF Counted(outcome) THEN [usage EXCEPT ![outcome] = @ + 1] ELSE usage
    /\ UNCHANGED <<message, raw, events, suppression, verified, job,
                   inbox, refused, dsn, faults>>

(* A hard bounce puts the address on the suppression list (upsert). *)
Suppress(w) ==
    /\ At(w, "suppress")
    /\ suppression' = suppression \cup {run[w].cur}
    /\ Goto(w, "notify")
    /\ UNCHANGED <<message, raw, events, usage, verified, job,
                   inbox, refused, dsn, faults>>

(* sendBounce, to a MAIL FROM on a verified domain only.  Best effort: a    *)
(* failure to resolve or to send is swallowed.                              *)
NotifySender(w) ==
    LET m == run[w].msg IN
    /\ At(w, "notify")
    /\ \/ /\ EnvelopeDomain[m] \in verified
          /\ dsn' = dsn \cup {<<m, run[w].cur>>}
       \/ UNCHANGED dsn
    /\ Goto(w, "record")
    /\ UNCHANGED <<storeVars, inbox, refused, faults>>

(* recordEvent; the recipient's new status is the type of the event. *)
RecordEvent(w) ==
    LET r == run[w] IN
    /\ At(w, "record")
    /\ events' = events \cup {<<r.msg, r.to[r.cur], r.cur>>}
    /\ Become(w, [r EXCEPT !.pc = "apply", !.cur = NoAddress])
    /\ UNCHANGED <<message, raw, suppression, usage, verified, job,
                   inbox, refused, dsn, faults>>
-----------------------------------------------------------------------------
(* Mutant: an error whose code is 2xx counts as delivered. *)
AfterLastTarget_Delivered == "delivered"

WithoutTarget == "deferred"
AfterLastTarget == "deferred"

StillToTry(r, group) == r.todo \ group

(* The next domain of groupByDomain, with the n targets resolveMxTargets    *)
(* finds for it; none defers its recipients.                                *)
NextDomain(w, d, n) ==
    LET r == run[w] group == {a \in r.todo : DomainOf[a] = d} IN
    /\ At(w, "apply") /\ r.phase = "send"
    /\ Unapplied(r) = {}
    /\ group # {}
    /\ Become(w, [r EXCEPT
          !.pc = IF n = 0 THEN "apply" ELSE "deliver",
          !.suppress = TRUE,
          !.todo = StillToTry(r, group),
          !.group = IF n = 0 THEN {} ELSE group,
          !.results = IF n = 0 THEN ResultFor(group, WithoutTarget) ELSE @,
          !.targets = n])
    /\ UNCHANGED <<storeVars, inbox, refused, dsn, faults>>

Answered(r, results) ==
    [r EXCEPT !.pc = "apply", !.group = {}, !.targets = 0, !.results = results]

Receive(m, A) ==
    inbox' = [inbox EXCEPT ![m] = [a \in Addresses |-> IF a \in A THEN @[a] + 1 ELSE @[a]]]

(* sendMail resolves: the MX took the message for all but the recipients    *)
(* whose RCPT it rejected, those in `perm` for good, the others for now.    *)
MxAccepts(w, rejected, perm) ==
    LET r == run[w] taken == r.group \ rejected IN
    /\ At(w, "deliver")
    /\ rejected \subseteq r.group /\ taken # {}
    /\ perm \subseteq rejected
    /\ Receive(r.msg, taken)
    /\ refused' = refused \cup perm
    /\ Become(w, Answered(r, [a \in Addresses |->
                    IF a \in rejected THEN "bounced"
                    ELSE IF a \in taken THEN "delivered" ELSE "none"]))
    /\ UNCHANGED <<storeVars, dsn, faults>>

(* sendMail rejects with a 5xx: every recipient of the domain bounces. *)
MxRefuses(w, perm) ==
    LET r == run[w] IN
    /\ At(w, "deliver")
    /\ perm \subseteq r.group /\ perm # {}
    /\ refused' = refused \cup perm
    /\ Become(w, Answered(r, ResultFor(r.group, "bounced")))
    /\ UNCHANGED <<storeVars, inbox, dsn, faults>>

(* A transient failure moves on to the next target; after the last one the  *)
(* recipients are deferred.                                                 *)
NextTarget(w) ==
    LET r == run[w] IN
    Become(w, IF r.targets > 1 THEN [r EXCEPT !.targets = @ - 1]
              ELSE Answered(r, ResultFor(r.group, AfterLastTarget)))

MxDefers(w) ==
    /\ At(w, "deliver")
    /\ NextTarget(w)
    /\ UNCHANGED <<storeVars, inbox, refused, dsn, faults>>

(* The MX takes the message, but its reply never arrives: to the code a     *)
(* transient failure.                                                       *)
MxReplyLost(w) ==
    /\ At(w, "deliver")
    /\ Fault("lost")
    /\ Receive(run[w].msg, run[w].group)
    /\ NextTarget(w)
    /\ UNCHANGED <<storeVars, refused, dsn>>
-----------------------------------------------------------------------------
(* finalizeStatus and the tail of the "no longer verified" branch *)
Settled(r) == [r EXCEPT !.pc = "save", !.touched = TRUE]

Walked(w, phase) ==
    /\ At(w, "apply")
    /\ run[w].phase = phase
    /\ Unapplied(run[w]) = {}
    /\ run[w].todo = {}

FailUnverified(w) ==
    /\ Walked(w, "unverified")
    /\ Become(w, [Settled(run[w]) EXCEPT !.status = "failed"])
    /\ UNCHANGED <<storeVars, inbox, refused, dsn, faults>>

LastAttempt(r) == r.made + 1 >= MaxAttempts

(* Mutant: one delivered recipient closes the message. *)
StillDeferred_None(r) == IF Having(r, "delivered") # {} THEN {} ELSE Having(r, "deferred")

StillDeferred(r) == Having(r, "deferred")

FinalizeStatus(w) ==
    LET r == run[w] deferred == StillDeferred(r) IN
    /\ Walked(w, "send")
    /\ \/ /\ deferred = {}
          /\ Become(w, [Settled(r) EXCEPT
                !.status = IF Having(r, "delivered") # {} THEN "delivered" ELSE "bounced"])
       \/ /\ deferred # {} /\ LastAttempt(r)
          /\ Become(w, [r EXCEPT !.phase = "exhaust",
                                 !.results = ResultFor(deferred, "failed")])
       \/ /\ deferred # {} /\ ~LastAttempt(r)
          /\ Become(w, [Settled(r) EXCEPT !.status = "deferred"])
    /\ UNCHANGED <<storeVars, inbox, refused, dsn, faults>>

(* Retry limit: the recipients still deferred fail, one by one, *)
FailDeferred(w, a) ==
    LET r == run[w] IN
    /\ At(w, "apply")
    /\ r.phase = "exhaust"
    /\ r.results[a] = "failed"
    /\ Become(w, [r EXCEPT !.pc = "record", !.cur = a,
                           !.results = [@ EXCEPT ![a] = "none"],
                           !.to = [@ EXCEPT ![a] = "failed"],
                           !.dirty = @ \cup {a}])
    /\ usage' = [usage EXCEPT !["failed"] = @ + 1]
    /\ UNCHANGED <<message, raw, events, suppression, verified, job,
                   inbox, refused, dsn, faults>>

(* and the message with them, unless some recipient got it. *)
GiveUp(w) ==
    /\ Walked(w, "exhaust")
    /\ Become(w, [Settled(run[w]) EXCEPT
          !.status = IF Having(run[w], "delivered") # {} THEN "delivered" ELSE "failed"])
    /\ UNCHANGED <<storeVars, inbox, refused, dsn, faults>>

(* Mutant: a deferred message does not throw. *)
AfterSave_Ack(r) == "ack"

AfterSave(r) == IF r.status = "deferred" THEN "throw" ELSE "ack"

(* The final save(); a deferred message then throws, for BullMQ to retry. *)
SaveOutcome(w) ==
    /\ At(w, "save")
    /\ SaveThen(w, AfterSave(run[w]))
    /\ UNCHANGED <<raw, events, suppression, usage, verified, job,
                   inbox, refused, dsn, faults>>
-----------------------------------------------------------------------------
(* BullMQ takes the slot's result, if the slot still holds the job's lock. *)
Finish(w, j) ==
    LET m == run[w].msg IN
    /\ Become(w, Idle)
    /\ job' = IF job[m].owner = w THEN [job EXCEPT ![m] = j] ELSE job
    /\ UNCHANGED <<message, raw, events, suppression, usage, verified,
                   inbox, refused, dsn, faults>>

CompleteJob(w) == At(w, "ack") /\ Finish(w, Completed(job[run[w].msg]))

FailJob(w) == At(w, "throw") /\ Finish(w, Retried(job[run[w].msg]))
-----------------------------------------------------------------------------
(* Faults.  The worker process dies between two awaits; the job stays       *)
(* active with a lock nobody renews.                                        *)
Crash(w) ==
    /\ ~At(w, "idle")
    /\ Fault("crash")
    /\ LET m == run[w].msg IN
       job' = IF job[m].owner = w THEN [job EXCEPT ![m] = [@ EXCEPT !.owner = NoWorker]]
             ELSE job
    /\ Become(w, Idle)
    /\ UNCHANGED <<message, raw, events, suppression, usage, verified,
                   inbox, refused, dsn>>

(* An awaited Mongo or GridFS call rejects, and processDelivery with it. *)
CallFails(w) ==
    /\ \/ run[w].pc \in {"load", "start", "domain", "raw", "suppressions",
                         "suppress", "notify", "record", "save"}
       \/ At(w, "apply") /\ Unapplied(run[w]) # {}
    /\ Fault("error")
    /\ Goto(w, "throw")
    /\ UNCHANGED <<storeVars, inbox, refused, dsn>>

(* A slot that is alive fails to renew its lock in time (a blocked event    *)
(* loop, a slow Redis): it goes on working while the job is given back.     *)
LoseLock(w, m) ==
    /\ job[m].state = "active" /\ job[m].owner = w
    /\ Fault("stall")
    /\ job' = [job EXCEPT ![m] = Reclaimed(@)]
    /\ UNCHANGED <<message, raw, events, suppression, usage, verified,
                   run, inbox, refused, dsn>>

(* The stalled-job check finds a job whose slot is gone. *)
ReclaimJob(m) ==
    /\ job[m].state = "active" /\ job[m].owner = NoWorker
    /\ job' = [job EXCEPT ![m] = Reclaimed(@)]
    /\ UNCHANGED <<message, raw, events, suppression, usage, verified, processorVars>>
-----------------------------------------------------------------------------
(* What a slot does on its own, and what may befall it *)
Step(w) ==
    \/ FindMessage(w) \/ SaveStart(w) \/ CheckDomain(w) \/ LoadRaw(w)
    \/ ReadSuppressions(w)
    \/ \E a \in Addresses : ApplyResult(w, a) \/ FailDeferred(w, a)
    \/ Suppress(w) \/ NotifySender(w) \/ RecordEvent(w)
    \/ \E a \in run[w].todo, n \in 0 .. MaxTargets : NextDomain(w, DomainOf[a], n)
    \/ \E rejected \in SUBSET run[w].group :
          \/ \E perm \in SUBSET rejected : MxAccepts(w, rejected, perm)
          \/ MxRefuses(w, rejected)
    \/ MxDefers(w)
    \/ FailUnverified(w) \/ FinalizeStatus(w) \/ GiveUp(w) \/ SaveOutcome(w)
    \/ CompleteJob(w) \/ FailJob(w)

Mishap(w) ==
    \/ MxReplyLost(w) \/ Crash(w) \/ CallFails(w)
    \/ \E m \in Messages : LoseLock(w, m)
=============================================================================
