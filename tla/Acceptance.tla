------------------------------ MODULE Acceptance ------------------------------
(***************************************************************************)
(* acceptMessage (accept.ts) with reserveQuota (usage.ts) and allowRate    *)
(* (ratelimit.ts): what happens to a message between DATA and the reply,   *)
(* and what it leaves in the counter, the bucket, the collections and the  *)
(* queue.                                                                  *)
(*                                                                         *)
(* One organization in one month.  A submission is one DATA command; a     *)
(* client that is told to retry uses another.                              *)
(***************************************************************************)
EXTENDS Naturals, FiniteSets

CONSTANTS
    Clients,        \* SMTP sessions
    Submissions,
    NoSubmission,
    Plans,
    NoPlan,
    Quota,          \* monthlyEmailQuota of each plan
    MaxRecipients   \* maxRecipientsPerMessage of each plan

(* plans.ts: one message never needs more than a month's quota. *)
ASSUME AcceptanceAssumption ==
    /\ NoSubmission \notin Submissions /\ NoPlan \notin Plans
    /\ Quota \in [Plans -> Nat]
    /\ MaxRecipients \in [Plans -> Nat \ {0}]
    /\ \A p, q \in Plans : MaxRecipients[p] <= Quota[q]

VARIABLES
    plan,       \* the plan in force
    reply,      \* what the client was told of each submission
    work,       \* the acceptMessage call of each session
    counter,    \* the UsageCounter row of the month
    content,    \* submissions whose raw message is in the bucket
    message,    \* submissions with a message document
    event,      \* submissions with a 'queued' event
    job         \* submissions whose job is in the queue

stores == <<counter, content, message, event, job>>
acceptVars == <<plan, reply, work, stores>>

(* "full" is the 452 of reserveQuota, "refused" every other permanent or    *)
(* size-related reply, "retry" 451; "lost" is a connection that broke.      *)
Replies == {"none", "open", "ok", "refused", "full", "retry", "lost"}

Work == [pc: {"idle", "read", "rate", "reserve", "insert", "update", "store", "create", "post"},
         of: Submissions \cup {NoSubmission},
         size: Nat,  \* the number of recipients
         plan: Plans \cup {NoPlan},  \* as read by getEffectivePlan
         due: SUBSET {"event", "job"}]

Counter == [exists: BOOLEAN, accepted: Nat]

AcceptTypeOK ==
    /\ plan \in Plans
    /\ reply \in [Submissions -> Replies]
    /\ work \in [Clients -> Work]
    /\ counter \in Counter
    /\ content \subseteq Submissions
    /\ message \subseteq Submissions
    /\ event \subseteq Submissions
    /\ job \subseteq Submissions

Idle == [pc |-> "idle", of |-> NoSubmission, size |-> 0, plan |-> NoPlan, due |-> {}]

AcceptInit ==
    /\ plan \in Plans
    /\ reply = [m \in Submissions |-> "none"]
    /\ work = [c \in Clients |-> Idle]
    /\ counter = [exists |-> FALSE, accepted |-> 0]
    /\ content = {} /\ message = {} /\ event = {} /\ job = {}

AtPc(c, pc) == work[c].pc = pc
Size(c) == work[c].size
Goto(c, pc) == work' = [work EXCEPT ![c].pc = pc]

(* The call ends, and the client gets its reply. *)
Reply(c, r) ==
    /\ work' = [work EXCEPT ![c] = Idle]
    /\ reply' = [reply EXCEPT ![work[c].of] = r]
-----------------------------------------------------------------------------
(* The whole message has been received, and names its sender. *)
ReceiveData(c, m, n) ==
    /\ AtPc(c, "idle") /\ reply[m] = "none"
    /\ work' = [work EXCEPT ![c] = [@ EXCEPT !.pc = "read", !.of = m, !.size = n]]
    /\ reply' = [reply EXCEPT ![m] = "open"]
    /\ UNCHANGED <<plan, stores>>

(* resolveSenderIdentity: its From or Sender names nobody, several mailboxes, *)
(* or no address.                                                             *)
RefuseIdentity(c, m) ==
    /\ AtPc(c, "idle") /\ reply[m] = "none"
    /\ reply' = [reply EXCEPT ![m] = "refused"]
    /\ UNCHANGED <<plan, work, stores>>

(* getEffectivePlan, beside the count of the identity's verified domains,   *)
(* whose outcome is left open, then the number of recipients                *)
ReadPlan(c) ==
    /\ AtPc(c, "read")
    /\ \/ /\ Size(c) <= MaxRecipients[plan]
          /\ work' = [work EXCEPT ![c].pc = "rate", ![c].plan = plan]
          /\ UNCHANGED reply
       \/ Reply(c, "refused")
    /\ UNCHANGED <<plan, stores>>

(* allowRate: how many messages this minute has seen is left open. *)
CheckRate(c) ==
    /\ AtPc(c, "rate")
    /\ \/ /\ Goto(c, "reserve")
          /\ UNCHANGED reply
       \/ Reply(c, "retry")
    /\ UNCHANGED <<plan, stores>>
-----------------------------------------------------------------------------
(* The filter accepted <= quota - count of an existing row *)
Fits(c) == /\ counter.exists
           /\ counter.accepted + Size(c) <= Quota[work[c].plan]

(* Mutant: the filter leaves out the count. *)
Take_Unfiltered(c, next) ==
    /\ counter.exists /\ counter.accepted < Quota[work[c].plan]
    /\ counter' = [counter EXCEPT !.accepted = @ + Size(c)]
    /\ Goto(c, next)

(* An update whose filter matches *)
Take(c, next) ==
    /\ Fits(c)
    /\ counter' = [counter EXCEPT !.accepted = @ + Size(c)]
    /\ Goto(c, next)

(* findOneAndUpdate with upsert: it updates a row that fits; it inserts     *)
(* when it finds none; a row that does not fit makes the insert fail on the *)
(* unique index, which sends reserveQuota to its second update.             *)
ReserveQuota(c) ==
    /\ AtPc(c, "reserve")
    /\ \/ Take(c, "store")
       \/ /\ ~counter.exists
          /\ Goto(c, "insert")
          /\ UNCHANGED counter
       \/ /\ counter.exists /\ ~Fits(c)
          /\ Goto(c, "update")
          /\ UNCHANGED counter
    /\ UNCHANGED <<plan, reply, content, message, event, job>>

(* Mutant: a duplicate key taken for a full quota *)
AfterDuplicate_Full(c) == Reply(c, "full")

AfterDuplicate(c) == Goto(c, "update") /\ UNCHANGED reply

(* The insert of the upsert does not look at the quota. *)
InsertCounter(c) ==
    /\ AtPc(c, "insert")
    /\ \/ /\ ~counter.exists
          /\ counter' = [exists |-> TRUE, accepted |-> Size(c)]
          /\ Goto(c, "store")
          /\ UNCHANGED reply
       \/ /\ counter.exists
          /\ AfterDuplicate(c)
          /\ UNCHANGED counter
    /\ UNCHANGED <<plan, content, message, event, job>>

UpdateCounter(c) ==
    /\ AtPc(c, "update")
    /\ \/ /\ Take(c, "store")
          /\ UNCHANGED reply
       \/ /\ ~Fits(c)
          /\ Reply(c, "full")
          /\ UNCHANGED counter
    /\ UNCHANGED <<plan, content, message, event, job>>

(* The delivery worker's incrementUsage creates the month's row too. *)
WorkerCounts ==
    /\ ~counter.exists
    /\ counter' = [exists |-> TRUE, accepted |-> 0]
    /\ UNCHANGED <<plan, reply, work, content, message, event, job>>
-----------------------------------------------------------------------------
StoreRaw(c) ==
    /\ AtPc(c, "store")
    /\ content' = content \cup {work[c].of}
    /\ work' = [work EXCEPT ![c].pc = "create", ![c].due = {"event", "job"}]
    /\ UNCHANGED <<plan, reply, counter, message, event, job>>

CreateMessage(c) ==
    /\ AtPc(c, "create")
    /\ message' = message \cup {work[c].of}
    /\ Goto(c, "post")
    /\ UNCHANGED <<plan, reply, counter, content, event, job>>

MayPost(c) == AtPc(c, "post")

(* The two calls of the last Promise.all, in any order *)
CreateEvent(c) ==
    /\ MayPost(c) /\ "event" \in work[c].due
    /\ event' = event \cup {work[c].of}
    /\ work' = [work EXCEPT ![c].due = @ \ {"event"}]
    /\ UNCHANGED <<plan, reply, counter, content, message, job>>

Enqueue(c) ==
    /\ MayPost(c) /\ "job" \in work[c].due
    /\ job' = job \cup {work[c].of}
    /\ work' = [work EXCEPT ![c].due = @ \ {"job"}]
    /\ UNCHANGED <<plan, reply, counter, content, message, event>>

(* Mutant: the reply does not wait for the queue. *)
Posted_Unqueued(c) == AtPc(c, "post") /\ "event" \notin work[c].due

Posted(c) == AtPc(c, "post") /\ work[c].due = {}

(* 250, unless the client has been told to retry *)
Accept(c) ==
    /\ Posted(c)
    /\ Reply(c, IF reply[work[c].of] = "open" THEN "ok" ELSE reply[work[c].of])
    /\ UNCHANGED <<plan, stores>>

(* An awaited call rejects: 451. *)
Rejects(c) ==
    /\ work[c].pc \notin {"idle", "post"}
    /\ Reply(c, "retry")
    /\ UNCHANGED <<plan, stores>>

(* One call of the Promise.all rejects: 451 at once, the other goes on. *)
PostRejects(c, w) ==
    /\ AtPc(c, "post") /\ w \in work[c].due
    /\ work' = [work EXCEPT ![c].due = @ \ {w}]
    /\ reply' = [reply EXCEPT ![work[c].of] = "retry"]
    /\ UNCHANGED <<plan, stores>>

(* A payment, or the end of a paid period *)
ChangePlan(p) ==
    /\ plan # p
    /\ plan' = p
    /\ UNCHANGED <<reply, work, stores>>

(* The process dies; what it has written stays. *)
AcceptCrash ==
    /\ work' = [c \in Clients |-> Idle]
    /\ reply' = [m \in Submissions |-> IF reply[m] = "open" THEN "lost" ELSE reply[m]]
    /\ UNCHANGED <<plan, stores>>

AcceptStep(c) ==
    \/ ReadPlan(c) \/ CheckRate(c)
    \/ ReserveQuota(c) \/ InsertCounter(c) \/ UpdateCounter(c)
    \/ StoreRaw(c) \/ CreateMessage(c) \/ CreateEvent(c) \/ Enqueue(c) \/ Accept(c)
=============================================================================
