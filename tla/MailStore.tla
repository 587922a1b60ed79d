------------------------------ MODULE MailStore ------------------------------
(***************************************************************************)
(* The state the delivery side of the service shares: the Mongo            *)
(* collections Message, MessageEvent, Suppression, UsageCounter and        *)
(* Domain, the GridFS bucket with the raw MIME, and the BullMQ delivery    *)
(* queue.  Modules Processor and Retention hold the code that works on it, *)
(* module Delivery puts them together.                                     *)
(*                                                                         *)
(* One organization is modelled: every query of the worker is scoped by    *)
(* organizationId.  Replies, timestamps, the DKIM signature and the        *)
(* attempts counter of the document are left out: no code path reads them. *)
(***************************************************************************)
EXTENDS Naturals, FiniteSets

CONSTANTS
    Messages,        \* the Message documents
    Addresses,       \* recipient addresses, already lower-cased
    To,              \* To[m]: the recipients of m
    DomainOf,        \* DomainOf[a]: the part of a after the @
    SendingDomains,  \* domains a customer sends from
    FromDomain,      \* FromDomain[m]: domain of the From header of m
    EnvelopeDomain,  \* EnvelopeDomain[m]: domain of the MAIL FROM of m
    Workers,         \* job slots of the worker processes
    NoWorker,        \* owner of a job nobody works on
    MaxAttempts,     \* attempts of a BullMQ job
    MaxStalled       \* stalls BullMQ forgives before it fails a job

ASSUME StoreAssumption ==
    /\ To \in [Messages -> SUBSET Addresses]
    /\ \A m \in Messages : To[m] # {}
    /\ \A m \in Messages : FromDomain[m] \in SendingDomains
    /\ \A m \in Messages : EnvelopeDomain[m] \in SendingDomains
    /\ MaxAttempts \in Nat \ {0}
    /\ MaxStalled \in Nat
    /\ NoWorker \notin Workers

VARIABLES
    message,      \* the Message collection
    raw,          \* messages whose MIME is in the GridFS bucket
    events,       \* the MessageEvent collection, as <<message, type, address>>
    suppression,  \* addresses on the organization's suppression list
    usage,        \* delivered, bounced and failed of the usage counter
    verified,     \* sending domains whose status is "verified"
    job           \* the delivery job of each message

storeVars == <<message, raw, events, suppression, usage, verified, job>>
-----------------------------------------------------------------------------
NonTerminal == {"queued", "deferred", "sending"}
Terminal == {"delivered", "bounced", "failed"}

(* An address that is no recipient of a message is "absent" from its `to`. *)
RecipientStatus == NonTerminal \cup Terminal \cup {"absent"}

MessageDoc == [exists: BOOLEAN,
               status: NonTerminal \cup Terminal,
               to: [Addresses -> RecipientStatus],
               rawDeleted: BOOLEAN]

EventType == {"delivered", "deferred", "bounced", "failed"}

(* BullMQ: `made` is attemptsMade, `owner` the slot that holds the lock.   *)
(* "none" is a message whose job never reached Redis.                      *)
Job == [state: {"none", "waiting", "active", "completed", "failed"},
        made: 0 .. MaxAttempts,
        stalls: 0 .. MaxStalled,
        owner: Workers \cup {NoWorker}]

StoreTypeOK ==
    /\ message \in [Messages -> MessageDoc]
    /\ raw \subseteq Messages
    /\ events \subseteq Messages \X EventType \X Addresses
    /\ suppression \subseteq Addresses
    /\ usage \in [Terminal -> Nat]
    /\ verified \subseteq SendingDomains
    /\ job \in [Messages -> Job]

(* What acceptMessage leaves behind: a queued document with its MIME, and  *)
(* a job, unless the ingress stopped between the two.                      *)
Accepted(m) == [exists |-> TRUE,
                status |-> "queued",
                to |-> [a \in Addresses |->
                            IF a \in To[m] THEN "queued" ELSE "absent"],
                rawDeleted |-> FALSE]

StoreInit ==
    /\ message = [m \in Messages |-> Accepted(m)]
    /\ raw = Messages
    /\ events = {}
    /\ suppression = {}
    /\ usage = [s \in Terminal |-> 0]
    /\ verified = {FromDomain[m] : m \in Messages}
    /\ \E enqueued \in SUBSET Messages :
          job = [m \in Messages |->
                    [state |-> IF m \in enqueued THEN "waiting" ELSE "none",
                     made |-> 0, stalls |-> 0, owner |-> NoWorker]]
-----------------------------------------------------------------------------
(* BullMQ, as the worker uses it.  A job that throws is retried until      *)
(* MaxAttempts; the result of a slot that lost the lock is dropped.        *)
Completed(j) == [j EXCEPT !.state = "completed", !.owner = NoWorker]

Retried(j) ==
    [j EXCEPT !.state = IF j.made + 1 < MaxAttempts THEN "waiting" ELSE "failed",
              !.made = @ + 1,
              !.owner = NoWorker]

(* The stalled-job check gives the job back, MaxStalled times, then fails it. *)
Reclaimed(j) ==
    IF j.stalls < MaxStalled
    THEN [j EXCEPT !.state = "waiting", !.stalls = @ + 1, !.owner = NoWorker]
    ELSE [j EXCEPT !.state = "failed", !.owner = NoWorker]
=============================================================================
