------------------------------ MODULE Retention ------------------------------
(***************************************************************************)
(* runRetention (retention.ts): the hourly job of the worker that deletes  *)
(* the raw MIME after 7 days and the records after 30.  It reads a batch,  *)
(* then works through it with the values it read.  BATCH (500) is not      *)
(* reached here: a batch is everything that matches.                       *)
(***************************************************************************)
EXTENDS MailStore

CONSTANTS
    MaxAge,     \* how old messages get: 0 fresh, 1 past 7 days, 2 past 30
    InTime,     \* TRUE: a message is only a week old once its job has ended
    MaxAborts   \* bound on runs of the retention job that are cut short

ASSUME RetentionAssumption ==
    MaxAge \in 0 .. 2 /\ InTime \in BOOLEAN /\ MaxAborts \in Nat

VARIABLES
    age,      \* age[m] \in 0 .. MaxAge
    sweep,    \* the state of runRetention
    aborts    \* sweeps cut short so far

retentionVars == <<age, sweep, aborts>>

Sweep == [pc: {"idle", "content", "mark", "records", "events", "purge"},
          batch: SUBSET Messages,       \* documents still to work through
          unfinished: SUBSET Messages,  \* those read with a non-terminal status
          files: SUBSET Messages]       \* those whose file is being deleted

AtRest == [pc |-> "idle", batch |-> {}, unfinished |-> {}, files |-> {}]

RetentionTypeOK == /\ age \in [Messages -> 0 .. MaxAge]
                   /\ sweep \in Sweep
                   /\ aborts \in 0 .. MaxAborts

RetentionInit == /\ age = [m \in Messages |-> 0]
                 /\ sweep = AtRest
                 /\ aborts = 0
-----------------------------------------------------------------------------
JobEnded(m) == job[m].state \notin {"waiting", "active"}

(* Time passes.  "Delivery retries give up within about 17 hours": InTime    *)
(* keeps that promise, without it the queue may have been down for a week.   *)
GrowOld(m) ==
    /\ age[m] < MaxAge
    /\ InTime => JobEnded(m)
    /\ age' = [age EXCEPT ![m] = @ + 1]
    /\ UNCHANGED <<storeVars, sweep, aborts>>

Expired == {m \in Messages : message[m].exists /\ age[m] >= 1 /\ ~message[m].rawDeleted}
Outdated == {m \in Messages : message[m].exists /\ age[m] = 2}

(* The first find() of a sweep. *)
FindContent ==
    /\ sweep.pc = "idle"
    /\ Expired # {}
    /\ sweep' = [AtRest EXCEPT
          !.pc = "content", !.batch = Expired,
          !.unfinished = {m \in Expired : message[m].status \in NonTerminal}]
    /\ UNCHANGED <<storeVars, age, aborts>>

(* Mutant: every error of the bucket is taken for "already gone". *)
RawWithout_ErrorIgnored(M) == raw

RawWithout(M) == raw \ M

(* deleteRaw; a file already gone is fine. *)
DeleteRaw(m) ==
    /\ sweep.pc = "content"
    /\ m \in sweep.batch
    /\ raw' = RawWithout({m})
    /\ sweep' = [sweep EXCEPT !.pc = "mark", !.files = {m}]
    /\ UNCHANGED <<message, events, suppression, usage, verified, job, age, aborts>>

(* Mutants: an unfinished message is left as it is; a finished one fails;   *)
(* updateOne, which does not validate, writes a status the schema lacks.    *)
MarkedStatus_Kept(m) == message[m].status
MarkedStatus_Failed(m) == "failed"
MarkedStatus_Expired(m) == IF m \in sweep.unfinished THEN "expired" ELSE message[m].status

MarkedStatus(m) == IF m \in sweep.unfinished THEN "failed" ELSE message[m].status

(* updateOne, with the status read by find(). *)
MarkDeleted ==
    /\ sweep.pc = "mark"
    /\ \E m \in sweep.files :
          /\ message' = [message EXCEPT ![m] =
                IF ~@.exists THEN @
                ELSE [@ EXCEPT !.rawDeleted = TRUE,
                               !.status = MarkedStatus(m)]]
          /\ sweep' = IF sweep.batch = {m} THEN AtRest
                      ELSE [sweep EXCEPT !.pc = "content", !.batch = @ \ {m}, !.files = {}]
    /\ UNCHANGED <<raw, events, suppression, usage, verified, job, age, aborts>>

(* The second loop, entered when the first finds nothing more. *)
FindRecords ==
    /\ sweep.pc = "idle"
    /\ Expired = {} /\ Outdated # {}
    /\ sweep' = [AtRest EXCEPT !.pc = "records", !.batch = Outdated,
                    !.files = {m \in Outdated : ~message[m].rawDeleted}]
    /\ UNCHANGED <<storeVars, age, aborts>>

DeleteLeftovers ==
    /\ sweep.pc = "records"
    /\ raw' = RawWithout(sweep.files)
    /\ sweep' = [sweep EXCEPT !.pc = "events", !.files = {}]
    /\ UNCHANGED <<message, events, suppression, usage, verified, job, age, aborts>>

DeleteEvents ==
    /\ sweep.pc = "events"
    /\ events' = {e \in events : e[1] \notin sweep.batch}
    /\ sweep' = [sweep EXCEPT !.pc = "purge"]
    /\ UNCHANGED <<message, raw, suppression, usage, verified, job, age, aborts>>

DeleteMessages ==
    /\ sweep.pc = "purge"
    /\ message' = [m \in Messages |->
                      IF m \in sweep.batch THEN [message[m] EXCEPT !.exists = FALSE]
                      ELSE message[m]]
    /\ sweep' = AtRest
    /\ UNCHANGED <<raw, events, suppression, usage, verified, job, age, aborts>>

(* A call of the job rejects or its process stops: the next one starts over. *)
AbortSweep ==
    /\ sweep.pc # "idle"
    /\ aborts < MaxAborts
    /\ aborts' = aborts + 1
    /\ sweep' = AtRest
    /\ UNCHANGED <<storeVars, age>>

SweepStep ==
    \/ FindContent \/ (\E m \in Messages : DeleteRaw(m)) \/ MarkDeleted
    \/ FindRecords \/ DeleteLeftovers \/ DeleteEvents \/ DeleteMessages

RetentionNext == SweepStep \/ AbortSweep \/ \E m \in Messages : GrowOld(m)
=============================================================================
