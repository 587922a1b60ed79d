------------------------------- MODULE AuthGuard -------------------------------
(***************************************************************************)
(* SMTP logins (server.ts onAuth, authGuard.ts, authGuardStore.ts,         *)
(* auth.ts): an address with too many failures is refused, and at most     *)
(* MaxConcurrent password checks run at once, the others wait in line.     *)
(*                                                                         *)
(* The handler is one Node process: what runs between two awaits is one    *)
(* step.  A finished check that wakes a waiter hands it its slot before    *)
(* the event loop takes the next callback, so the hand-over is one step.   *)
(***************************************************************************)
EXTENDS Naturals, Sequences, FiniteSets

CONSTANTS
    Sessions,       \* client connections, one after the other in each
    Ips,            \* addresses that identify a client
    NoIp,           \* an address shared by many (isAttributableIp)
    MaxFailures,
    MaxConcurrent,
    FaultKinds,     \* the faults that may happen, each once
    MaxFaults       \* bound on the faults in all

ASSUME GuardAssumption ==
    /\ NoIp \notin Ips
    /\ IsFiniteSet(Sessions)
    /\ MaxFailures \in Nat \ {0}
    /\ MaxConcurrent \in Nat \ {0}
    /\ FaultKinds \subseteq {"crash", "reject"}
    /\ MaxFaults \in Nat

VARIABLES
    login,      \* where the login of each session is
    from,       \* the address of a session that is logging in
    running,    \* checks in progress, as the guard counts them
    waiting,    \* sessions in line for a slot
    failures,   \* the window's failure counter of each address, in Redis
    faults      \* the kinds of the faults so far

guardVars == <<login, from, running, waiting, failures>>

(* "count": reading the counter; "wait": in line; "verify": the password    *)
(* check; "record": incrementing the counter; "in": session.user is set.    *)
LoginState == {"out", "count", "wait", "verify", "record", "in"}

GuardTypeOK ==
    /\ login \in [Sessions -> LoginState]
    /\ from \in [Sessions -> Ips \cup {NoIp}]
    /\ running \in Nat
    /\ waiting \in Seq(Sessions)
    /\ failures \in [Ips -> Nat]
    /\ faults \subseteq FaultKinds

GuardInit ==
    /\ login = [s \in Sessions |-> "out"]
    /\ from = [s \in Sessions |-> NoIp]
    /\ running = 0
    /\ waiting = <<>>
    /\ failures = [i \in Ips |-> 0]
    /\ faults = {}

Fault(k) == /\ k \in FaultKinds \ faults
            /\ Cardinality(faults) < MaxFaults
            /\ faults' = faults \cup {k}

(* The attempt has been answered. *)
Forget(s) == from' = [from EXCEPT ![s] = NoIp]

InState(state) == {s \in Sessions : login[s] = state}
-----------------------------------------------------------------------------
(* withSlot up to the call of verify *)
EnterSlot(s) ==
    \/ /\ running >= MaxConcurrent
       /\ waiting' = Append(waiting, s)
       /\ login' = [login EXCEPT ![s] = "wait"]
       /\ UNCHANGED running
    \/ /\ running < MaxConcurrent
       /\ running' = running + 1
       /\ login' = [login EXCEPT ![s] = "verify"]
       /\ UNCHANGED waiting

Attributable(ip) == ip # NoIp

(* attempt: without an address of its own a client has no counter. *)
Attempt(s, ip) ==
    /\ login[s] = "out"
    /\ from' = [from EXCEPT ![s] = ip]
    /\ \/ /\ Attributable(ip)
          /\ login' = [login EXCEPT ![s] = "count"]
          /\ UNCHANGED <<running, waiting>>
       \/ /\ ~Attributable(ip)
          /\ EnterSlot(s)
    /\ UNCHANGED <<failures, faults>>

(* Mutant: the limit compared with > *)
LockedOut_More(n) == n > MaxFailures

LockedOut(n) == n >= MaxFailures

(* The counter has been read as n: refused with 421, or on to the check. *)
Counted(s, n) ==
    \/ /\ LockedOut(n)
       /\ login' = [login EXCEPT ![s] = "out"]
       /\ Forget(s)
       /\ UNCHANGED <<running, waiting>>
    \/ /\ ~LockedOut(n)
       /\ EnterSlot(s)
       /\ UNCHANGED from

ReadCount(s) ==
    /\ login[s] = "count"
    /\ Counted(s, failures[from[s]])
    /\ UNCHANGED <<failures, faults>>

(* The store is down: count() fails open. *)
CountFails(s) ==
    /\ login[s] = "count" /\ Fault("reject")
    /\ Counted(s, 0)
    /\ UNCHANGED failures

(* Mutant: a slot freed without waking anyone *)
LeaveSlot_NoWake(s, next) ==
    /\ running' = running - 1
    /\ login' = [login EXCEPT ![s] = next]
    /\ UNCHANGED waiting

(* The finally of withSlot: the session goes on to `next`, and the first in *)
(* line takes the slot.                                                     *)
LeaveSlot(s, next) ==
    \/ /\ waiting = <<>>
       /\ running' = running - 1
       /\ login' = [login EXCEPT ![s] = next]
       /\ UNCHANGED waiting
    \/ /\ waiting # <<>>
       /\ login' = [login EXCEPT ![s] = next, ![Head(waiting)] = "verify"]
       /\ waiting' = Tail(waiting)
       /\ UNCHANGED running

(* authenticateCredential found an active credential and the password fits. *)
VerifySucceeds(s) ==
    /\ login[s] = "verify"
    /\ LeaveSlot(s, "in")
    /\ Forget(s)
    /\ UNCHANGED <<failures, faults>>

AfterRefusal(s) == IF from[s] = NoIp THEN "out" ELSE "record"

VerifyRefuses(s) ==
    /\ login[s] = "verify"
    /\ LeaveSlot(s, AfterRefusal(s))
    /\ UNCHANGED <<from, failures, faults>>

(* Reading the credential fails: the attempt is answered 451, uncounted. *)
VerifyRejects(s) ==
    /\ login[s] = "verify" /\ Fault("reject")
    /\ LeaveSlot(s, "out")
    /\ Forget(s)
    /\ UNCHANGED failures

RecordFailure(s) ==
    /\ login[s] = "record"
    /\ failures' = [failures EXCEPT ![from[s]] = @ + 1]
    /\ login' = [login EXCEPT ![s] = "out"]
    /\ Forget(s)
    /\ UNCHANGED <<running, waiting, faults>>

(* increment() fails, and its error is dropped. *)
RecordFails(s) ==
    /\ login[s] = "record" /\ Fault("reject")
    /\ login' = [login EXCEPT ![s] = "out"]
    /\ Forget(s)
    /\ UNCHANGED <<running, waiting, failures>>

(* The next window's buckets have other names. *)
WindowPasses ==
    /\ \E i \in Ips : failures[i] > 0
    /\ failures' = [i \in Ips |-> 0]
    /\ UNCHANGED <<login, from, running, waiting, faults>>

(* The process dies: its memory is gone, the counters are in Redis. *)
GuardCrash ==
    /\ login' = [s \in Sessions |-> "out"]
    /\ from' = [s \in Sessions |-> NoIp]
    /\ running' = 0
    /\ waiting' = <<>>
    /\ UNCHANGED failures

LoginStep(s) ==
    \/ ReadCount(s) \/ CountFails(s)
    \/ VerifySucceeds(s) \/ VerifyRefuses(s) \/ VerifyRejects(s)
    \/ RecordFailure(s) \/ RecordFails(s)
-----------------------------------------------------------------------------
(* As many checks run as the guard counts, at most MaxConcurrent, also when *)
(* a check ends while others wait and new logins arrive (authGuard.ts:32).  *)
ChecksBounded ==
    /\ running = Cardinality(InState("verify"))
    /\ running <= MaxConcurrent

(* Nobody waits while a slot is free: every end of a check, a failing one   *)
(* included, wakes the next in line (authGuard.ts:38-41), and the line      *)
(* holds each waiting login once.                                           *)
NobodyWaitsInVain ==
    /\ waiting # <<>> => running = MaxConcurrent
    /\ Len(waiting) = Cardinality(InState("wait"))
    /\ \A s \in InState("wait") : \E i \in DOMAIN waiting : waiting[i] = s

(* Parallel logins read the counter before any of them has failed: an       *)
(* address gets past MaxFailures, but by no more than the logins it has in  *)
(* flight at once and the outage that hid the counter (authGuard.ts:53-62). *)
FailuresBounded ==
    \A i \in Ips :
        failures[i] < MaxFailures + Cardinality(Sessions) + Cardinality(faults \cap {"reject"})

(* The guard's counts are right at every moment: of checks, waiters and     *)
(* failures.                                                                *)
GuardHolds == ChecksBounded /\ NobodyWaitsInVain /\ FailuresBounded
=============================================================================
