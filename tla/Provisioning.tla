------------------------------ MODULE Provisioning ------------------------------
(***************************************************************************)
(* The sending domains and SMTP credentials of one organization: adding    *)
(* within the plan's limits, verifying against DNS, removing               *)
(* (domains/routes.ts, domains/dns.ts, credentials/routes.ts).             *)
(*                                                                         *)
(* A call is the handler of one request.  The plan stays the same; what a  *)
(* change of it does to a limit read earlier is modelled in Acceptance.    *)
(***************************************************************************)
EXTENDS Naturals, FiniteSets

CONSTANTS
    Calls,
    Names, NoName,  \* domain names; a credential has none that matters
    MaxIds,         \* bound on the documents ever created
    Limit           \* maxDomains, and maxCredentials

ASSUME ProvisioningAssumption ==
    /\ NoName \notin Names
    /\ IsFiniteSet(Calls) /\ Calls # {}
    /\ MaxIds \in Nat \ {0}
    /\ Limit \in Nat

VARIABLES
    doc,        \* the Domain and SmtpCredential collections
    call

provVars == <<doc, call>>

Ids == 1..MaxIds
NoId == 0

Status == {"pending", "verified", "failed"}

(* A removed document's id is never used again. *)
Doc == [kind: {"none", "removed", "domain", "credential"}, name: Names \cup {NoName},
        status: Status]

(* `loaded` is the status in the loaded document. *)
Call == [pc: {"idle", "gather", "create", "load", "lookup", "save", "delete", "ok", "error"},
         op: {"none", "add", "verify", "remove"},
         kind: {"none", "domain", "credential"},
         name: Names \cup {NoName},
         todo: SUBSET {"count", "existing"},
         count: 0..MaxIds, existing: BOOLEAN,
         id: Ids \cup {NoId},
         loaded: Status,
         found: BOOLEAN]

NoDoc == [kind |-> "none", name |-> NoName, status |-> "pending"]

Idle == [pc |-> "idle", op |-> "none", kind |-> "none", name |-> NoName, todo |-> {},
         count |-> 0, existing |-> FALSE, id |-> NoId, loaded |-> "pending", found |-> FALSE]

ProvTypeOK ==
    /\ doc \in [Ids -> Doc]
    /\ call \in [Calls -> Call]

ProvInit ==
    /\ doc = [i \in Ids |-> NoDoc]
    /\ call = [c \in Calls |-> Idle]

At(c, pc) == call[c].pc = pc
Goto(c, pc) == call' = [call EXCEPT ![c].pc = pc]

(* The answer: its body is built from the call's own document. *)
Answer(c, pc) == call' = [call EXCEPT ![c] = [Idle EXCEPT !.pc = pc, !.kind = call[c].kind]]

OfKind(k) == {i \in Ids : doc[i].kind = k}
Stored(i) == doc[i].kind \in {"domain", "credential"}
-----------------------------------------------------------------------------
(* POST /domains and POST /smtp-credentials *)
Add(c, kind, name) ==
    /\ At(c, "idle")
    /\ call' = [call EXCEPT ![c] =
          [Idle EXCEPT !.pc = "gather", !.op = "add", !.kind = kind, !.name = name,
                       !.todo = IF kind = "domain" THEN {"count", "existing"} ELSE {"count"}]]
    /\ UNCHANGED doc

(* The queries of Promise.all *)
Count(c) ==
    /\ At(c, "gather") /\ "count" \in call[c].todo
    /\ call' = [call EXCEPT ![c].todo = @ \ {"count"},
                            ![c].count = Cardinality(OfKind(call[c].kind))]
    /\ UNCHANGED doc

FindExisting(c) ==
    /\ At(c, "gather") /\ "existing" \in call[c].todo
    /\ call' = [call EXCEPT ![c].todo = @ \ {"existing"},
                            ![c].existing = \E i \in OfKind("domain") : doc[i].name = call[c].name]
    /\ UNCHANGED doc

(* Mutant: the plan allows one more. *)
OverLimit_More(n) == n > Limit

OverLimit(n) == n >= Limit

(* 409 or 402; otherwise the NS lookup, or the hash of the password *)
Decide(c) ==
    /\ At(c, "gather") /\ call[c].todo = {}
    /\ IF call[c].existing \/ OverLimit(call[c].count) THEN Answer(c, "error") ELSE Goto(c, "create")
    /\ UNCHANGED doc

Unused == {i \in Ids : doc[i].kind = "none"}

(* The unique index on (organizationId, domain) *)
Duplicate(c) == call[c].kind = "domain" /\ \E i \in OfKind("domain") : doc[i].name = call[c].name

Create(c) ==
    /\ At(c, "create")
    /\ \/ Duplicate(c) /\ Answer(c, "error") /\ UNCHANGED doc
       \/ /\ ~Duplicate(c)
          /\ \E i \in Unused :
                /\ \A j \in Unused : i <= j
                /\ doc' = [doc EXCEPT ![i] = [NoDoc EXCEPT !.kind = call[c].kind,
                                                           !.name = call[c].name]]
          /\ Answer(c, "ok")
-----------------------------------------------------------------------------
(* POST /domains/:id/verify, DELETE /domains/:id and /smtp-credentials/:id *)
Open(c, op, kind, i) ==
    /\ At(c, "idle")
    /\ call' = [call EXCEPT ![c] = [Idle EXCEPT !.pc = "load", !.op = op, !.kind = kind, !.id = i]]
    /\ UNCHANGED doc

LoadOwned(c) ==
    /\ At(c, "load")
    /\ \/ /\ Stored(call[c].id)
          /\ call' = [call EXCEPT ![c].pc = IF call[c].op = "verify" THEN "lookup" ELSE "delete",
                                  ![c].loaded = doc[call[c].id].status]
       \/ ~Stored(call[c].id) /\ Answer(c, "error")
    /\ UNCHANGED doc

Delete(c) ==
    /\ At(c, "delete")
    /\ doc' = [doc EXCEPT ![call[c].id] = [NoDoc EXCEPT !.kind = "removed"]]
    /\ Answer(c, "ok")

(* verifyDomainDns.  Records come and go, and a failing lookup counts as    *)
(* none.                                                                    *)
LookupDkim(c, found) ==
    /\ At(c, "lookup")
    /\ call' = [call EXCEPT ![c].pc = "save", ![c].found = found]
    /\ UNCHANGED doc

(* Mutant: without a record the domain fails, verified or not. *)
StatusAfter_Failed(status, found) == IF found THEN "verified" ELSE "failed"

StatusAfter(status, found) ==
    IF found THEN "verified" ELSE IF status # "verified" THEN "failed" ELSE status

(* doc.save() writes the status if it differs from the loaded one; 500 if   *)
(* the domain is gone.  dkimVerified and the rest are left out.             *)
SaveVerification(c) ==
    /\ At(c, "save")
    /\ LET i == call[c].id
           old == call[c].loaded
           new == StatusAfter(old, call[c].found) IN
       \/ /\ Stored(i)
          /\ doc' = [doc EXCEPT ![i].status = IF new = old THEN @ ELSE new]
          /\ Answer(c, "ok")
       \/ ~Stored(i) /\ Answer(c, "error") /\ UNCHANGED doc

Handle(c) ==
    \/ Count(c) \/ FindExisting(c) \/ Decide(c) \/ Create(c) \/ LoadOwned(c) \/ Delete(c)
    \/ (\E found \in BOOLEAN : LookupDkim(c, found)) \/ SaveVerification(c)
=============================================================================
