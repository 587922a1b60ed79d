-------------------------------- MODULE Workspace --------------------------------
(***************************************************************************)
(* The dashboard's Domains and Credentials pages over the API: the lists   *)
(* in react-query's cache, the mutations that change them and the refetch  *)
(* each success asks for (api/hooks.ts, pages/Domains.tsx,                 *)
(* pages/Credentials.tsx).  One window shows each list.                    *)
(***************************************************************************)
EXTENDS Provisioning

CONSTANTS
    Pages,      \* the lists whose page is open; others are worked on elsewhere
    Loading     \* the data of a query that has never been answered

Kinds == {"domain", "credential"}

ASSUME WorkspaceAssumption == Pages \subseteq Kinds

VARIABLES
    shown,      \* the cached list of each query
    fetch,      \* the request for it that is under way
    missed      \* a change the query was not refetched for

cacheVars == <<shown, fetch, missed>>
vars == <<provVars, cacheVars>>

Entry == [id: Ids, status: Status]

(* GET /domains and GET /smtp-credentials *)
List(k) == {[id |-> i, status |-> doc[i].status] : i \in OfKind(k)}

(* "read": the server has answered with `list`, which has yet to arrive. *)
Fetch == [pc: {"none", "sent", "read"}, list: SUBSET Entry]
NoFetch == [pc |-> "none", list |-> {}]
Sent == [NoFetch EXCEPT !.pc = "sent"]

TypeOK ==
    /\ ProvTypeOK
    /\ shown \in [Pages -> {Loading} \cup SUBSET Entry]
    /\ fetch \in [Pages -> Fetch]
    /\ missed \in [Pages -> BOOLEAN]

Init ==
    /\ ProvInit
    /\ shown = [k \in Pages |-> Loading]
    /\ fetch = [k \in Pages |-> NoFetch]
    /\ missed = [k \in Pages |-> FALSE]
-----------------------------------------------------------------------------
(* The page is opened again, or the connection is back. *)
Refetch(k) ==
    /\ fetch[k].pc = "none"
    /\ fetch' = [fetch EXCEPT ![k] = Sent]
    /\ missed' = [missed EXCEPT ![k] = FALSE]
    /\ UNCHANGED <<provVars, shown>>

AnswerList(k) ==
    /\ fetch[k].pc = "sent"
    /\ fetch' = [fetch EXCEPT ![k] = [pc |-> "read", list |-> List(k)]]
    /\ UNCHANGED <<provVars, shown, missed>>

ShowList(k) ==
    /\ fetch[k].pc = "read"
    /\ shown' = [shown EXCEPT ![k] = fetch[k].list]
    /\ fetch' = [fetch EXCEPT ![k] = NoFetch]
    /\ UNCHANGED <<provVars, missed>>

(* The forms are shown before the list has loaded, too. *)
AddPressed(c) == /\ \E n \in Names : Add(c, "domain", n)
                 /\ UNCHANGED cacheVars
CreatePressed(c) == /\ Add(c, "credential", NoName)
                    /\ UNCHANGED cacheVars

(* The ids of the rows a user sees, here or elsewhere *)
Rows(k) == IF k \notin Pages THEN OfKind(k)
           ELSE IF shown[k] = Loading THEN {} ELSE {e.id : e \in shown[k]}

(* DomainCard's Verify and Remove *)
RowPressed(c) ==
    /\ \E op \in {"verify", "remove"}, i \in Rows("domain") : Open(c, op, "domain", i)
    /\ UNCHANGED cacheVars

RevokePressed(c) ==
    /\ \E i \in Rows("credential") : Open(c, "remove", "credential", i)
    /\ UNCHANGED cacheVars

(* Mutant: a request that is under way will do. *)
Joins_Any(k) == fetch[k].pc # "none"

(* react-query restarts a running request, except the one that loads the    *)
(* query for the first time.                                                *)
Joins(k) == fetch[k].pc # "none" /\ shown[k] = Loading

(* onSuccess: invalidateQueries *)
Succeed(c) ==
    /\ At(c, "ok")
    /\ LET k == call[c].kind IN
       \/ k \notin Pages /\ UNCHANGED <<fetch, missed>>
       \/ /\ k \in Pages /\ Joins(k)
          /\ missed' = [missed EXCEPT ![k] = @ \/ shown[k] = Loading]
          /\ UNCHANGED fetch
       \/ /\ k \in Pages /\ ~Joins(k)
          /\ fetch' = [fetch EXCEPT ![k] = Sent]
          /\ missed' = [missed EXCEPT ![k] = FALSE]
    /\ call' = [call EXCEPT ![c] = Idle]
    /\ UNCHANGED <<doc, shown>>

Fail(c) ==
    /\ At(c, "error")
    /\ call' = [call EXCEPT ![c] = Idle]
    /\ UNCHANGED <<doc, cacheVars>>

(* The answer is lost: an error for the page, whatever the server did. *)
LoseAnswer(c) ==
    /\ At(c, "ok") /\ call[c].kind \in Pages
    /\ missed' = [missed EXCEPT ![call[c].kind] = TRUE]
    /\ call' = [call EXCEPT ![c] = Idle]
    /\ UNCHANGED <<doc, shown, fetch>>

Next ==
    \/ \E k \in Pages : Refetch(k) \/ AnswerList(k) \/ ShowList(k)
    \/ \E c \in Calls :
          \/ AddPressed(c) \/ CreatePressed(c) \/ RowPressed(c) \/ RevokePressed(c)
          \/ Succeed(c) \/ Fail(c) \/ LoseAnswer(c)
          \/ Handle(c) /\ UNCHANGED cacheVars

Spec == Init /\ [][Next]_vars
-----------------------------------------------------------------------------
(* The limit is counted, then a document is created after another await:    *)
(* concurrent requests exceed it, but by no more than their number          *)
(* (domains/routes.ts:56-80, credentials/routes.ts:40-55), and a domain     *)
(* never has two documents.                                                 *)
LimitHolds ==
    /\ \A k \in Kinds : Cardinality(OfKind(k)) < Limit + Cardinality(Calls)
    /\ \A i, j \in OfKind("domain") : doc[i].name = doc[j].name => i = j

(* A verified domain stays verified, whatever later lookups say: mail of an *)
(* unverified domain bounces.  Only a check that began before the first one *)
(* ended can take it back (domains/routes.ts:112-118).                      *)
VerifiedStays ==
    [][\A i \in OfKind("domain") :
          doc[i].status = "verified" =>
             \/ doc'[i].kind = "removed" \/ doc'[i].status = "verified"
             \/ \E c \in Calls : /\ At(c, "save") /\ call[c].id = i
                                 /\ call[c].loaded = "pending"]_vars

(* When nothing is under way the page shows what is stored: no list read    *)
(* before a change is shown after it, in whatever order changes and lists   *)
(* are answered, unless an answer was lost or the first load had begun      *)
(* (hooks.ts:125-176).                                                      *)
ShownIsStored ==
    \A k \in Pages :
        /\ fetch[k].pc = "none" /\ shown[k] # Loading /\ ~missed[k]
        /\ \A c \in Calls : At(c, "idle") \/ call[c].kind # k
        => shown[k] = List(k)
=============================================================================
