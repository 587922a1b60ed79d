----------------------------- MODULE WorkspaceProofs -----------------------------
(***************************************************************************)
(* Proofs about Workspace and the Provisioning it extends, for any number  *)
(* of requests, names and documents, and any limit.                        *)
(***************************************************************************)
EXTENDS Workspace, FiniteSetTheorems, TLAPS

(* Requests that have found room for another document *)
Allowed(k) == {c \in Calls : /\ call[c].pc \in {"gather", "create"} /\ call[c].kind = k
                             /\ "count" \notin call[c].todo /\ call[c].count < Limit}

Counted(k) == Cardinality(OfKind(k)) + Cardinality(Allowed(k)) < Limit + Cardinality(Calls)

NamesApart == \A i, j \in OfKind("domain") : doc[i].name = doc[j].name => i = j

(* A document keeps its kind until it is removed. *)
WasOf(i, k) == i \in Ids /\ doc[i].kind \in {k, "removed"}

CallSound(c) ==
    /\ call[c].pc # "idle" => call[c].kind \in Kinds
    /\ call[c].pc = "create" => call[c].todo = {} /\ call[c].count < Limit
    /\ call[c].pc \in {"load", "lookup", "save", "delete"} => WasOf(call[c].id, call[c].kind)

(* A change of the list has been made that the page has yet to hear of. *)
Changed(k) == \E c \in Calls : At(c, "ok") /\ call[c].kind = k

PageSound(k) ==
    /\ shown[k] # Loading => \A e \in shown[k] : WasOf(e.id, k)
    /\ \A e \in fetch[k].list : WasOf(e.id, k)
    /\ fetch[k].pc = "none" /\ shown[k] # Loading /\ ~missed[k] /\ ~Changed(k) => shown[k] = List(k)
    /\ fetch[k].pc = "read" /\ ~missed[k] /\ ~Changed(k) => fetch[k].list = List(k)

WorkspaceInv ==
    /\ TypeOK
    /\ \A k \in Kinds : Counted(k)
    /\ NamesApart
    /\ \A c \in Calls : CallSound(c)
    /\ \A k \in Pages : PageSound(k)
-----------------------------------------------------------------------------
LEMMA Numbers == MaxIds \in Nat \ {0} /\ Limit \in Nat /\ IsFiniteSet(Calls) /\ Calls # {}
BY ProvisioningAssumption

LEMMA CallsNumber == Cardinality(Calls) \in Nat /\ Cardinality(Calls) > 0
BY Numbers, FS_CardinalityType, FS_EmptySet

LEMMA IdsFinite == IsFiniteSet(Ids) /\ Cardinality(Ids) = MaxIds
<1>1. Ids = 1..MaxIds /\ 1 \in Int /\ MaxIds \in Int /\ MaxIds - 1 + 1 = MaxIds
  BY Numbers DEF Ids
<1> QED
  BY <1>1, Numbers, FS_Interval

LEMMA KindNumber ==
    ASSUME NEW k
    PROVE  IsFiniteSet(OfKind(k)) /\ Cardinality(OfKind(k)) \in 0..MaxIds
<1>1. OfKind(k) \subseteq Ids
  BY DEF OfKind
<1> HIDE DEF OfKind
<1>2. IsFiniteSet(OfKind(k)) /\ Cardinality(OfKind(k)) <= Cardinality(Ids)
  BY <1>1, IdsFinite, FS_Subset
<1> QED
  BY <1>2, IdsFinite, FS_CardinalityType, Numbers

LEMMA AllowedNumber ==
    ASSUME NEW k
    PROVE  IsFiniteSet(Allowed(k)) /\ Cardinality(Allowed(k)) \in Nat
<1>1. Allowed(k) \subseteq Calls
  BY DEF Allowed
<1> HIDE DEF Allowed
<1> QED
  BY <1>1, Numbers, FS_Subset, FS_CardinalityType

LEMMA KindShrinks ==
    ASSUME NEW k, OfKind(k)' \subseteq OfKind(k)
    PROVE  IsFiniteSet(OfKind(k)') /\ Cardinality(OfKind(k)') \in Nat
           /\ Cardinality(OfKind(k)') <= Cardinality(OfKind(k))
<1> DEFINE S == OfKind(k)
           T == OfKind(k)'
<1>1. IsFiniteSet(S) /\ T \subseteq S
  BY KindNumber
<1> HIDE DEF S, T
<1>2. IsFiniteSet(T) /\ Cardinality(T) <= Cardinality(S) /\ Cardinality(T) \in Nat
  BY <1>1, FS_Subset, FS_CardinalityType
<1> QED
  BY <1>2 DEF S, T

LEMMA AllowedShrinks ==
    ASSUME NEW k, Allowed(k)' \subseteq Allowed(k)
    PROVE  Cardinality(Allowed(k)') \in Nat /\ Cardinality(Allowed(k)') <= Cardinality(Allowed(k))
<1> DEFINE S == Allowed(k)
           T == Allowed(k)'
<1>1. IsFiniteSet(S) /\ T \subseteq S
  BY AllowedNumber
<1> HIDE DEF S, T
<1>2. Cardinality(T) \in Nat /\ Cardinality(T) <= Cardinality(S)
  BY <1>1, FS_Subset, FS_CardinalityType
<1> QED
  BY <1>2 DEF S, T

(* Nothing is added, and nobody finds room. *)
LEMMA CountedStays ==
    ASSUME NEW k, Counted(k), OfKind(k)' \subseteq OfKind(k), Allowed(k)' \subseteq Allowed(k)
    PROVE  Counted(k)'
<1>1. Cardinality(OfKind(k)) \in Nat /\ Cardinality(Allowed(k)) \in Nat
  BY KindNumber, AllowedNumber, Numbers
<1>2. /\ Cardinality(OfKind(k)') \in Nat /\ Cardinality(OfKind(k)') <= Cardinality(OfKind(k))
      /\ Cardinality(Allowed(k)') \in Nat /\ Cardinality(Allowed(k)') <= Cardinality(Allowed(k))
  BY KindShrinks, AllowedShrinks
<1>3. Cardinality(OfKind(k)') + Cardinality(Allowed(k)') < Limit + Cardinality(Calls)
  BY <1>1, <1>2, CallsNumber, Numbers DEF Counted
<1> QED
  BY <1>3 DEF Counted

(* A request that counts fewer than the limit is one of at most all. *)
LEMMA CountedRoom ==
    ASSUME NEW k, Cardinality(OfKind(k)) < Limit, OfKind(k)' = OfKind(k)
    PROVE  Counted(k)'
<1>1. Allowed(k)' \subseteq Calls
  BY DEF Allowed
<1> DEFINE T == Allowed(k)'
<1>2. T \subseteq Calls
  BY <1>1
<1> HIDE DEF T
<1>3. Cardinality(T) \in Nat /\ Cardinality(T) <= Cardinality(Calls)
  BY <1>2, Numbers, FS_Subset, FS_CardinalityType
<1>4. Cardinality(OfKind(k)) \in Nat
  BY KindNumber, Numbers
<1>5. Cardinality(OfKind(k)') + Cardinality(T) < Limit + Cardinality(Calls)
  BY <1>3, <1>4, CallsNumber, Numbers
<1> QED
  BY <1>5 DEF T, Counted

(* The document a request had room for takes its place. *)
LEMMA CountedCreate ==
    ASSUME NEW k, Counted(k), NEW c \in Allowed(k), NEW i, OfKind(k)' = OfKind(k) \cup {i},
           Allowed(k)' \subseteq Allowed(k) \ {c}
    PROVE  Counted(k)'
<1> DEFINE S == OfKind(k)
           A == Allowed(k)
           B == Allowed(k)'
<1>1. /\ IsFiniteSet(S) /\ IsFiniteSet(A) /\ c \in A /\ B \subseteq A \ {c}
      /\ Cardinality(S) \in Nat /\ Cardinality(A) \in Nat
      /\ Cardinality(S) + Cardinality(A) < Limit + Cardinality(Calls)
  BY KindNumber, AllowedNumber, Numbers DEF Counted
<1>2. OfKind(k)' = S \cup {i}
  OBVIOUS
<1> HIDE DEF S, A, B
<1>3. Cardinality(A \ {c}) = Cardinality(A) - 1 /\ IsFiniteSet(A \ {c})
  BY <1>1, FS_RemoveElement
<1>4. Cardinality(B) \in Nat /\ Cardinality(B) <= Cardinality(A) - 1
  BY <1>1, <1>3, FS_Subset, FS_CardinalityType
<1>5. Cardinality(S \cup {i}) \in Nat /\ Cardinality(S \cup {i}) <= Cardinality(S) + 1
  <2>1. /\ IsFiniteSet(S \cup {i})
        /\ Cardinality(S \cup {i}) = IF i \in S THEN Cardinality(S) ELSE Cardinality(S) + 1
    BY <1>1, FS_AddElement
  <2>2. CASE i \in S
    BY <1>1, <2>1, <2>2
  <2>3. CASE i \notin S
    BY <1>1, <2>1, <2>3
  <2> QED
    BY <2>2, <2>3
<1>6. Cardinality(S \cup {i}) + Cardinality(B) < Limit + Cardinality(Calls)
  BY <1>1, <1>4, <1>5, CallsNumber, Numbers
<1> QED
  BY <1>2, <1>6 DEF B, Counted
-----------------------------------------------------------------------------
LEMMA Typed ==
    ASSUME WorkspaceInv
    PROVE  /\ doc \in [Ids -> Doc] /\ call \in [Calls -> Call]
           /\ shown \in [Pages -> {Loading} \cup SUBSET Entry] /\ fetch \in [Pages -> Fetch]
           /\ missed \in [Pages -> BOOLEAN]
BY DEF WorkspaceInv, TypeOK, ProvTypeOK

LEMMA IdleTyped ==
    /\ Idle \in Call /\ Idle.pc = "idle" /\ Idle.kind = "none" /\ Idle.todo = {}
    /\ Idle.count = 0 /\ Idle.id = NoId
BY Numbers DEF Idle, Call, Ids, NoId, Status

LEMMA OthersAllowed ==
    ASSUME NEW k, NEW c \in Calls, \A d \in Calls \ {c} : call'[d] = call[d],
           c \in Allowed(k)' => c \in Allowed(k)
    PROVE  Allowed(k)' \subseteq Allowed(k)
BY DEF Allowed

(* A request goes on, and nothing is stored. *)
LEMMA CallStep ==
    ASSUME WorkspaceInv, UNCHANGED <<doc, cacheVars>>, NEW c \in Calls,
           call' \in [Calls -> Call], \A d \in Calls \ {c} : call'[d] = call[d],
           call[c].pc # "ok", CallSound(c)', \A k \in Kinds : Counted(k)'
    PROVE  WorkspaceInv'
<1>1. TypeOK'
  BY DEF WorkspaceInv, TypeOK, ProvTypeOK, cacheVars, Fetch, Entry
<1>2. NamesApart'
  BY DEF WorkspaceInv, NamesApart, OfKind
<1>3. \A d \in Calls : CallSound(d)'
  BY DEF WorkspaceInv, CallSound, WasOf
<1>4. \A k \in Pages : PageSound(k)'
  <2> SUFFICES ASSUME NEW k \in Pages PROVE PageSound(k)'
    OBVIOUS
  <2>1. PageSound(k) /\ List(k)' = List(k)
    BY DEF WorkspaceInv, List, OfKind
  <2>2. Changed(k) => Changed(k)'
    BY DEF Changed, At
  <2> QED
    BY <2>1, <2>2 DEF PageSound, cacheVars, WasOf
<1> QED
  BY <1>1, <1>2, <1>3, <1>4 DEF WorkspaceInv

(* The common case: a request that has found no room, or has it still *)
LEMMA CallMoves ==
    ASSUME WorkspaceInv, UNCHANGED <<doc, cacheVars>>, NEW c \in Calls,
           call' \in [Calls -> Call], \A d \in Calls \ {c} : call'[d] = call[d],
           call[c].pc # "ok", CallSound(c)', \A k \in Kinds : c \in Allowed(k)' => c \in Allowed(k)
    PROVE  WorkspaceInv'
<1>1. \A k \in Kinds : Counted(k)'
  BY OthersAllowed, CountedStays DEF WorkspaceInv, OfKind
<1> QED
  BY <1>1, CallStep

LEMMA Answered ==
    ASSUME WorkspaceInv, NEW c \in Calls, NEW pc \in {"ok", "error"}, call[c].pc # "idle",
           Answer(c, pc)
    PROVE  /\ call' \in [Calls -> Call] /\ \A d \in Calls \ {c} : call'[d] = call[d]
           /\ call'[c].pc = pc /\ call'[c].kind = call[c].kind
           /\ call[c].kind \in Kinds /\ CallSound(c)' /\ \A k \in Kinds : c \notin Allowed(k)'
<1>1. call \in [Calls -> Call] /\ call[c].kind \in Kinds
  BY Typed DEF WorkspaceInv, CallSound
<1> DEFINE q == [Idle EXCEPT !.pc = pc, !.kind = call[c].kind]
<1>2. q \in Call /\ q.pc = pc /\ q.kind = call[c].kind
  BY <1>1, IdleTyped DEF Call, Kinds
<1>3. call' = [call EXCEPT ![c] = q]
  BY DEF Answer
<1> HIDE DEF q
<1>4. /\ call' \in [Calls -> Call] /\ \A d \in Calls \ {c} : call'[d] = call[d]
      /\ call'[c].pc = pc /\ call'[c].kind = call[c].kind
  BY <1>1, <1>2, <1>3
<1> QED
  BY <1>1, <1>4 DEF CallSound, Allowed

LEMMA ErrorInv ==
    ASSUME WorkspaceInv, NEW c \in Calls, call[c].pc \notin {"idle", "ok"}, Answer(c, "error"),
           UNCHANGED <<doc, cacheVars>>
    PROVE  WorkspaceInv'
BY Answered, CallMoves

LEMMA RestInv ==
    ASSUME WorkspaceInv, NEW c \in Calls, call[c].pc # "ok", UNCHANGED <<doc, cacheVars>>,
           call' = [call EXCEPT ![c] = Idle]
    PROVE  WorkspaceInv'
<1>1. /\ call' \in [Calls -> Call] /\ \A d \in Calls \ {c} : call'[d] = call[d]
      /\ call'[c].pc = "idle"
  BY Typed, IdleTyped
<1>2. CallSound(c)' /\ \A k \in Kinds : c \notin Allowed(k)'
  BY <1>1 DEF CallSound, Allowed
<1> QED
  BY <1>1, <1>2, CallMoves
-----------------------------------------------------------------------------
LEMMA AddInv ==
    ASSUME WorkspaceInv, NEW c \in Calls, NEW k \in Kinds, NEW n \in Names \cup {NoName},
           Add(c, k, n), UNCHANGED cacheVars
    PROVE  WorkspaceInv'
<1> DEFINE t == IF k = "domain" THEN {"count", "existing"} ELSE {"count"}
           q == [Idle EXCEPT !.pc = "gather", !.op = "add", !.kind = k, !.name = n, !.todo = t]
<1>1. "count" \in t /\ t \in SUBSET {"count", "existing"}
  OBVIOUS
<1>2. call' = [call EXCEPT ![c] = q] /\ call[c].pc = "idle" /\ UNCHANGED doc
  BY DEF Add, At
<1> HIDE DEF t
<1>3. q \in Call /\ q.pc = "gather" /\ q.kind = k /\ q.todo = t
  BY <1>1, IdleTyped DEF Call, Kinds
<1> HIDE DEF q
<1>4. /\ call' \in [Calls -> Call] /\ call'[c] = q /\ \A d \in Calls \ {c} : call'[d] = call[d]
  BY <1>2, <1>3, Typed
<1>5. call'[c].pc = "gather" /\ call'[c].kind = k /\ call'[c].todo = t
  BY <1>3, <1>4
<1>6. CallSound(c)' /\ \A j \in Kinds : c \notin Allowed(j)'
  BY <1>1, <1>5 DEF CallSound, Allowed
<1> QED
  BY <1>2, <1>4, <1>6, CallMoves

LEMMA OpenInv ==
    ASSUME WorkspaceInv, NEW c \in Calls, NEW op \in {"verify", "remove"}, NEW k \in Kinds,
           NEW i, WasOf(i, k), Open(c, op, k, i), UNCHANGED cacheVars
    PROVE  WorkspaceInv'
<1> DEFINE q == [Idle EXCEPT !.pc = "load", !.op = op, !.kind = k, !.id = i]
<1>1. call' = [call EXCEPT ![c] = q] /\ call[c].pc = "idle" /\ UNCHANGED doc
  BY DEF Open, At
<1>2. q \in Call /\ q.pc = "load" /\ q.kind = k /\ q.id = i
  BY IdleTyped DEF Call, Kinds, WasOf
<1> HIDE DEF q
<1>3. /\ call' \in [Calls -> Call] /\ call'[c] = q /\ \A d \in Calls \ {c} : call'[d] = call[d]
  BY <1>1, <1>2, Typed
<1>4. CallSound(c)' /\ \A j \in Kinds : c \notin Allowed(j)'
  BY <1>1, <1>2, <1>3 DEF CallSound, Allowed, WasOf
<1> QED
  BY <1>1, <1>3, <1>4, CallMoves

LEMMA RowsSound ==
    ASSUME WorkspaceInv, NEW k \in Kinds, NEW i \in Rows(k)
    PROVE  WasOf(i, k)
<1>1. CASE k \notin Pages
  BY <1>1 DEF Rows, OfKind, WasOf
<1>2. CASE k \in Pages /\ shown[k] # Loading
  <2>1. PICK e \in shown[k] : e.id = i
    BY <1>2 DEF Rows
  <2> QED
    BY <1>2, <2>1 DEF WorkspaceInv, PageSound
<1> QED
  BY <1>1, <1>2 DEF Rows

LEMMA PressedInv ==
    ASSUME WorkspaceInv, NEW c \in Calls,
           AddPressed(c) \/ CreatePressed(c) \/ RowPressed(c) \/ RevokePressed(c)
    PROVE  WorkspaceInv'
<1> "domain" \in Kinds /\ "credential" \in Kinds
  BY DEF Kinds
<1>1. CASE AddPressed(c)
  <2>1. PICK n \in Names : Add(c, "domain", n) /\ UNCHANGED cacheVars
    BY <1>1 DEF AddPressed
  <2> QED
    BY <2>1, AddInv
<1>2. CASE CreatePressed(c)
  BY <1>2, AddInv DEF CreatePressed
<1>3. CASE RowPressed(c)
  <2>1. PICK op \in {"verify", "remove"}, i \in Rows("domain") : Open(c, op, "domain", i)
    BY <1>3 DEF RowPressed
  <2>2. UNCHANGED cacheVars
    BY <1>3 DEF RowPressed
  <2> QED
    BY <2>1, <2>2, OpenInv, RowsSound
<1>4. CASE RevokePressed(c)
  <2>1. PICK i \in Rows("credential") : Open(c, "remove", "credential", i)
    BY <1>4 DEF RevokePressed
  <2>2. UNCHANGED cacheVars
    BY <1>4 DEF RevokePressed
  <2> QED
    BY <2>1, <2>2, OpenInv, RowsSound
<1> QED
  BY <1>1, <1>2, <1>3, <1>4
-----------------------------------------------------------------------------
(* What a request counts, it has room for or not; whether it does, one more *)
(* than those already allowed is still within the bound.                    *)
LEMMA CountInv ==
    ASSUME WorkspaceInv, NEW c \in Calls, Count(c), UNCHANGED cacheVars
    PROVE  WorkspaceInv'
<1> DEFINE n == Cardinality(OfKind(call[c].kind))
           t == call[c].todo \ {"count"}
           q == [call[c] EXCEPT !.todo = t, !.count = n]
<1>1. /\ call[c].pc = "gather" /\ call' = [call EXCEPT ![c] = q] /\ UNCHANGED doc
      /\ call[c] \in Call /\ call \in [Calls -> Call] /\ CallSound(c)
  BY Typed DEF Count, At, WorkspaceInv
<1>2. n \in 0..MaxIds /\ t \in SUBSET {"count", "existing"}
  BY <1>1, KindNumber DEF Call
<1> HIDE DEF n, t
<1>3. q \in Call /\ q.pc = "gather" /\ q.kind = call[c].kind /\ q.count = n
  BY <1>1, <1>2 DEF Call
<1> HIDE DEF q
<1>4. /\ call' \in [Calls -> Call] /\ \A d \in Calls \ {c} : call'[d] = call[d]
      /\ call'[c].pc = "gather" /\ call'[c].kind = call[c].kind /\ call'[c].count = n
  BY <1>1, <1>3
<1>5. CallSound(c)'
  BY <1>1, <1>4 DEF CallSound
<1>6. ASSUME NEW k \in Kinds PROVE Counted(k)'
  <2>1. OfKind(k)' = OfKind(k) /\ Counted(k)
    BY <1>1 DEF OfKind, WorkspaceInv
  <2>2. CASE call[c].kind = k /\ n < Limit
    <3>1. Cardinality(OfKind(k)) < Limit
      BY <2>2 DEF n
    <3> QED
      BY <2>1, <3>1, CountedRoom
  <2>3. CASE ~(call[c].kind = k /\ n < Limit)
    <3>1. c \notin Allowed(k)'
      BY <1>4, <2>3 DEF Allowed
    <3> QED
      BY <1>4, <2>1, <3>1, OthersAllowed, CountedStays
  <2> QED
    BY <2>2, <2>3
<1> QED
  BY <1>1, <1>4, <1>5, <1>6, CallStep

LEMMA FindExistingInv ==
    ASSUME WorkspaceInv, NEW c \in Calls, FindExisting(c), UNCHANGED cacheVars
    PROVE  WorkspaceInv'
<1> DEFINE e == \E i \in OfKind("domain") : doc[i].name = call[c].name
           t == call[c].todo \ {"existing"}
           q == [call[c] EXCEPT !.todo = t, !.existing = e]
<1>1. /\ call[c].pc = "gather" /\ call' = [call EXCEPT ![c] = q] /\ UNCHANGED doc
      /\ call[c] \in Call /\ call \in [Calls -> Call] /\ CallSound(c)
  BY Typed DEF FindExisting, At, WorkspaceInv
<1>2. e \in BOOLEAN
  OBVIOUS
<1>3. t \in SUBSET {"count", "existing"} /\ ("count" \in t <=> "count" \in call[c].todo)
  BY <1>1 DEF Call
<1> HIDE DEF e, t
<1>4. /\ q \in Call /\ q.pc = "gather" /\ q.kind = call[c].kind /\ q.count = call[c].count
      /\ q.todo = t
  BY <1>1, <1>2, <1>3 DEF Call
<1> HIDE DEF q
<1>5. /\ call' \in [Calls -> Call] /\ \A d \in Calls \ {c} : call'[d] = call[d]
      /\ call'[c].pc = "gather" /\ call'[c].kind = call[c].kind
      /\ call'[c].count = call[c].count /\ call'[c].todo = t
  BY <1>1, <1>4
<1>6. CallSound(c)'
  BY <1>1, <1>5 DEF CallSound
<1>7. \A k \in Kinds : c \in Allowed(k)' => c \in Allowed(k)
  BY <1>1, <1>3, <1>5 DEF Allowed
<1> QED
  BY <1>1, <1>5, <1>6, <1>7, CallMoves

LEMMA DecideInv ==
    ASSUME WorkspaceInv, NEW c \in Calls, Decide(c), UNCHANGED cacheVars
    PROVE  WorkspaceInv'
<1>1. /\ call[c].pc = "gather" /\ call[c].todo = {} /\ UNCHANGED doc
      /\ call[c] \in Call /\ call \in [Calls -> Call] /\ CallSound(c)
  BY Typed DEF Decide, At, WorkspaceInv
<1>2. CASE Answer(c, "error")
  BY <1>1, <1>2, ErrorInv
<1>3. CASE ~OverLimit(call[c].count) /\ Goto(c, "create")
  <2> DEFINE q == [call[c] EXCEPT !.pc = "create"]
  <2>1. /\ q \in Call /\ q.pc = "create" /\ q.kind = call[c].kind /\ q.count = call[c].count
        /\ q.todo = call[c].todo
    BY <1>1 DEF Call
  <2>2. call' = [call EXCEPT ![c] = q]
    BY <1>3 DEF Goto
  <2>3. call[c].count < Limit
    BY <1>1, <1>3, Numbers DEF OverLimit, Call
  <2> HIDE DEF q
  <2>4. /\ call' \in [Calls -> Call] /\ \A d \in Calls \ {c} : call'[d] = call[d]
        /\ call'[c].pc = "create" /\ call'[c].kind = call[c].kind
        /\ call'[c].count = call[c].count /\ call'[c].todo = {}
    BY <1>1, <2>1, <2>2
  <2>5. CallSound(c)' /\ \A k \in Kinds : c \in Allowed(k)' => c \in Allowed(k)
    BY <1>1, <2>3, <2>4 DEF CallSound, Allowed
  <2> QED
    BY <1>1, <2>4, <2>5, CallMoves
<1> QED
  BY <1>2, <1>3 DEF Decide

LEMMA LoadOwnedInv ==
    ASSUME WorkspaceInv, NEW c \in Calls, LoadOwned(c), UNCHANGED cacheVars
    PROVE  WorkspaceInv'
<1>1. /\ call[c].pc = "load" /\ UNCHANGED doc /\ call[c] \in Call /\ call \in [Calls -> Call]
      /\ CallSound(c) /\ WasOf(call[c].id, call[c].kind) /\ doc \in [Ids -> Doc]
  BY Typed DEF LoadOwned, At, WorkspaceInv, CallSound
<1>2. CASE Answer(c, "error")
  BY <1>1, <1>2, ErrorInv
<1>3. CASE call' = [call EXCEPT ![c].pc = IF call[c].op = "verify" THEN "lookup" ELSE "delete",
                                ![c].loaded = doc[call[c].id].status]
  <2> DEFINE pc == IF call[c].op = "verify" THEN "lookup" ELSE "delete"
             s == doc[call[c].id].status
             q == [call[c] EXCEPT !.pc = pc, !.loaded = s]
  <2>1. pc \in {"lookup", "delete"}
    OBVIOUS
  <2>2. s \in Status
    BY <1>1 DEF WasOf, Doc
  <2>3. call' = [call EXCEPT ![c] = q]
    BY <1>3
  <2> HIDE DEF pc, s
  <2>4. q \in Call /\ q.pc = pc /\ q.kind = call[c].kind /\ q.id = call[c].id
    BY <1>1, <2>1, <2>2 DEF Call
  <2> HIDE DEF q
  <2>5. /\ call' \in [Calls -> Call] /\ \A d \in Calls \ {c} : call'[d] = call[d]
        /\ call'[c].pc \in {"lookup", "delete"} /\ call'[c].kind = call[c].kind
        /\ call'[c].id = call[c].id
    BY <1>1, <2>1, <2>3, <2>4
  <2>6. CallSound(c)' /\ \A k \in Kinds : c \notin Allowed(k)'
    BY <1>1, <2>5 DEF CallSound, Allowed, WasOf
  <2> QED
    BY <1>1, <2>5, <2>6, CallMoves
<1> QED
  BY <1>2, <1>3 DEF LoadOwned

LEMMA LookupInv ==
    ASSUME WorkspaceInv, NEW c \in Calls, NEW found \in BOOLEAN, LookupDkim(c, found),
           UNCHANGED cacheVars
    PROVE  WorkspaceInv'
<1> DEFINE q == [call[c] EXCEPT !.pc = "save", !.found = found]
<1>1. /\ call[c].pc = "lookup" /\ UNCHANGED doc /\ call[c] \in Call /\ call \in [Calls -> Call]
      /\ CallSound(c) /\ call' = [call EXCEPT ![c] = q]
  BY Typed DEF LookupDkim, At, WorkspaceInv
<1>2. q \in Call /\ q.pc = "save" /\ q.kind = call[c].kind /\ q.id = call[c].id
  BY <1>1 DEF Call
<1> HIDE DEF q
<1>3. /\ call' \in [Calls -> Call] /\ \A d \in Calls \ {c} : call'[d] = call[d]
      /\ call'[c].pc = "save" /\ call'[c].kind = call[c].kind /\ call'[c].id = call[c].id
  BY <1>1, <1>2
<1>4. CallSound(c)' /\ \A k \in Kinds : c \notin Allowed(k)'
  BY <1>1, <1>3 DEF CallSound, Allowed, WasOf
<1> QED
  BY <1>1, <1>3, <1>4, CallMoves
-----------------------------------------------------------------------------
(* What a stored change of a document of kind k leaves as it was *)
LEMMA DocStep ==
    ASSUME WorkspaceInv, UNCHANGED cacheVars, NEW c \in Calls, NEW i \in Ids,
           NEW k \in Kinds, call[c].kind = k, call[c].pc \notin {"idle", "ok"}, Answer(c, "ok"),
           doc' \in [Ids -> Doc], \A j \in Ids \ {i} : doc'[j] = doc[j],
           doc[i].kind \in {"none", "removed", k}, doc'[i].kind \in {"none", "removed", k},
           \A j \in Kinds : WasOf(i, j) => WasOf(i, j)',
           Counted(k)', NamesApart'
    PROVE  WorkspaceInv'
<1>1. /\ call' \in [Calls -> Call] /\ CallSound(c)'
      /\ call'[c].pc = "ok" /\ call'[c].kind = k
      /\ \A j \in Kinds : c \notin Allowed(j)'
      /\ \A d \in Calls \ {c} : call'[d] = call[d]
  BY Answered
<1>2. TypeOK'
  BY <1>1 DEF WorkspaceInv, TypeOK, ProvTypeOK, cacheVars, Fetch, Entry
<1>3. \A j \in Kinds, n \in Ids : WasOf(n, j) => WasOf(n, j)'
  BY DEF WasOf
<1>4. \A d \in Calls : CallSound(d)'
  <2> SUFFICES ASSUME NEW d \in Calls, d # c PROVE CallSound(d)'
    BY <1>1
  <2>1. CallSound(d) /\ call'[d] = call[d]
    BY <1>1 DEF WorkspaceInv
  <2>2. call[d].pc \in {"load", "lookup", "save", "delete"} => WasOf(call[d].id, call[d].kind)'
    <3> SUFFICES ASSUME call[d].pc \in {"load", "lookup", "save", "delete"}
                 PROVE  WasOf(call[d].id, call[d].kind)'
      OBVIOUS
    <3>1. WasOf(call[d].id, call[d].kind) /\ call[d].kind \in Kinds
      BY <2>1 DEF CallSound
    <3>2. PICK n \in Ids, j \in Kinds : n = call[d].id /\ j = call[d].kind /\ WasOf(n, j)
      BY <3>1 DEF WasOf
    <3>3. WasOf(n, j)'
      BY <1>3, <3>2
    <3> QED
      BY <2>1, <3>2, <3>3 DEF WasOf
  <2> QED
    BY <2>1, <2>2 DEF CallSound, WasOf
<1>5. ASSUME NEW j \in Kinds, j # k
      PROVE  OfKind(j)' = OfKind(j) /\ \A n \in OfKind(j) : doc'[n] = doc[n]
  BY <1>5 DEF OfKind, Kinds
<1>6. ASSUME NEW j \in Kinds PROVE Counted(j)'
  <2>1. CASE j # k
    BY <1>1, <1>5, <2>1, OthersAllowed, CountedStays DEF WorkspaceInv
  <2> QED
    BY <2>1
<1>7. ASSUME NEW j \in Pages PROVE PageSound(j)'
  <2>1. j \in Kinds /\ PageSound(j)
    BY WorkspaceAssumption DEF WorkspaceInv
  <2>2. shown'[j] = shown[j] /\ fetch'[j] = fetch[j] /\ missed'[j] = missed[j]
    BY DEF cacheVars
  <2>3. shown[j] # Loading => \A e \in shown[j] : WasOf(e.id, j)'
    <3> SUFFICES ASSUME shown[j] # Loading, NEW e \in shown[j] PROVE WasOf(e.id, j)'
      OBVIOUS
    <3>1. WasOf(e.id, j)
      BY <2>1 DEF PageSound
    <3>2. PICK n \in Ids : n = e.id
      BY <3>1 DEF WasOf
    <3> QED
      BY <1>3, <2>1, <3>1, <3>2 DEF WasOf
  <2>4. \A e \in fetch[j].list : WasOf(e.id, j)'
    <3> SUFFICES ASSUME NEW e \in fetch[j].list PROVE WasOf(e.id, j)'
      OBVIOUS
    <3>1. WasOf(e.id, j)
      BY <2>1 DEF PageSound
    <3>2. PICK n \in Ids : n = e.id
      BY <3>1 DEF WasOf
    <3> QED
      BY <1>3, <2>1, <3>1, <3>2 DEF WasOf
  <2>5. CASE j = k
    <3>1. Changed(j)'
      BY <1>1, <2>5 DEF Changed, At
    <3> QED
      BY <2>2, <2>3, <2>4, <3>1 DEF PageSound, WasOf
  <2>6. CASE j # k
    <3>1. List(j)' = List(j)
      BY <1>5, <2>1, <2>6 DEF List
    <3>2. Changed(j) => Changed(j)'
      BY <1>1 DEF Changed, At
    <3> QED
      BY <2>1, <2>2, <2>3, <2>4, <3>1, <3>2 DEF PageSound, WasOf
  <2> QED
    BY <2>5, <2>6
<1> QED
  BY <1>1, <1>2, <1>4, <1>6, <1>7 DEF WorkspaceInv

LEMMA NoDocTyped ==
    NoDoc \in Doc /\ NoDoc.kind = "none" /\ NoDoc.name = NoName /\ NoDoc.status = "pending"
BY DEF NoDoc, Doc, Status

(* The index on the name, and the room the request found *)
LEMMA CreateInv ==
    ASSUME WorkspaceInv, NEW c \in Calls, Create(c), UNCHANGED cacheVars
    PROVE  WorkspaceInv'
<1>1. /\ call[c].pc = "create" /\ call[c] \in Call /\ CallSound(c) /\ doc \in [Ids -> Doc]
      /\ call[c].kind \in Kinds /\ call[c].todo = {} /\ call[c].count < Limit
  BY Typed DEF Create, At, WorkspaceInv, CallSound
<1> PICK k \in Kinds : k = call[c].kind
  BY <1>1
<1>2. CASE Answer(c, "error") /\ UNCHANGED doc
  BY <1>1, <1>2, ErrorInv
<1>3. CASE ~Duplicate(c) /\ Answer(c, "ok") /\ ~UNCHANGED doc
  <2> DEFINE d == [NoDoc EXCEPT !.kind = k, !.name = call[c].name]
  <2>1. PICK i \in Unused : doc' = [doc EXCEPT ![i] = d]
    BY <1>3 DEF Create
  <2>2. d \in Doc /\ d.kind = k /\ d.name = call[c].name
    BY <1>1, NoDocTyped DEF Doc, Call, Kinds
  <2>3. i \in Ids /\ doc[i].kind = "none"
    BY DEF Unused
  <2> HIDE DEF d
  <2>4. /\ doc' \in [Ids -> Doc] /\ doc'[i] = d
        /\ \A j \in Ids \ {i} : doc'[j] = doc[j]
    BY <1>1, <2>1, <2>2, <2>3
  <2>5. \A j \in Kinds : ~WasOf(i, j)
    BY <2>3 DEF WasOf, Kinds
  <2>6. OfKind(k)' = OfKind(k) \cup {i}
    BY <2>2, <2>3, <2>4 DEF OfKind
  <2>7. c \in Allowed(k) /\ c \notin Allowed(k)' /\ \A e \in Calls \ {c} : call'[e] = call[e]
    BY <1>1, <1>3, Answered DEF Allowed
  <2>8. Allowed(k)' \subseteq Allowed(k) \ {c}
    BY <2>7 DEF Allowed
  <2>9. Counted(k)'
    BY <2>6, <2>7, <2>8, CountedCreate DEF WorkspaceInv
  <2>10. NamesApart'
    <3>1. NamesApart
      BY DEF WorkspaceInv
    <3>2. CASE k = "domain"
      <4>1. \A j \in OfKind("domain") : doc[j].name # d.name /\ doc'[j] = doc[j] /\ j # i
        BY <1>3, <2>2, <2>3, <2>4, <3>2 DEF Duplicate, OfKind
      <4> QED
        BY <2>4, <2>6, <3>1, <3>2, <4>1 DEF NamesApart
    <3>3. CASE k # "domain"
      <4>1. OfKind("domain")' = OfKind("domain") /\ \A j \in OfKind("domain") : doc'[j] = doc[j]
        BY <2>2, <2>3, <2>4, <3>3 DEF OfKind
      <4> QED
        BY <3>1, <4>1 DEF NamesApart
    <3> QED
      BY <3>2, <3>3
  <2> QED
    BY <1>1, <1>3, <2>2, <2>3, <2>4, <2>5, <2>9, <2>10, DocStep
<1>4. CASE ~Duplicate(c) /\ Answer(c, "ok") /\ UNCHANGED doc
  <2>1. PICK i \in Unused : doc' = [doc EXCEPT ![i] = [NoDoc EXCEPT !.kind = k, !.name = call[c].name]]
    BY <1>4 DEF Create
  <2> DEFINE d == [NoDoc EXCEPT !.kind = k, !.name = call[c].name]
  <2>2. d.kind = k
    BY NoDocTyped DEF Doc
  <2> HIDE DEF d
  <2>3. doc' = [doc EXCEPT ![i] = d]
    BY <2>1 DEF d
  <2>4. i \in Ids /\ doc[i].kind = "none" /\ doc'[i] = d
    BY <1>1, <2>3 DEF Unused
  <2> QED
    BY <1>4, <2>2, <2>4 DEF Kinds
<1> QED
  BY <1>2, <1>3, <1>4 DEF Create

LEMMA DeleteInv ==
    ASSUME WorkspaceInv, NEW c \in Calls, Delete(c), UNCHANGED cacheVars
    PROVE  WorkspaceInv'
<1>1. /\ call[c].pc = "delete" /\ doc \in [Ids -> Doc] /\ Answer(c, "ok")
      /\ call[c].kind \in Kinds /\ WasOf(call[c].id, call[c].kind)
      /\ doc' = [doc EXCEPT ![call[c].id] = [NoDoc EXCEPT !.kind = "removed"]]
  BY Typed DEF Delete, At, WorkspaceInv, CallSound
<1> PICK k \in Kinds : k = call[c].kind
  BY <1>1
<1> PICK i \in Ids : i = call[c].id
  BY <1>1 DEF WasOf
<1> DEFINE d == [NoDoc EXCEPT !.kind = "removed"]
<1>2. d \in Doc /\ d.kind = "removed"
  BY NoDocTyped DEF Doc
<1> HIDE DEF d
<1>3. /\ doc' \in [Ids -> Doc] /\ doc'[i].kind = "removed"
      /\ \A j \in Ids \ {i} : doc'[j] = doc[j]
  BY <1>1, <1>2 DEF d
<1>4. doc[i].kind \in {k, "removed"}
  BY <1>1 DEF WasOf
<1>5. \A j \in Kinds : WasOf(i, j)'
  BY <1>3 DEF WasOf
<1>6. \A j \in Kinds : OfKind(j)' \subseteq OfKind(j)
  BY <1>3 DEF OfKind, Kinds
<1>7. NamesApart'
  <2>1. NamesApart /\ OfKind("domain")' \subseteq OfKind("domain") /\ i \notin OfKind("domain")'
    BY <1>3, <1>6 DEF WorkspaceInv, Kinds, OfKind
  <2>2. \A j \in OfKind("domain")' : doc'[j] = doc[j]
    BY <1>3, <2>1 DEF OfKind
  <2> QED
    BY <2>1, <2>2 DEF NamesApart
<1>8. Counted(k)'
  <2>1. Allowed(k)' \subseteq Allowed(k)
    BY <1>1, Answered, OthersAllowed
  <2> QED
    BY <1>6, <2>1, CountedStays DEF WorkspaceInv
<1> QED
  BY <1>1, <1>3, <1>4, <1>5, <1>7, <1>8, DocStep

LEMMA SaveInv ==
    ASSUME WorkspaceInv, NEW c \in Calls, SaveVerification(c), UNCHANGED cacheVars
    PROVE  WorkspaceInv'
<1>1. /\ call[c].pc = "save" /\ doc \in [Ids -> Doc] /\ call[c] \in Call
      /\ call[c].kind \in Kinds /\ WasOf(call[c].id, call[c].kind)
  BY Typed DEF SaveVerification, At, WorkspaceInv, CallSound
<1> PICK k \in Kinds : k = call[c].kind
  BY <1>1
<1> PICK i \in Ids : i = call[c].id
  BY <1>1 DEF WasOf
<1>2. CASE Answer(c, "error") /\ UNCHANGED doc
  BY <1>1, <1>2, ErrorInv
<1>3. CASE Stored(i) /\ Answer(c, "ok") /\ ~(Answer(c, "error") /\ UNCHANGED doc)
  <2> DEFINE new == StatusAfter(call[c].loaded, call[c].found)
             s == IF new = call[c].loaded THEN doc[i].status ELSE new
             d == [doc[i] EXCEPT !.status = s]
  <2>1. doc' = [doc EXCEPT ![i] = d]
    BY <1>3 DEF SaveVerification
  <2>2. new \in Status
    <3>1. call[c].loaded \in Status
      BY <1>1 DEF Call
    <3> QED
      BY <3>1 DEF StatusAfter, Status
  <2> HIDE DEF new
  <2>3. s \in Status
    BY <1>1, <2>2 DEF Doc
  <2> HIDE DEF s
  <2>4. d \in Doc /\ d.kind = doc[i].kind /\ d.name = doc[i].name
    BY <1>1, <2>3 DEF Doc
  <2> HIDE DEF d
  <2>5. /\ doc' \in [Ids -> Doc] /\ doc'[i] = d
        /\ \A j \in Ids \ {i} : doc'[j] = doc[j]
    BY <1>1, <2>1, <2>4
  <2>6. \A j \in Ids : doc'[j].kind = doc[j].kind /\ doc'[j].name = doc[j].name
    BY <2>4, <2>5
  <2>7. doc[i].kind \in {k, "removed"} /\ \A j \in Kinds : WasOf(i, j) => WasOf(i, j)'
    BY <1>1, <2>6 DEF WasOf
  <2>8. \A j \in Kinds : OfKind(j)' = OfKind(j)
    BY <2>6 DEF OfKind
  <2>9. NamesApart'
    BY <2>6 DEF NamesApart, WorkspaceInv, OfKind
  <2>10. Counted(k)'
    <3>1. Allowed(k)' \subseteq Allowed(k)
      BY <1>1, <1>3, Answered, OthersAllowed
    <3> QED
      BY <2>8, <3>1, CountedStays DEF WorkspaceInv
  <2> QED
    BY <1>1, <1>3, <2>5, <2>6, <2>7, <2>9, <2>10, DocStep
<1> QED
  BY <1>2, <1>3 DEF SaveVerification
-----------------------------------------------------------------------------
LEMMA FetchTyped ==
    /\ NoFetch \in Fetch /\ NoFetch.pc = "none" /\ NoFetch.list = {}
    /\ Sent \in Fetch /\ Sent.pc = "sent" /\ Sent.list = {}
BY DEF NoFetch, Sent, Fetch

LEMMA ListTyped ==
    ASSUME WorkspaceInv, NEW k \in Kinds
    PROVE  List(k) \in SUBSET Entry /\ \A e \in List(k) : WasOf(e.id, k)
<1>1. ASSUME NEW i \in OfKind(k)
      PROVE  /\ [id |-> i, status |-> doc[i].status] \in Entry
             /\ WasOf([id |-> i, status |-> doc[i].status].id, k)
  <2>1. i \in Ids /\ doc[i].kind = k
    BY DEF OfKind
  <2>2. doc[i].status \in Status
    BY <2>1, Typed DEF Doc
  <2> QED
    BY <2>1, <2>2 DEF Entry, WasOf
<1> QED
  BY <1>1 DEF List

(* A query changes, nothing is stored, and no call starts or ends. *)
LEMMA PageStep ==
    ASSUME WorkspaceInv, UNCHANGED provVars, NEW k \in Pages,
           shown' \in [Pages -> {Loading} \cup SUBSET Entry], fetch' \in [Pages -> Fetch],
           missed' \in [Pages -> BOOLEAN], PageSound(k)',
           \A j \in Pages \ {k} :
              shown'[j] = shown[j] /\ fetch'[j] = fetch[j] /\ missed'[j] = missed[j]
    PROVE  WorkspaceInv'
<1>1. TypeOK'
  BY DEF WorkspaceInv, TypeOK, ProvTypeOK, provVars, Fetch, Entry
<1>2. \A j \in Kinds : Counted(j)'
  BY DEF WorkspaceInv, Counted, OfKind, Allowed, provVars
<1>3. NamesApart' /\ \A c \in Calls : CallSound(c)'
  BY DEF WorkspaceInv, NamesApart, OfKind, CallSound, WasOf, provVars
<1>4. \A j \in Pages : PageSound(j)'
  BY DEF WorkspaceInv, PageSound, WasOf, List, OfKind, Changed, At, provVars
<1> QED
  BY <1>1, <1>2, <1>3, <1>4 DEF WorkspaceInv

LEMMA RefetchInv ==
    ASSUME WorkspaceInv, NEW k \in Pages, Refetch(k)
    PROVE  WorkspaceInv'
<1>1. /\ UNCHANGED <<provVars, shown>> /\ fetch' = [fetch EXCEPT ![k] = Sent]
      /\ missed' = [missed EXCEPT ![k] = FALSE] /\ PageSound(k)
  BY DEF Refetch, WorkspaceInv
<1>2. missed' \in [Pages -> BOOLEAN] /\ \A j \in Pages \ {k} : missed'[j] = missed[j]
  BY <1>1, Typed
<1>3. /\ fetch' \in [Pages -> Fetch] /\ fetch'[k] = Sent
      /\ \A j \in Pages \ {k} : fetch'[j] = fetch[j]
  BY <1>1, Typed, FetchTyped
<1>4. PageSound(k)'
  BY <1>1, <1>3, FetchTyped DEF PageSound, WasOf, provVars
<1> QED
  BY <1>1, <1>2, <1>3, <1>4, PageStep, Typed

LEMMA AnswerListInv ==
    ASSUME WorkspaceInv, NEW k \in Pages, AnswerList(k)
    PROVE  WorkspaceInv'
<1> DEFINE f == [pc |-> "read", list |-> List(k)]
<1>1. UNCHANGED <<provVars, shown, missed>> /\ fetch' = [fetch EXCEPT ![k] = f] /\ PageSound(k)
  BY DEF AnswerList, WorkspaceInv
<1>2. k \in Kinds /\ List(k) \in SUBSET Entry /\ \A e \in List(k) : WasOf(e.id, k)
  BY ListTyped, WorkspaceAssumption
<1>3. f \in Fetch /\ f.pc = "read" /\ f.list = List(k)
  BY <1>2 DEF Fetch
<1> HIDE DEF f
<1>4. /\ fetch' \in [Pages -> Fetch] /\ fetch'[k] = f
      /\ \A j \in Pages \ {k} : fetch'[j] = fetch[j]
  BY <1>1, <1>3, Typed
<1>5. List(k)' = List(k)
  BY <1>1 DEF List, OfKind, provVars
<1>6. PageSound(k)'
  BY <1>1, <1>2, <1>3, <1>4, <1>5 DEF PageSound, WasOf, provVars
<1> QED
  BY <1>1, <1>4, <1>6, PageStep, Typed

LEMMA ShowListInv ==
    ASSUME WorkspaceInv, NEW k \in Pages, ShowList(k)
    PROVE  WorkspaceInv'
<1>1. /\ UNCHANGED <<provVars, missed>> /\ fetch' = [fetch EXCEPT ![k] = NoFetch]
      /\ shown' = [shown EXCEPT ![k] = fetch[k].list] /\ PageSound(k) /\ fetch[k].pc = "read"
  BY DEF ShowList, WorkspaceInv
<1>2. fetch[k].list \in SUBSET Entry
  BY Typed DEF Fetch
<1>3. /\ fetch' \in [Pages -> Fetch] /\ fetch'[k] = NoFetch
      /\ \A j \in Pages \ {k} : fetch'[j] = fetch[j]
  BY <1>1, Typed, FetchTyped
<1>4. /\ shown' \in [Pages -> {Loading} \cup SUBSET Entry] /\ shown'[k] = fetch[k].list
      /\ \A j \in Pages \ {k} : shown'[j] = shown[j]
  BY <1>1, <1>2, Typed
<1>5. List(k)' = List(k) /\ (Changed(k) => Changed(k)')
  BY <1>1 DEF List, OfKind, Changed, At, provVars
<1>6. PageSound(k)'
  BY <1>1, <1>3, <1>4, <1>5, FetchTyped DEF PageSound, WasOf, provVars
<1> QED
  BY <1>1, <1>3, <1>4, <1>6, PageStep, Typed
-----------------------------------------------------------------------------
(* A call ends after its change: its page refetches or has missed it. *)
LEMMA EndStep ==
    ASSUME WorkspaceInv, NEW c \in Calls, call' = [call EXCEPT ![c] = Idle],
           UNCHANGED <<doc, shown>>, fetch' \in [Pages -> Fetch], missed' \in [Pages -> BOOLEAN],
           NEW k, call[c].kind = k,
           k \in Pages => missed'[k] \/ fetch'[k].pc = "sent",
           k \in Pages => fetch'[k].list \subseteq fetch[k].list,
           \A j \in Pages \ {k} : fetch'[j] = fetch[j] /\ missed'[j] = missed[j]
    PROVE  WorkspaceInv'
<1>1. /\ call' \in [Calls -> Call] /\ call'[c].pc = "idle"
      /\ \A d \in Calls \ {c} : call'[d] = call[d]
  BY Typed, IdleTyped
<1>2. TypeOK'
  BY <1>1 DEF WorkspaceInv, TypeOK, ProvTypeOK, Fetch, Entry
<1>3. \A d \in Calls : CallSound(d)'
  BY <1>1 DEF WorkspaceInv, CallSound, WasOf
<1>4. ASSUME NEW j \in Kinds PROVE Counted(j)'
  <2>1. c \notin Allowed(j)' /\ OfKind(j)' = OfKind(j)
    BY <1>1 DEF Allowed, OfKind
  <2> QED
    BY <1>1, <2>1, OthersAllowed, CountedStays DEF WorkspaceInv
<1>5. NamesApart'
  BY DEF WorkspaceInv, NamesApart, OfKind
<1>6. ASSUME NEW j \in Pages PROVE PageSound(j)'
  <2>1. PageSound(j) /\ List(j)' = List(j)
    BY DEF WorkspaceInv, List, OfKind
  <2>2. CASE j = k
    BY <2>1, <2>2 DEF PageSound, WasOf
  <2>3. CASE j # k
    <3>1. Changed(j) => Changed(j)'
      BY <1>1, <2>3 DEF Changed, At
    <3> QED
      BY <2>1, <2>3, <3>1 DEF PageSound, WasOf
  <2> QED
    BY <2>2, <2>3
<1> QED
  BY <1>1, <1>2, <1>3, <1>4, <1>5, <1>6 DEF WorkspaceInv

LEMMA SucceedInv ==
    ASSUME WorkspaceInv, NEW c \in Calls, Succeed(c)
    PROVE  WorkspaceInv'
<1>1. call' = [call EXCEPT ![c] = Idle] /\ UNCHANGED <<doc, shown>>
  BY DEF Succeed
<1> DEFINE k == call[c].kind
<1>2. CASE k \notin Pages /\ UNCHANGED <<fetch, missed>>
  BY <1>1, <1>2, EndStep, Typed
<1>3. CASE /\ k \in Pages /\ Joins(k)
           /\ missed' = [missed EXCEPT ![k] = @ \/ shown[k] = Loading] /\ UNCHANGED fetch
  <2> PICK p \in Pages : p = call[c].kind
    BY <1>3
  <2>1. shown[p] = Loading
    BY <1>3 DEF Joins
  <2>2. /\ missed' \in [Pages -> BOOLEAN] /\ missed'[p]
        /\ \A j \in Pages \ {p} : missed'[j] = missed[j]
    BY <1>3, <2>1, Typed
  <2> QED
    BY <1>1, <1>3, <2>2, EndStep, Typed
<1>4. CASE /\ k \in Pages
           /\ fetch' = [fetch EXCEPT ![k] = Sent] /\ missed' = [missed EXCEPT ![k] = FALSE]
  <2> PICK p \in Pages : p = call[c].kind
    BY <1>4
  <2>1. missed' \in [Pages -> BOOLEAN] /\ \A j \in Pages \ {p} : missed'[j] = missed[j]
    BY <1>4, Typed
  <2>2. /\ fetch' \in [Pages -> Fetch] /\ fetch'[p].pc = "sent" /\ fetch'[p].list = {}
        /\ \A j \in Pages \ {p} : fetch'[j] = fetch[j]
    BY <1>4, Typed, FetchTyped
  <2> QED
    BY ZenonT(40), <1>1, <2>1, <2>2, EndStep
<1> QED
  BY <1>2, <1>3, <1>4 DEF Succeed

LEMMA LoseAnswerInv ==
    ASSUME WorkspaceInv, NEW c \in Calls, LoseAnswer(c)
    PROVE  WorkspaceInv'
<1>1. /\ call' = [call EXCEPT ![c] = Idle] /\ UNCHANGED <<doc, shown, fetch>>
      /\ call[c].kind \in Pages /\ missed' = [missed EXCEPT ![call[c].kind] = TRUE]
  BY DEF LoseAnswer
<1> PICK p \in Pages : p = call[c].kind
  BY <1>1
<1>2. /\ missed' \in [Pages -> BOOLEAN] /\ missed'[p]
      /\ \A j \in Pages \ {p} : missed'[j] = missed[j]
  BY <1>1, Typed
<1> QED
  BY <1>1, <1>2, EndStep, Typed
-----------------------------------------------------------------------------
LEMMA InitInv == Init => WorkspaceInv
<1> SUFFICES ASSUME Init PROVE WorkspaceInv
  OBVIOUS
<1>1. /\ doc = [i \in Ids |-> NoDoc] /\ call = [c \in Calls |-> Idle]
      /\ shown = [k \in Pages |-> Loading] /\ fetch = [k \in Pages |-> NoFetch]
  BY DEF Init, ProvInit
<1>2. missed \in [Pages -> BOOLEAN]
  BY DEF Init
<1>3. TypeOK
  BY <1>1, <1>2, NoDocTyped, IdleTyped, FetchTyped DEF TypeOK, ProvTypeOK
<1>4. \A k \in Kinds : OfKind(k) = {} /\ Allowed(k) = {}
  BY <1>1, NoDocTyped, IdleTyped DEF OfKind, Allowed, Kinds
<1>5. ASSUME NEW k \in Kinds PROVE Counted(k)
  <2>1. Cardinality(OfKind(k)) = 0 /\ Cardinality(Allowed(k)) = 0
    BY <1>4, FS_EmptySet
  <2> QED
    BY <2>1, CallsNumber, Numbers DEF Counted
<1>6. NamesApart
  BY <1>4 DEF NamesApart, Kinds
<1>7. \A c \in Calls : CallSound(c)
  BY <1>1, IdleTyped DEF CallSound
<1>8. \A k \in Pages : PageSound(k)
  BY <1>1, FetchTyped DEF PageSound
<1> QED
  BY <1>3, <1>5, <1>6, <1>7, <1>8 DEF WorkspaceInv

LEMMA NextInv ==
    ASSUME WorkspaceInv, [Next]_vars
    PROVE  WorkspaceInv'
<1>1. CASE \E k \in Pages : Refetch(k) \/ AnswerList(k) \/ ShowList(k)
  BY <1>1, RefetchInv, AnswerListInv, ShowListInv
<1>2. ASSUME NEW c \in Calls, Handle(c) /\ UNCHANGED cacheVars
      PROVE  WorkspaceInv'
  BY <1>2, CountInv, FindExistingInv, DecideInv, CreateInv, LoadOwnedInv, DeleteInv, LookupInv,
     SaveInv DEF Handle
<1>3. ASSUME NEW c \in Calls, Fail(c)
      PROVE  WorkspaceInv'
  BY <1>3, RestInv DEF Fail, At
<1>4. CASE UNCHANGED vars
  <2>1. UNCHANGED provVars /\ UNCHANGED cacheVars
    BY <1>4 DEF vars
  <2>2. TypeOK'
    BY <2>1 DEF WorkspaceInv, TypeOK, ProvTypeOK, provVars, cacheVars, Fetch, Entry
  <2>3. \A k \in Kinds : Counted(k)'
    BY <2>1 DEF WorkspaceInv, Counted, OfKind, Allowed, provVars
  <2>4. NamesApart' /\ \A c \in Calls : CallSound(c)'
    BY <2>1 DEF WorkspaceInv, NamesApart, OfKind, CallSound, WasOf, provVars
  <2>5. \A k \in Pages : PageSound(k)'
    BY <2>1 DEF WorkspaceInv, PageSound, WasOf, List, OfKind, Changed, At, provVars, cacheVars
  <2> QED
    BY <2>2, <2>3, <2>4, <2>5 DEF WorkspaceInv
<1> QED
  BY <1>1, <1>2, <1>3, <1>4, PressedInv, SucceedInv, LoseAnswerInv DEF Next

(* The inductive invariant: how many requests still hold room under the     *)
(* limit, and what a list that is read or shown has in common with the      *)
(* collection.                                                              *)
THEOREM WorkspaceIsSound == Spec => []WorkspaceInv
BY InitInv, NextInv, PTL DEF Spec

(* The collections, the handlers' memory and the query cache keep their     *)
(* types.                                                                   *)
THEOREM WorkspaceTyped == Spec => []TypeOK
<1>1. WorkspaceInv => TypeOK
  BY DEF WorkspaceInv
<1> QED
  BY <1>1, WorkspaceIsSound, PTL

(* The limit that domains/routes.ts:56-80 and credentials/routes.ts:40-55   *)
(* check before they await is exceeded by fewer documents than there are    *)
(* requests at once, and a domain is never stored twice.                    *)
THEOREM LimitIsNearlyKept == Spec => []LimitHolds
<1>1. ASSUME WorkspaceInv PROVE LimitHolds
  <2>1. ASSUME NEW k \in Kinds PROVE Cardinality(OfKind(k)) < Limit + Cardinality(Calls)
    <3>1. Cardinality(OfKind(k)) \in Nat /\ Cardinality(Allowed(k)) \in Nat
      BY KindNumber, AllowedNumber, Numbers
    <3> QED
      BY <1>1, <3>1, CallsNumber, Numbers DEF WorkspaceInv, Counted
  <2> QED
    BY <1>1, <2>1 DEF WorkspaceInv, NamesApart, LimitHolds
<1> QED
  BY <1>1, WorkspaceIsSound, PTL

(* A list the page shows when nothing is under way is what is stored, in    *)
(* whatever order changes and lists were answered (hooks.ts:125-176).       *)
THEOREM PagesCatchUp == Spec => []ShownIsStored
<1>1. ASSUME WorkspaceInv PROVE ShownIsStored
  <2> SUFFICES ASSUME NEW k \in Pages,
                      fetch[k].pc = "none" /\ shown[k] # Loading /\ ~missed[k],
                      \A c \in Calls : At(c, "idle") \/ call[c].kind # k
               PROVE  shown[k] = List(k)
    BY DEF ShownIsStored
  <2>1. ~Changed(k)
    BY DEF Changed, At
  <2> QED
    BY <1>1, <2>1 DEF WorkspaceInv, PageSound
<1> QED
  BY <1>1, WorkspaceIsSound, PTL

Confirmed(i) == i \in OfKind("domain") /\ doc[i].status = "verified"

(* What a step may do to a verified domain *)
StaysVerified(i) ==
    \/ doc'[i].kind = "removed" \/ doc'[i].status = "verified"
    \/ \E c \in Calls : At(c, "save") /\ call[c].id = i /\ call[c].loaded = "pending"

LEMMA SaveKeepsVerified ==
    ASSUME WorkspaceInv, NEW c \in Calls, SaveVerification(c), NEW i \in Ids, Confirmed(i)
    PROVE  StaysVerified(i)
<1>1. /\ call[c].pc = "save" /\ doc \in [Ids -> Doc] /\ call[c] \in Call
      /\ doc[i].status = "verified"
  BY Typed DEF SaveVerification, At, Confirmed
<1>2. CASE UNCHANGED doc
  BY <1>1, <1>2 DEF StaysVerified
<1>3. CASE call[c].id # i /\ ~UNCHANGED doc
  BY <1>1, <1>3 DEF StaysVerified, SaveVerification
<1>4. CASE call[c].id = i /\ ~UNCHANGED doc
  <2> DEFINE new == StatusAfter(call[c].loaded, call[c].found)
             s == IF new = call[c].loaded THEN doc[i].status ELSE new
  <2>1. doc' = [doc EXCEPT ![i].status = s]
    BY <1>4 DEF SaveVerification
  <2>2. call[c].loaded # "pending" => s = "verified"
    BY <1>1 DEF StatusAfter, Call, Status
  <2> HIDE DEF s
  <2>3. doc'[i].status = s
    BY <1>1, <2>1 DEF Doc
  <2> QED
    BY <1>1, <1>4, <2>2, <2>3 DEF StaysVerified, At
<1> QED
  BY <1>2, <1>3, <1>4

LEMMA StepKeepsVerified ==
    ASSUME WorkspaceInv, [Next]_vars, NEW i \in Ids, Confirmed(i)
    PROVE  StaysVerified(i)
<1>1. doc \in [Ids -> Doc] /\ doc[i].kind = "domain" /\ doc[i].status = "verified"
  BY Typed DEF Confirmed, OfKind
<1>2. CASE UNCHANGED doc
  BY <1>1, <1>2 DEF StaysVerified
<1>3. ASSUME NEW c \in Calls, Create(c)
      PROVE  StaysVerified(i)
  <2>1. CASE UNCHANGED doc
    BY <1>2, <2>1
  <2>2. CASE ~UNCHANGED doc
    <3>1. PICK n \in Unused : \E d : doc' = [doc EXCEPT ![n] = d]
      BY <1>3, <2>2 DEF Create
    <3>2. n # i
      BY <1>1 DEF Unused
    <3> QED
      BY <1>1, <3>1, <3>2 DEF StaysVerified
  <2> QED
    BY <2>1, <2>2
<1>4. ASSUME NEW c \in Calls, Delete(c)
      PROVE  StaysVerified(i)
  <2> DEFINE d == [NoDoc EXCEPT !.kind = "removed"]
  <2>1. d.kind = "removed" /\ doc' = [doc EXCEPT ![call[c].id] = d]
    BY <1>4, NoDocTyped DEF Delete, Doc
  <2> HIDE DEF d
  <2>2. doc'[i] = doc[i] \/ doc'[i] = d
    BY <1>1, <2>1
  <2> QED
    BY <1>1, <2>1, <2>2 DEF StaysVerified
<1>5. ASSUME NEW c \in Calls, Handle(c)
      PROVE  StaysVerified(i)
  <2>1. CASE SaveVerification(c)
    BY <2>1, SaveKeepsVerified
  <2>2. CASE \/ Count(c) \/ FindExisting(c) \/ Decide(c) \/ LoadOwned(c)
             \/ \E found \in BOOLEAN : LookupDkim(c, found)
    BY <1>2, <2>2 DEF Count, FindExisting, Decide, LoadOwned, LookupDkim
  <2> QED
    BY <1>3, <1>4, <1>5, <2>1, <2>2 DEF Handle
<1>6. ASSUME NEW c \in Calls,
             AddPressed(c) \/ CreatePressed(c) \/ RowPressed(c) \/ RevokePressed(c)
      PROVE  UNCHANGED doc
  BY <1>6 DEF AddPressed, CreatePressed, RowPressed, RevokePressed, Add, Open
<1>7. CASE UNCHANGED vars
  BY <1>2, <1>7 DEF vars, provVars
<1> QED
  BY <1>2, <1>5, <1>6, <1>7
     DEF Next, Refetch, AnswerList, ShowList, Succeed, Fail, LoseAnswer, provVars

(* A verified domain is verified until it is removed, whatever its later    *)
(* lookups find, except by a check that had loaded it before it was         *)
(* (domains/routes.ts:112-118).                                             *)
THEOREM VerificationStays == Spec => VerifiedStays
<1>1. ASSUME WorkspaceInv, [Next]_vars
      PROVE  \A i \in OfKind("domain") :
                doc[i].status = "verified" =>
                   \/ doc'[i].kind = "removed" \/ doc'[i].status = "verified"
                   \/ \E c \in Calls : /\ At(c, "save") /\ call[c].id = i
                                       /\ call[c].loaded = "pending"
  <2> SUFFICES ASSUME NEW i \in OfKind("domain"), doc[i].status = "verified"
               PROVE  StaysVerified(i)
    BY DEF StaysVerified
  <2> QED
    BY <1>1, StepKeepsVerified DEF Confirmed, OfKind
<1> QED
  BY <1>1, WorkspaceIsSound, PTL DEF Spec, VerifiedStays
=============================================================================
