----------------------------- MODULE SessionProofs -----------------------------
(***************************************************************************)
(* Proofs about Session, for any number of tabs, requests, password resets *)
(* and lost answers.                                                       *)
(***************************************************************************)
EXTENDS Session, TLAPS

(* A token issued since the last reset belongs to the session that began    *)
(* with it.  `clock`, `current` and `reset` are the server's now, version   *)
(* and revokedAt.                                                           *)
TokenOK(k, clock, current, reset) ==
    k # NoToken => /\ k \in Token
                   /\ k.at <= clock
                   /\ k.at > reset => k.version = current

(* What the server did is not asked of it again, and an answer that grants  *)
(* a session carries a token.                                               *)
RequestOK(q, clock, current, reset) ==
    /\ q \in Request
    /\ q.pc # "idle" => q.tab \in Tabs
    /\ q.pc = "granted" => q.token # NoToken
    /\ TokenOK(q.token, clock, current, reset)
    /\ q.done <= 1
    /\ q.kind # "work" \/ q.pc \in {"sent", "unauthorized", "waiting"} => q.done = 0

(* A tab that shows the dashboard has a token, and a refresh begun after    *)
(* signing out had no cookie to send.                                       *)
TabOK(x, clock, current, reset, out) ==
    /\ x \in Tab
    /\ TokenOK(x.token, clock, current, reset)
    /\ TokenOK(x.grant, clock, current, reset)
    /\ x.shown => x.token # NoToken
    /\ x.refresh = "granted" => x.grant # NoToken
    /\ out => x.refresh # "granted" /\ (x.refresh = "sent" => x.sent = NoCookie)

ServerOK ==
    /\ now \in 0..MaxTime /\ version \in Versions
    /\ revokedAt \in 0..MaxTime /\ revokedAt <= now
    /\ unfollowed \in BOOLEAN

StoreOK ==
    /\ cookie \in Versions \cup {NoCookie}
    /\ TokenOK(stored, now, version, revokedAt)
    /\ signedOut \in BOOLEAN
    /\ signedOut => stored = NoToken /\ cookie = NoCookie

TabsOK ==
    /\ tab \in [Tabs -> Tab]
    /\ \A t \in Tabs : TabOK(tab[t], now, version, revokedAt, signedOut)

RequestsOK ==
    /\ request \in [Requests -> Request]
    /\ \A r \in Requests : RequestOK(request[r], now, version, revokedAt)

(* Whoever waits, waits for a refresh that is under way. *)
WaitersOK ==
    \A r \in Requests : At(r, "waiting") => tab[request[r].tab].refresh # "none"

SessionInv ==
    /\ ServerOK /\ StoreOK /\ TabsOK /\ RequestsOK /\ WaitersOK
    /\ faults \in 0..MaxFaults
-----------------------------------------------------------------------------
LEMMA NoTokenOK == \A n, v, z : TokenOK(NoToken, n, v, z)
BY DEF TokenOK

LEMMA IdleRequest == \A n, v, z : RequestOK(Idle, n, v, z)
BY NoTokenOK DEF RequestOK, Idle, Request, Kinds

LEMMA LoadedTab ==
    ASSUME NEW n, NEW v, NEW z, NEW k, TokenOK(k, n, v, z), NEW out
    PROVE  TabOK(Loaded(k), n, v, z, out)
BY NoTokenOK DEF TabOK, Loaded, Tab, TokenOK

LEMMA SetRequest ==
    ASSUME RequestsOK, UNCHANGED server, NEW r \in Requests, NEW q,
           RequestOK(q, now, version, revokedAt), request' = [request EXCEPT ![r] = q]
    PROVE  RequestsOK'
BY DEF RequestsOK, server, RequestOK

LEMMA SetTab ==
    ASSUME TabsOK, UNCHANGED server, signedOut' => signedOut, NEW t \in Tabs, NEW x,
           TabOK(x, now, version, revokedAt, signedOut'), tab' = [tab EXCEPT ![t] = x]
    PROVE  TabsOK'
<1>1. tab' \in [Tabs -> Tab]
  BY DEF TabsOK, TabOK
<1>2. ASSUME NEW u \in Tabs PROVE TabOK(tab'[u], now', version', revokedAt', signedOut')
  <2>1. CASE u = t
    BY <2>1 DEF TabsOK, server
  <2>2. CASE u # t
    BY <2>2 DEF TabsOK, TabOK, server
  <2> QED
    BY <2>1, <2>2
<1> QED
  BY <1>1, <1>2 DEF TabsOK

(* What no request and no tab has to do with *)
LEMMA KeepServer == ASSUME ServerOK, UNCHANGED server PROVE ServerOK'
BY DEF ServerOK, server

LEMMA KeepTabs == ASSUME TabsOK, UNCHANGED <<server, tab, signedOut>> PROVE TabsOK'
BY DEF TabsOK, server

LEMMA KeepStore == ASSUME StoreOK, UNCHANGED <<server, cookie, stored, signedOut>> PROVE StoreOK'
BY DEF StoreOK, server

(* A request that does not begin to wait, in the state of a tab that does   *)
(* not finish its refresh                                                   *)
LEMMA KeepWaiters ==
    ASSUME RequestsOK, WaitersOK, NEW r \in Requests, NEW q, q.pc # "waiting",
           request' = [request EXCEPT ![r] = q],
           \A t \in Tabs : tab'[t].refresh = "none" => tab[t].refresh = "none"
    PROVE  WaitersOK'
<1> SUFFICES ASSUME NEW s \in Requests, (At(s, "waiting"))'
             PROVE  (tab[request[s].tab].refresh # "none")'
  BY DEF WaitersOK
<1>1. s # r /\ request'[s] = request[s]
  BY DEF At, RequestsOK
<1>2. request[s].tab \in Tabs /\ tab[request[s].tab].refresh # "none"
  BY <1>1 DEF At, RequestsOK, RequestOK, WaitersOK
<1> QED
  BY <1>1, <1>2
-----------------------------------------------------------------------------
LEMMA InitInv == Init => SessionInv
<1> SUFFICES ASSUME Init PROVE SessionInv
  OBVIOUS
<1>1. ServerOK
  BY SessionAssumption DEF Init, ServerOK, Versions
<1>2. TokenOK(stored, now, version, revokedAt)
  BY SessionAssumption DEF Init, TokenOK, Token, Versions
<1>3. StoreOK
  <2>1. signedOut \in BOOLEAN /\ ~signedOut
    BY DEF Init
  <2>2. cookie \in Versions \cup {NoCookie}
    BY SessionAssumption DEF Init, Versions
  <2> QED
    BY <1>2, <2>1, <2>2 DEF StoreOK
<1>4. \A t \in Tabs : TabOK(tab[t], now, version, revokedAt, signedOut)
  BY <1>2, LoadedTab DEF Init
<1>5. TabsOK
  BY <1>4 DEF Init, TabsOK, TabOK
<1>6. RequestsOK
  <2>1. \A r \in Requests : RequestOK(request[r], now, version, revokedAt)
    BY IdleRequest DEF Init
  <2> QED
    BY <2>1 DEF Init, RequestsOK, RequestOK
<1>7. WaitersOK
  BY DEF Init, WaitersOK, At, Idle
<1>8. faults \in 0..MaxFaults
  BY SessionAssumption DEF Init
<1> QED
  BY <1>1, <1>3, <1>5, <1>6, <1>7, <1>8 DEF SessionInv

(* What a tab asks for carries the token it has. *)
LEMMA AskedOK ==
    ASSUME TabsOK, NEW t \in Tabs, NEW kind \in Kinds
    PROVE  RequestOK(Asked(t, kind), now, version, revokedAt) /\ Asked(t, kind).pc = "sent"
<1> DEFINE shown == kind = "reset" /\ tab[t].shown
           token == IF kind = "work" THEN tab[t].token ELSE NoToken
<1>1. TabOK(tab[t], now, version, revokedAt, signedOut) /\ tab[t] \in Tab
  BY DEF TabsOK, TabOK
<1>2. shown \in BOOLEAN
  BY <1>1 DEF Tab
<1>3. token \in Token \cup {NoToken} /\ TokenOK(token, now, version, revokedAt)
  BY <1>1, NoTokenOK DEF TabOK, Tab
<1> HIDE DEF shown
<1>4. Asked(t, kind) = [pc |-> "sent", tab |-> t, kind |-> kind, token |-> token,
                        retried |-> FALSE, done |-> 0, wasShown |-> shown]
  <2>1. Asked(t, kind) = [Idle EXCEPT !.pc = "sent", !.tab = t, !.kind = kind,
                                      !.token = IF kind = "work" THEN tab[t].token ELSE @,
                                      !.wasShown = shown]
    BY DEF Asked, shown
  <2> QED
    BY <2>1 DEF Idle
<1> HIDE DEF token
<1>5. Asked(t, kind) \in Request
  BY <1>2, <1>3, <1>4 DEF Request
<1> QED
  BY <1>3, <1>4, <1>5 DEF RequestOK

LEMMA PressInv ==
    ASSUME SessionInv, NEW t \in Tabs, NEW r \in Requests, NEW kind \in Kinds, Press(t, r, kind)
    PROVE  SessionInv'
<1>1. /\ request' = [request EXCEPT ![r] = Asked(t, kind)]
      /\ UNCHANGED <<server, cookie, stored, tab, signedOut, faults>>
  BY DEF Press, browser
<1>2. RequestsOK' /\ WaitersOK'
  BY <1>1, AskedOK, SetRequest, KeepWaiters DEF SessionInv
<1> QED
  BY <1>1, <1>2, KeepServer, KeepStore, KeepTabs DEF SessionInv

(* A page that is loaded anew drops the requests of the one before it. *)
LEMMA LoadInv ==
    ASSUME SessionInv, NEW t \in Tabs, UNCHANGED <<server, cookie, stored, signedOut, faults>>,
           tab' = [tab EXCEPT ![t] = Loaded(stored)],
           request' \in [Requests -> Request],
           \A r \in Requests :
              \/ /\ RequestOK(request'[r], now, version, revokedAt)
                 /\ request'[r].pc # "waiting"
              \/ request'[r] = request[r] /\ r \notin InFlight(t)
    PROVE  SessionInv'
<1>1. TabsOK'
  BY LoadedTab, SetTab DEF SessionInv, StoreOK
<1>2. RequestsOK'
  BY DEF SessionInv, RequestsOK, server
<1>3. WaitersOK'
  <2> SUFFICES ASSUME NEW s \in Requests, (At(s, "waiting"))'
               PROVE  (tab[request[s].tab].refresh # "none")'
    BY DEF WaitersOK
  <2>1. request'[s] = request[s] /\ request[s].tab # t /\ request[s].tab \in Tabs
    BY DEF At, InFlight, SessionInv, RequestsOK, RequestOK
  <2> QED
    BY <2>1 DEF At, SessionInv, WaitersOK, TabsOK
<1> QED
  BY <1>1, <1>2, <1>3, KeepServer, KeepStore DEF SessionInv

LEMMA OpenLinkInv ==
    ASSUME SessionInv, NEW t \in Tabs, NEW r \in Requests, OpenLink(t, r)
    PROVE  SessionInv'
<1>1. RequestOK(Asked(t, "verify"), now, version, revokedAt) /\ Asked(t, "verify").pc = "sent"
  BY AskedOK DEF SessionInv, Kinds
<1>2. RequestOK(Idle, now, version, revokedAt) /\ Idle.pc # "waiting"
  BY IdleRequest DEF Idle
<1>3. \A q \in Requests :
        request'[q] = IF q = r THEN Asked(t, "verify")
                      ELSE IF q \in InFlight(t) THEN Idle ELSE request[q]
  BY DEF OpenLink
<1>4. request' \in [Requests -> Request]
  BY <1>1, <1>2 DEF OpenLink, SessionInv, RequestsOK, RequestOK
<1>5. \A q \in Requests :
         \/ RequestOK(request'[q], now, version, revokedAt) /\ request'[q].pc # "waiting"
         \/ request'[q] = request[q] /\ q \notin InFlight(t)
  BY <1>1, <1>2, <1>3
<1> QED
  BY <1>4, <1>5, LoadInv DEF OpenLink

LEMMA ReloadInv == ASSUME SessionInv, NEW t \in Tabs, Reload(t) PROVE SessionInv'
<1>1. RequestOK(Idle, now, version, revokedAt) /\ Idle.pc # "waiting"
  BY IdleRequest DEF Idle
<1>2. \A q \in Requests : request'[q] = IF q \in InFlight(t) THEN Idle ELSE request[q]
  BY DEF Reload
<1>3. request' \in [Requests -> Request]
  BY <1>1 DEF Reload, SessionInv, RequestsOK, RequestOK
<1>4. \A q \in Requests :
         \/ RequestOK(request'[q], now, version, revokedAt) /\ request'[q].pc # "waiting"
         \/ request'[q] = request[q] /\ q \notin InFlight(t)
  BY <1>1, <1>2
<1> QED
  BY <1>3, <1>4, LoadInv DEF Reload
-----------------------------------------------------------------------------
(* What the server changes by itself leaves every token as good as it was:  *)
(* time passes, or a reset voids them all.                                  *)
Forward ==
    /\ ServerOK'
    /\ \/ now <= now' /\ UNCHANGED <<version, revokedAt>>
       \/ now' = now /\ revokedAt' = now

LEMMA ForwardToken ==
    ASSUME ServerOK, Forward, NEW k, TokenOK(k, now, version, revokedAt)
    PROVE  TokenOK(k, now', version', revokedAt')
<1> SUFFICES ASSUME k # NoToken
             PROVE  TokenOK(k, now', version', revokedAt')
  BY DEF TokenOK
<1>1. k \in Token /\ k.at <= now /\ (k.at > revokedAt => k.version = version) /\ k.at \in Nat
  BY SessionAssumption DEF TokenOK, Token
<1>2. /\ now \in Nat /\ now' \in Nat /\ revokedAt \in Nat /\ revokedAt' \in Nat
  BY SessionAssumption DEF ServerOK, Forward
<1>3. k.at <= now'
  BY <1>1, <1>2 DEF Forward
<1>4. k.at > revokedAt' => k.version = version'
  BY <1>1, <1>2 DEF Forward
<1> QED
  BY <1>1, <1>3, <1>4 DEF TokenOK

LEMMA ForwardAll ==
    ASSUME SessionInv, Forward, UNCHANGED <<cookie, stored, tab, signedOut>>
    PROVE  StoreOK' /\ TabsOK'
<1>1. StoreOK'
  BY ForwardToken DEF SessionInv, StoreOK
<1>2. ASSUME NEW t \in Tabs PROVE TabOK(tab[t], now', version', revokedAt', signedOut)
  BY ForwardToken DEF SessionInv, TabsOK, TabOK
<1> QED
  BY <1>1, <1>2 DEF SessionInv, TabsOK

LEMMA ForwardRequest ==
    ASSUME SessionInv, Forward, NEW r \in Requests
    PROVE  RequestOK(request[r], now', version', revokedAt')
BY ForwardToken DEF SessionInv, RequestsOK, RequestOK

LEMMA ServerStep ==
    ASSUME SessionInv, Forward, UNCHANGED <<browser, request, faults>>
    PROVE  SessionInv'
<1>1. StoreOK' /\ TabsOK'
  BY ForwardAll DEF browser
<1>2. RequestsOK'
  BY ForwardRequest DEF SessionInv, RequestsOK
<1>3. WaitersOK'
  BY DEF SessionInv, WaitersOK, At, browser
<1> QED
  BY <1>1, <1>2, <1>3 DEF SessionInv, Forward

LEMMA TickInv == ASSUME SessionInv, Tick PROVE SessionInv'
<1>1. now \in 0..MaxTime /\ now' = now + 1 /\ now' <= MaxTime
  BY SessionAssumption DEF Tick, SessionInv, ServerOK
<1>2. Forward
  BY <1>1, SessionAssumption DEF Tick, Forward, SessionInv, ServerOK
<1> QED
  BY <1>2, ServerStep DEF Tick

LEMMA ResetForward == ASSUME SessionInv, ResetPassword PROVE Forward
<1>1. version' \in Versions
  BY SessionAssumption DEF ResetPassword, SessionInv, ServerOK, Versions
<1> QED
  BY <1>1, SessionAssumption DEF ResetPassword, Forward, SessionInv, ServerOK

LEMMA ResetElsewhereInv == ASSUME SessionInv, ResetElsewhere PROVE SessionInv'
BY ResetForward, ServerStep DEF ResetElsewhere

(* An answer to a request, whatever the server did for it *)
LEMMA AnswerStep ==
    ASSUME SessionInv, Forward, UNCHANGED <<browser, faults>>, NEW r \in Requests, NEW q,
           RequestOK(q, now', version', revokedAt'), q.pc # "waiting",
           request' = [request EXCEPT ![r] = q]
    PROVE  SessionInv'
<1>1. StoreOK' /\ TabsOK'
  BY ForwardAll DEF browser
<1>2. ASSUME NEW s \in Requests PROVE RequestOK(request'[s], now', version', revokedAt')
  BY ForwardRequest DEF SessionInv, RequestsOK
<1>3. RequestsOK'
  BY <1>2 DEF SessionInv, RequestsOK, RequestOK
<1>4. WaitersOK'
  BY KeepWaiters DEF SessionInv, browser
<1> QED
  BY <1>1, <1>3, <1>4 DEF SessionInv, Forward

LEMMA StandStill == ASSUME SessionInv, UNCHANGED server PROVE Forward
BY SessionAssumption DEF SessionInv, ServerOK, Forward, server

LEMMA AnsweredOK ==
    ASSUME SessionInv, Forward, NEW r \in Requests, request[r].pc # "idle",
           NEW pc \in {"ok", "cleared", "unauthorized", "failed"},
           pc = "unauthorized" => request[r].done = 0
    PROVE  LET q == [request[r] EXCEPT !.pc = pc]
           IN  RequestOK(q, now', version', revokedAt') /\ q.pc # "waiting"
<1> DEFINE q == [request[r] EXCEPT !.pc = pc]
<1>1. RequestOK(request[r], now', version', revokedAt')
  BY ForwardRequest
<1>2. /\ q \in Request /\ q.pc = pc /\ q.tab = request[r].tab /\ q.token = request[r].token
      /\ q.done = request[r].done /\ q.kind = request[r].kind
  BY <1>1 DEF RequestOK, Request
<1> HIDE DEF q
<1>3. RequestOK(q, now', version', revokedAt') /\ q.pc # "waiting"
  BY <1>1, <1>2 DEF RequestOK
<1> QED
  BY <1>3 DEF q

LEMMA AnswerInv ==
    ASSUME SessionInv, Forward, NEW r \in Requests, request[r].pc # "idle",
           NEW pc \in {"ok", "cleared", "unauthorized", "failed"},
           pc = "unauthorized" => request[r].done = 0, Answer(r, pc),
           UNCHANGED <<browser, faults>>
    PROVE  SessionInv'
<1> DEFINE q == [request[r] EXCEPT !.pc = pc]
<1>1. request' = [request EXCEPT ![r] = q]
  BY DEF Answer, SessionInv, RequestsOK
<1>2. RequestOK(q, now', version', revokedAt') /\ q.pc # "waiting"
  BY AnsweredOK
<1> QED
  BY <1>1, <1>2, AnswerStep

LEMMA IssueInv ==
    ASSUME SessionInv, Forward, NEW r \in Requests, At(r, "sent"), ~Is(r, "work"), Issue(r),
           UNCHANGED <<now, version, browser, faults>>
    PROVE  SessionInv'
<1> DEFINE k == [at |-> now, version |-> version]
           q == [request[r] EXCEPT !.pc = "granted", !.token = k]
<1>1. k \in Token /\ TokenOK(k, now', version', revokedAt')
  BY SessionAssumption DEF SessionInv, ServerOK, Token, TokenOK
<1>2. k # NoToken
  BY <1>1, SessionAssumption DEF Token, Versions
<1>3. request' = [request EXCEPT ![r] = q]
  BY DEF Issue, SessionInv, RequestsOK
<1>4. RequestOK(request[r], now, version, revokedAt) /\ request[r].done = 0
  BY DEF SessionInv, RequestsOK, RequestOK, At
<1> HIDE DEF k
<1>5. RequestOK(q, now', version', revokedAt') /\ q.pc # "waiting"
  BY <1>1, <1>2, <1>4 DEF RequestOK, Request, At
<1> QED
  BY <1>3, <1>5, AnswerStep

LEMMA ServeWorkInv ==
    ASSUME SessionInv, NEW r \in Requests, At(r, "sent"), ServeWork(r), UNCHANGED <<browser, faults>>
    PROVE  SessionInv'
<1> DEFINE q == [request[r] EXCEPT !.pc = "ok", !.done = request[r].done + 1]
<1>1. Forward /\ RequestOK(request[r], now', version', revokedAt') /\ request[r].done = 0
  BY StandStill, ForwardRequest DEF ServeWork, SessionInv, RequestsOK, RequestOK, At
<1>2. CASE request' = [request EXCEPT ![r].pc = "ok", ![r].done = @ + 1]
  <2>1. request' = [request EXCEPT ![r] = q]
    BY <1>2 DEF SessionInv, RequestsOK
  <2>2. request[r] \in Request /\ request[r].tab \in Tabs /\ request[r].kind = "work"
    BY <1>1 DEF RequestOK, At, ServeWork, Is
  <2>3. q = [request[r] EXCEPT !.pc = "ok", !.done = 1]
    BY <1>1, <2>2
  <2> HIDE DEF q
  <2>5. /\ q \in Request /\ q.pc = "ok" /\ q.tab = request[r].tab /\ q.token = request[r].token
        /\ q.done = 1 /\ q.kind = request[r].kind
    BY <2>2, <2>3 DEF Request
  <2>4. RequestOK(q, now', version', revokedAt') /\ q.pc # "waiting"
    BY <1>1, <2>2, <2>5 DEF RequestOK
  <2> QED
    BY <1>1, <2>1, <2>4, AnswerStep, StandStill DEF ServeWork
<1>3. CASE Answer(r, "failed") \/ Answer(r, "unauthorized")
  BY <1>1, <1>3, AnswerInv DEF At
<1> QED
  BY <1>2, <1>3 DEF ServeWork

LEMMA ServeLoginInv ==
    ASSUME SessionInv, NEW r \in Requests, At(r, "sent"), ServeLogin(r), UNCHANGED <<browser, faults>>
    PROVE  SessionInv'
<1>1. Forward /\ request[r].done = 0 /\ ~Is(r, "work")
  BY StandStill DEF ServeLogin, SessionInv, RequestsOK, RequestOK, At, Is
<1>2. CASE Issue(r)
  BY <1>1, <1>2, IssueInv DEF ServeLogin, server
<1>3. CASE Answer(r, "unauthorized") \/ Answer(r, "failed")
  BY <1>1, <1>3, AnswerInv DEF At
<1> QED
  BY <1>2, <1>3 DEF ServeLogin

LEMMA ServeVerifyInv ==
    ASSUME SessionInv, NEW r \in Requests, At(r, "sent"), ServeVerify(r), UNCHANGED <<browser, faults>>
    PROVE  SessionInv'
<1>1. Forward /\ ~Is(r, "work")
  <2>1. unfollowed' \in BOOLEAN
    BY DEF ServeVerify
  <2>2. now' = now /\ version' = version /\ revokedAt' = revokedAt
    BY DEF ServeVerify
  <2>3. ServerOK' /\ now <= now'
    BY <2>1, <2>2, SessionAssumption DEF SessionInv, ServerOK
  <2> QED
    BY <2>2, <2>3 DEF Forward, ServeVerify, Is
<1>2. CASE Issue(r)
  BY <1>1, <1>2, IssueInv DEF ServeVerify
<1>3. CASE Answer(r, "failed")
  BY <1>1, <1>3, AnswerInv DEF At
<1> QED
  BY <1>2, <1>3 DEF ServeVerify

LEMMA ServeResetInv ==
    ASSUME SessionInv, NEW r \in Requests, At(r, "sent"), ServeReset(r), UNCHANGED <<browser, faults>>
    PROVE  SessionInv'
<1>1. Forward
  BY StandStill, ResetForward DEF ServeReset
<1>2. Answer(r, "cleared") \/ Answer(r, "failed")
  BY DEF ServeReset
<1> QED
  BY <1>1, <1>2, AnswerInv DEF At

LEMMA ServeOtherInv ==
    ASSUME SessionInv, NEW r \in Requests, At(r, "sent"), ServeOther(r), UNCHANGED <<browser, faults>>
    PROVE  SessionInv'
<1>1. Forward
  BY StandStill DEF ServeOther
<1>2. Answer(r, "cleared") \/ Answer(r, "ok") \/ Answer(r, "failed")
  BY DEF ServeOther
<1> QED
  BY <1>1, <1>2, AnswerInv DEF At

LEMMA ServeInv == ASSUME SessionInv, NEW r \in Requests, Serve(r) PROVE SessionInv'
BY ServeWorkInv, ServeLoginInv, ServeVerifyInv, ServeResetInv, ServeOtherInv DEF Serve

LEMMA SettleInv == ASSUME SessionInv, NEW r \in Requests, Settle(r) PROVE SessionInv'
<1>1. Forward /\ RequestOK(Idle, now', version', revokedAt') /\ Idle.pc # "waiting"
  BY StandStill, IdleRequest DEF Settle, Idle
<1> QED
  BY <1>1, AnswerStep DEF Settle, End

LEMMA LoseAnswerInv == ASSUME SessionInv, NEW r \in Requests, LoseAnswer(r) PROVE SessionInv'
<1>1. Forward
  BY StandStill DEF LoseAnswer
<1>2. faults' \in 0..MaxFaults
  BY SessionAssumption DEF LoseAnswer, Fault, SessionInv
<1> DEFINE q == [request[r] EXCEPT !.pc = "failed"]
<1>3. request' = [request EXCEPT ![r] = q] /\ request[r].pc # "idle"
  BY DEF LoseAnswer, Answer, At, SessionInv, RequestsOK
<1>4. RequestOK(q, now, version, revokedAt) /\ q.pc # "waiting"
  BY <1>3 DEF SessionInv, RequestsOK, RequestOK, Request
<1>5. RequestsOK' /\ WaitersOK'
  BY <1>3, <1>4, SetRequest, KeepWaiters DEF LoseAnswer, SessionInv, browser
<1> QED
  BY <1>1, <1>2, <1>5, ForwardAll DEF LoseAnswer, browser, SessionInv, Forward
-----------------------------------------------------------------------------
(* A tab signs in, or ends or begins a refresh: its new state, and that of  *)
(* the browser, are sound, and nobody is left waiting.                      *)
LEMMA TabStep ==
    ASSUME SessionInv, UNCHANGED server, StoreOK', NEW t \in Tabs, NEW x,
           TabOK(x, now, version, revokedAt, signedOut'), tab' = [tab EXCEPT ![t] = x],
           signedOut' => signedOut, RequestsOK', WaitersOK', faults' \in 0..MaxFaults
    PROVE  SessionInv'
BY SetTab, KeepServer DEF SessionInv

LEMMA ServeRefreshInv == ASSUME SessionInv, NEW t \in Tabs, ServeRefresh(t) PROVE SessionInv'
<1> DEFINE k == [at |-> now, version |-> tab[t].sent]
           x == [tab[t] EXCEPT !.refresh = IF Renewable(t) THEN "granted" ELSE "refused",
                               !.grant = IF Renewable(t) THEN k ELSE @]
<1>1. TabOK(tab[t], now, version, revokedAt, signedOut) /\ tab[t].refresh = "sent"
  BY DEF ServeRefresh, SessionInv, TabsOK
<1>2. tab' = [tab EXCEPT ![t] = x]
  BY DEF ServeRefresh, SessionInv, TabsOK
<1>3. ASSUME Renewable(t) PROVE TabOK(x, now, version, revokedAt, signedOut)
  <2>1. k \in Token /\ k # NoToken /\ TokenOK(k, now, version, revokedAt)
    BY <1>3, SessionAssumption DEF Renewable, SessionInv, ServerOK, Token, TokenOK, Versions
  <2>2. ~signedOut
    BY <1>1, <1>3, SessionAssumption DEF Renewable, TabOK, SessionInv, ServerOK, Versions
  <2> HIDE DEF k
  <2>3. x = [tab[t] EXCEPT !.refresh = "granted", !.grant = k]
    BY <1>1, <1>3 DEF TabOK, Tab
  <2>4. TabOK(x, now, version, revokedAt, signedOut)
    BY <1>1, <2>1, <2>2, <2>3 DEF TabOK, Tab
  <2> QED
    BY <2>4
<1>4. ASSUME ~Renewable(t) PROVE TabOK(x, now, version, revokedAt, signedOut)
  <2>1. x = [tab[t] EXCEPT !.refresh = "refused"]
    BY <1>1, <1>4 DEF TabOK, Tab
  <2> QED
    BY <1>1, <2>1 DEF TabOK, Tab
<1>5. TabOK(x, now, version, revokedAt, signedOut) /\ x.refresh # "none"
  <2>1. TabOK(x, now, version, revokedAt, signedOut)
    BY <1>3, <1>4
  <2>2. x.refresh \in {"granted", "refused"}
    BY <1>1 DEF TabOK, Tab
  <2> QED
    BY <2>1, <2>2
<1> HIDE DEF x
<1>6. UNCHANGED <<server, cookie, stored, signedOut, request, faults>>
  BY DEF ServeRefresh
<1>7. RequestsOK' /\ WaitersOK'
  BY <1>2, <1>5, <1>6 DEF SessionInv, RequestsOK, WaitersOK, TabsOK, server, At, RequestOK
<1>8. StoreOK' /\ faults' \in 0..MaxFaults
  BY <1>6, KeepStore DEF SessionInv
<1> QED
  BY <1>2, <1>5, <1>6, <1>7, <1>8, TabStep

(* A tab that shows the dashboard has just got the token it shows it with. *)
LEMMA ReceiveSessionInv == ASSUME SessionInv, NEW r \in Requests, ReceiveSession(r) PROVE SessionInv'
<1> DEFINE t == request[r].tab
           k == request[r].token
           x == [tab[t] EXCEPT !.token = k, !.shown = TRUE]
<1>1. t \in Tabs /\ k # NoToken /\ TokenOK(k, now, version, revokedAt)
  BY DEF ReceiveSession, At, SessionInv, RequestsOK, RequestOK
<1>2. k \in Token /\ k.version \in Versions
  BY <1>1 DEF TokenOK, Token
<1>3. TabOK(tab[t], now, version, revokedAt, signedOut) /\ tab[t] \in Tab
  BY <1>1 DEF SessionInv, TabsOK, TabOK
<1>4. tab' = [tab EXCEPT ![t] = x]
  BY DEF ReceiveSession, SignIn, SessionInv, TabsOK
<1>5. /\ stored' = k /\ cookie' = k.version /\ signedOut' = FALSE
      /\ request' = [request EXCEPT ![r] = Idle]
      /\ UNCHANGED <<server, faults>>
  BY DEF ReceiveSession, SignIn, End
<1>6. StoreOK'
  BY <1>1, <1>2, <1>5 DEF StoreOK, server
<1> HIDE DEF k
<1>7. x \in Tab /\ x.token = k /\ x.grant = tab[t].grant /\ x.refresh = tab[t].refresh
  BY <1>2, <1>3 DEF Tab
<1>8. TabOK(x, now, version, revokedAt, FALSE)
  BY <1>1, <1>3, <1>7 DEF TabOK
<1>9. RequestsOK'
  BY <1>5, IdleRequest, SetRequest DEF SessionInv
<1>10. \A u \in Tabs : tab'[u].refresh = tab[u].refresh
  BY <1>4, <1>7 DEF SessionInv, TabsOK
<1>11. WaitersOK'
  BY <1>5, <1>10, KeepWaiters DEF SessionInv, Idle
<1> HIDE DEF x
<1> QED
  BY <1>1, <1>4, <1>5, <1>6, <1>8, <1>9, <1>11, TabStep DEF SessionInv

(* Whatever the browser still has under way when it signs out cannot bring  *)
(* the session back, or it does not count as signed out.                    *)
LEMMA SignOutInv == ASSUME SessionInv, NEW r \in Requests, SignOut(r) PROVE SessionInv'
<1> DEFINE t == request[r].tab
           x == [tab[t] EXCEPT !.token = NoToken, !.shown = FALSE]
<1>1. t \in Tabs
  BY DEF SignOut, At, SessionInv, RequestsOK, RequestOK
<1>2. TabOK(tab[t], now, version, revokedAt, signedOut) /\ tab[t] \in Tab
  BY <1>1 DEF SessionInv, TabsOK, TabOK
<1>3. tab' = [tab EXCEPT ![t] = x]
  BY DEF SignOut, SessionInv, TabsOK
<1>4. /\ stored' = NoToken
      /\ request' = [request EXCEPT ![r] = Idle]
      /\ UNCHANGED <<server, faults>>
  BY DEF SignOut, AfterSignOut, End
<1>5. /\ cookie' \in Versions \cup {NoCookie} /\ signedOut' \in BOOLEAN
      /\ signedOut' => cookie' = NoCookie
      /\ signedOut' => signedOut \/ ~Refreshing
  <2>1. \/ cookie' = NoCookie /\ signedOut' = ~Refreshing
        \/ cookie' = cookie /\ signedOut' = signedOut
    BY DEF SignOut
  <2>2. signedOut \in BOOLEAN /\ cookie \in Versions \cup {NoCookie} /\ (signedOut => cookie = NoCookie)
    BY DEF SessionInv, StoreOK
  <2>3. signedOut' \in BOOLEAN
    BY <2>1, <2>2, Zenon DEF Refreshing
  <2>4. CASE cookie' = NoCookie /\ signedOut' = ~Refreshing
    <3>1. signedOut' => ~Refreshing
      BY <2>4, Zenon
    <3> QED
      BY <2>3, <2>4, <3>1, Zenon
  <2>5. CASE cookie' = cookie /\ signedOut' = signedOut
    BY <2>2, <2>5, Zenon
  <2> QED
    BY <2>1, <2>4, <2>5
<1>6. StoreOK'
  BY <1>4, <1>5, NoTokenOK DEF StoreOK
<1>7. x \in Tab /\ x.token = NoToken /\ x.grant = tab[t].grant /\ x.refresh = tab[t].refresh
      /\ x.sent = tab[t].sent /\ x.shown = FALSE
  BY <1>2 DEF Tab
<1> HIDE DEF x
<1>8. TabOK(x, now, version, revokedAt, signedOut)
  BY <1>2, <1>7, NoTokenOK DEF TabOK
<1>9. ASSUME NEW u \in Tabs PROVE tab'[u].refresh = tab[u].refresh
                                   /\ TabOK(tab'[u], now, version, revokedAt, signedOut)
  BY <1>3, <1>7, <1>8 DEF SessionInv, TabsOK
<1>10. ASSUME NEW u \in Tabs PROVE TabOK(tab'[u], now, version, revokedAt, signedOut')
  <2>1. signedOut' => signedOut \/ tab'[u].refresh = "none"
    BY <1>5, <1>9 DEF Refreshing
  <2> QED
    BY <1>9, <2>1 DEF TabOK
<1>11. TabsOK'
  BY <1>3, <1>4, <1>7, <1>10 DEF SessionInv, TabsOK, server
<1>12. RequestsOK'
  BY <1>4, IdleRequest, SetRequest DEF SessionInv
<1>13. WaitersOK'
  BY <1>4, <1>9, KeepWaiters DEF SessionInv, Idle
<1> QED
  BY <1>4, <1>6, <1>11, <1>12, <1>13, KeepServer DEF SessionInv

LEMMA ReceiveResetInv == ASSUME SessionInv, NEW r \in Requests, ReceiveReset(r) PROVE SessionInv'
<1> DEFINE p == [request[r] EXCEPT !.pc = "sent", !.kind = "logout", !.wasShown = FALSE]
<1>1. RequestOK(request[r], now, version, revokedAt) /\ request[r].pc = "cleared" /\ request[r].kind = "reset"
  BY DEF ReceiveReset, At, Is, SessionInv, RequestsOK
<1>2. PICK q \in {p, Idle} : request' = [request EXCEPT ![r] = q]
  BY DEF ReceiveReset, End, SessionInv, RequestsOK
<1>3. RequestOK(p, now, version, revokedAt) /\ p.pc # "waiting"
  <2>1. /\ p \in Request /\ p.pc = "sent" /\ p.tab = request[r].tab /\ p.token = request[r].token
        /\ p.done = request[r].done /\ p.kind = "logout"
    BY <1>1 DEF RequestOK, Request, Kinds
  <2>2. request[r].tab \in Tabs /\ request[r].done = 0
    BY <1>1 DEF RequestOK
  <2> HIDE DEF p
  <2> QED
    BY <1>1, <2>1, <2>2 DEF RequestOK
<1> HIDE DEF p
<1>4. RequestOK(q, now, version, revokedAt) /\ q.pc # "waiting"
  <2>1. RequestOK(Idle, now, version, revokedAt) /\ Idle.pc # "waiting"
    BY IdleRequest DEF Idle
  <2> QED
    BY <1>3, <2>1
<1>5. RequestsOK' /\ WaitersOK'
  BY <1>2, <1>4, SetRequest, KeepWaiters DEF ReceiveReset, SessionInv
<1>6. StoreOK'
  BY DEF ReceiveReset, SessionInv, StoreOK, server
<1>7. TabsOK' /\ ServerOK'
  BY KeepTabs, KeepServer DEF ReceiveReset, SessionInv
<1> QED
  BY <1>5, <1>6, <1>7 DEF ReceiveReset, SessionInv

(* A refresh begun after signing out has no cookie to send. *)
LEMMA AwaitRefreshInv == ASSUME SessionInv, NEW r \in Requests, AwaitRefresh(r) PROVE SessionInv'
<1> DEFINE t == request[r].tab
           y == [tab[t] EXCEPT !.refresh = "sent", !.sent = cookie]
           x == IF tab[t].refresh = "none" THEN y ELSE tab[t]
           q == [request[r] EXCEPT !.pc = "waiting"]
<1>1. /\ RequestOK(request[r], now, version, revokedAt) /\ request[r].pc = "unauthorized"
      /\ t \in Tabs /\ request[r].done = 0
  BY DEF AwaitRefresh, Retryable, At, SessionInv, RequestsOK, RequestOK
<1>2. TabOK(tab[t], now, version, revokedAt, signedOut) /\ tab[t] \in Tab
  BY <1>1 DEF SessionInv, TabsOK, TabOK
<1>3. tab' = [tab EXCEPT ![t] = x]
  BY DEF AwaitRefresh, SessionInv, TabsOK
<1>4. request' = [request EXCEPT ![r] = q]
  BY DEF AwaitRefresh, Answer, SessionInv, RequestsOK
<1>5. RequestOK(q, now, version, revokedAt)
  <2>1. /\ q \in Request /\ q.pc = "waiting" /\ q.tab = request[r].tab /\ q.token = request[r].token
        /\ q.done = request[r].done /\ q.kind = request[r].kind
    BY <1>1 DEF RequestOK, Request
  <2> HIDE DEF q
  <2> QED
    BY <1>1, <2>1 DEF RequestOK
<1>6. RequestsOK'
  BY <1>4, <1>5, SetRequest DEF SessionInv, AwaitRefresh
<1>7. TabOK(y, now, version, revokedAt, signedOut) /\ y.refresh = "sent"
  <2>1. cookie \in Versions \cup {NoCookie} /\ (signedOut => cookie = NoCookie)
    BY DEF SessionInv, StoreOK
  <2>2. /\ y \in Tab /\ y.token = tab[t].token /\ y.grant = tab[t].grant
        /\ y.refresh = "sent" /\ y.sent = cookie
    BY <1>2, <2>1 DEF Tab
  <2>3. y.shown => y.token # NoToken
    BY <1>2 DEF TabOK, Tab
  <2> HIDE DEF y
  <2> QED
    BY <1>2, <2>1, <2>2, <2>3 DEF TabOK
<1>8. TabOK(x, now, version, revokedAt, signedOut) /\ x.refresh # "none"
  BY <1>2, <1>7
<1> HIDE DEF x, y
<1>9. WaitersOK'
  <2> SUFFICES ASSUME NEW s \in Requests, (At(s, "waiting"))'
               PROVE  (tab[request[s].tab].refresh # "none")'
    BY DEF WaitersOK
  <2>1. request'[s].tab = request[s].tab
    BY <1>4 DEF SessionInv, RequestsOK
  <2>2. CASE request[s].tab = t
    BY <1>1, <1>3, <1>8, <2>1, <2>2 DEF SessionInv, TabsOK
  <2>3. CASE request[s].tab # t
    <3>1. s # r /\ request'[s] = request[s] /\ request[s].pc = "waiting" /\ request[s].tab \in Tabs
      BY <1>4, <2>3 DEF At, SessionInv, RequestsOK, RequestOK
    <3>2. tab'[request[s].tab] = tab[request[s].tab]
      BY <1>3, <2>3, <3>1 DEF SessionInv, TabsOK
    <3> QED
      BY <2>1, <3>1, <3>2 DEF At, SessionInv, WaitersOK
  <2> QED
    BY <2>2, <2>3
<1>10. StoreOK' /\ faults' \in 0..MaxFaults /\ UNCHANGED <<server, signedOut>>
  BY KeepStore DEF AwaitRefresh, SessionInv
<1> QED
  BY <1>1, <1>3, <1>6, <1>8, <1>9, <1>10, TabStep

LEMMA ReceiveStep == ASSUME SessionInv, NEW r \in Requests, Receive(r) PROVE SessionInv'
BY ReceiveSessionInv, SignOutInv, ReceiveResetInv, AwaitRefreshInv, SettleInv DEF Receive
-----------------------------------------------------------------------------
(* The waiting requests of a tab whose refresh is over, and the others *)
LEMMA OverInv ==
    ASSUME SessionInv, NEW t \in Tabs, NEW x,
           TabOK(x, now, version, revokedAt, signedOut'), tab' = [tab EXCEPT ![t] = x],
           signedOut' => signedOut, StoreOK', UNCHANGED <<server, faults>>,
           request' = [r \in Requests |-> request'[r]],
           \A r \in Requests :
              \/ RequestOK(request'[r], now, version, revokedAt) /\ request'[r].pc # "waiting"
              \/ request'[r] = request[r] /\ r \notin Waiting(t)
    PROVE  SessionInv'
<1>1. \A r \in Requests : /\ RequestOK(request'[r], now, version, revokedAt)
                          /\ request'[r] \in Request
  BY DEF SessionInv, RequestsOK, RequestOK
<1>2. RequestsOK'
  BY <1>1 DEF SessionInv, RequestsOK, server
<1>3. WaitersOK'
  <2> SUFFICES ASSUME NEW s \in Requests, (At(s, "waiting"))'
               PROVE  (tab[request[s].tab].refresh # "none")'
    BY DEF WaitersOK
  <2>1. s \notin Waiting(t) /\ request'[s] = request[s]
    BY DEF At
  <2>2. request[s].tab # t /\ request[s].tab \in Tabs /\ At(s, "waiting")
    BY <2>1 DEF At, Waiting, InFlight, SessionInv, RequestsOK, RequestOK
  <2> QED
    BY <2>1, <2>2 DEF SessionInv, WaitersOK, TabsOK
<1> QED
  BY <1>2, <1>3, TabStep DEF SessionInv

LEMMA RefreshedFields ==
    ASSUME NEW t \in Tabs, tab[t] \in Tab, NEW k \in Token \cup {NoToken}
    PROVE  /\ Refreshed(t, k) \in Tab /\ Refreshed(t, k).token = k
           /\ Refreshed(t, k).refresh = "none" /\ Refreshed(t, k).grant = NoToken
BY DEF Refreshed, Tab

LEMMA ReceiveGrantInv == ASSUME SessionInv, NEW t \in Tabs, ReceiveGrant(t) PROVE SessionInv'
<1> DEFINE k == tab[t].grant
           G(r) == [request[r] EXCEPT !.pc = "sent", !.retried = TRUE,
                                      !.token = IF Is(r, "work") THEN k ELSE @]
<1>1. TabOK(tab[t], now, version, revokedAt, signedOut) /\ tab[t] \in Tab /\ tab[t].refresh = "granted"
  BY DEF ReceiveGrant, SessionInv, TabsOK, TabOK
<1>2. /\ k # NoToken /\ TokenOK(k, now, version, revokedAt) /\ k \in Token
      /\ k.version \in Versions /\ ~signedOut
  BY <1>1 DEF TabOK, TokenOK, Token
<1>3. /\ tab' = [tab EXCEPT ![t] = Refreshed(t, k)]
      /\ stored' = k /\ cookie' = k.version
      /\ request' = [r \in Requests |-> IF r \in Waiting(t) THEN G(r) ELSE request[r]]
      /\ UNCHANGED <<server, signedOut, faults>>
  BY DEF ReceiveGrant
<1> HIDE DEF k
<1>4. StoreOK'
  BY <1>2, <1>3 DEF SessionInv, StoreOK, server
<1>5. TabOK(Refreshed(t, k), now, version, revokedAt, signedOut')
  BY ZenonT(40), <1>1, <1>2, <1>3, NoTokenOK, RefreshedFields DEF TabOK
<1>6. ASSUME NEW r \in Waiting(t)
      PROVE  RequestOK(G(r), now, version, revokedAt) /\ G(r).pc # "waiting"
  <2> DEFINE q == G(r)
             token == IF Is(r, "work") THEN k ELSE request[r].token
  <2>1. /\ request[r] \in Request /\ RequestOK(request[r], now, version, revokedAt)
        /\ request[r].pc = "waiting" /\ request[r].tab \in Tabs /\ request[r].done = 0
    BY DEF Waiting, InFlight, At, SessionInv, RequestsOK, RequestOK
  <2>2. TokenOK(token, now, version, revokedAt) /\ token \in Token \cup {NoToken}
    BY <1>2, <2>1 DEF RequestOK, TokenOK
  <2>3. q = [request[r] EXCEPT !.pc = "sent", !.retried = TRUE, !.token = token]
    BY <2>1 DEF Request
  <2> HIDE DEF q, token
  <2>4. /\ q \in Request /\ q.pc = "sent" /\ q.tab = request[r].tab /\ q.token = token
        /\ q.done = 0 /\ q.kind = request[r].kind
    BY <2>1, <2>2, <2>3 DEF Request
  <2>5. RequestOK(q, now, version, revokedAt) /\ q.pc # "waiting"
    BY <2>1, <2>2, <2>4 DEF RequestOK
  <2> QED
    BY <2>5 DEF q
<1> HIDE DEF G
<1>7. /\ request' = [r \in Requests |-> request'[r]]
      /\ \A r \in Requests :
            \/ RequestOK(request'[r], now, version, revokedAt) /\ request'[r].pc # "waiting"
            \/ request'[r] = request[r] /\ r \notin Waiting(t)
  BY <1>3, <1>6
<1> QED
  BY <1>3, <1>4, <1>5, <1>7, OverInv

LEMMA ReceiveRefusalInv == ASSUME SessionInv, NEW t \in Tabs, ReceiveRefusal(t) PROVE SessionInv'
<1> DEFINE x == AfterRefusal(t)
<1>1. TabOK(tab[t], now, version, revokedAt, signedOut) /\ tab[t] \in Tab
  BY DEF ReceiveRefusal, SessionInv, TabsOK, TabOK
<1>2. /\ tab' = [tab EXCEPT ![t] = x] /\ stored' = NoToken
      /\ request' = [r \in Requests |-> IF r \in Waiting(t) THEN Idle ELSE request[r]]
      /\ UNCHANGED <<server, cookie, signedOut, faults>>
  BY DEF ReceiveRefusal
<1>3. StoreOK'
  BY <1>2, NoTokenOK DEF SessionInv, StoreOK, server
<1>4. TabOK(x, now, version, revokedAt, signedOut)
  <2>1. /\ x \in Tab /\ x.token = NoToken /\ x.refresh = "none" /\ x.grant = NoToken /\ x.shown = FALSE
    BY ZenonT(40), <1>1, RefreshedFields DEF AfterRefusal, Tab
  <2> HIDE DEF x
  <2> QED
    BY <2>1, NoTokenOK DEF TabOK
<1>5. RequestOK(Idle, now, version, revokedAt) /\ Idle.pc # "waiting"
  BY IdleRequest DEF Idle
<1>6. /\ request' = [r \in Requests |-> request'[r]]
      /\ \A r \in Requests :
            \/ RequestOK(request'[r], now, version, revokedAt) /\ request'[r].pc # "waiting"
            \/ request'[r] = request[r] /\ r \notin Waiting(t)
  BY <1>2, <1>5
<1> HIDE DEF x
<1> QED
  BY <1>2, <1>3, <1>4, <1>6, OverInv

LEMMA LoseRefreshInv == ASSUME SessionInv, NEW t \in Tabs, LoseRefresh(t) PROVE SessionInv'
<1> DEFINE x == [tab[t] EXCEPT !.refresh = "refused", !.grant = NoToken]
<1>1. TabOK(tab[t], now, version, revokedAt, signedOut) /\ tab[t] \in Tab /\ tab[t].refresh # "none"
  BY DEF LoseRefresh, SessionInv, TabsOK, TabOK
<1>2. /\ tab' = [tab EXCEPT ![t] = x]
      /\ UNCHANGED <<server, cookie, stored, signedOut, request>>
  BY DEF LoseRefresh, SessionInv, TabsOK
<1>3. faults' \in 0..MaxFaults
  BY SessionAssumption DEF LoseRefresh, Fault, SessionInv
<1>4. x \in Tab /\ x.token = tab[t].token /\ x.shown = tab[t].shown /\ x.grant = NoToken /\ x.refresh = "refused"
  BY <1>1 DEF Tab
<1> HIDE DEF x
<1>5. TabOK(x, now, version, revokedAt, signedOut)
  BY <1>1, <1>4, NoTokenOK DEF TabOK
<1>6. RequestsOK' /\ WaitersOK'
  BY <1>1, <1>2, <1>4 DEF SessionInv, RequestsOK, WaitersOK, TabsOK, server, At, RequestOK
<1> QED
  BY <1>2, <1>3, <1>5, <1>6, KeepStore, TabStep DEF SessionInv

LEMMA CookieExpiresInv == ASSUME SessionInv, CookieExpires PROVE SessionInv'
<1>1. StoreOK'
  BY DEF CookieExpires, SessionInv, StoreOK, server
<1>2. RequestsOK' /\ WaitersOK'
  BY DEF CookieExpires, SessionInv, RequestsOK, WaitersOK, server, At
<1> QED
  BY <1>1, <1>2, KeepServer, KeepTabs DEF CookieExpires, SessionInv

LEMMA NextInv == SessionInv /\ [Next]_vars => SessionInv'
<1> SUFFICES ASSUME SessionInv, [Next]_vars PROVE SessionInv'
  OBVIOUS
<1>1. CASE UNCHANGED vars
  <2>1. RequestsOK' /\ WaitersOK'
    BY <1>1 DEF SessionInv, RequestsOK, WaitersOK, vars, server, browser, At
  <2> QED
    BY <1>1, <2>1, KeepServer, KeepStore, KeepTabs DEF SessionInv, vars, browser
<1>2. CASE Tick \/ ResetElsewhere \/ CookieExpires
  BY <1>2, TickInv, ResetElsewhereInv, CookieExpiresInv
<1>3. ASSUME NEW t \in Tabs,
             \/ ServeRefresh(t) \/ ReceiveGrant(t) \/ ReceiveRefusal(t) \/ LoseRefresh(t) \/ Reload(t)
             \/ \E r \in Requests : OpenLink(t, r) \/ \E kind \in Kinds : Press(t, r, kind)
      PROVE  SessionInv'
  BY <1>3, ServeRefreshInv, ReceiveGrantInv, ReceiveRefusalInv, LoseRefreshInv, ReloadInv,
     OpenLinkInv, PressInv
<1>4. ASSUME NEW r \in Requests, Serve(r) \/ Receive(r) \/ LoseAnswer(r) PROVE SessionInv'
  BY <1>4, ServeInv, ReceiveStep, LoseAnswerInv
<1> QED
  BY <1>1, <1>2, <1>3, <1>4 DEF Next
-----------------------------------------------------------------------------
(* The inductive invariant holds in every reachable state, however many     *)
(* tabs share the token and whatever they have under way (client.ts,        *)
(* AuthContext.tsx and the routes of auth.ts).                              *)
THEOREM SessionIsSound == Spec => []SessionInv
<1>1. Init => SessionInv
  BY InitInv
<1>2. SessionInv /\ [Next]_vars => SessionInv'
  BY NextInv
<1> QED
  BY <1>1, <1>2, PTL DEF Spec

(* Every variable keeps its type: no answer puts anything else into what    *)
(* the tabs, the browser's storage and the server hold.                     *)
THEOREM SessionTyped == Spec => []TypeOK
<1>1. SessionInv => TypeOK
  <2> SUFFICES ASSUME SessionInv PROVE TypeOK
    OBVIOUS
  <2>1. stored \in Token \cup {NoToken}
    BY DEF SessionInv, StoreOK, TokenOK
  <2> QED
    BY <2>1 DEF SessionInv, ServerOK, StoreOK, TabsOK, RequestsOK, TypeOK
<1> QED
  BY <1>1, SessionIsSound, PTL

(* A request that found the token expired is sent again only when the       *)
(* server had refused it, so what it asks for is done at most once, however *)
(* often tokens expire and answers get lost (client.ts:49-62).              *)
THEOREM RetryIsOnce == Spec => []DoneAtMostOnce
<1>1. SessionInv => DoneAtMostOnce
  BY DEF SessionInv, RequestsOK, RequestOK, DoneAtMostOnce
<1> QED
  BY <1>1, SessionIsSound, PTL

(* No token of an earlier session is accepted once the time in which the    *)
(* password was reset is over, in whatever tab, and although a refresh or   *)
(* a sign-in may be answered across the reset (auth.ts, ResetPassword.tsx). *)
THEOREM ResetEndsSessions == Spec => []ResetReachesAll
<1>1. SessionInv => ResetReachesAll
  <2> SUFFICES ASSUME SessionInv, NEW k, TokenOK(k, now, version, revokedAt), Valid(k)
               PROVE  k.version = version \/ revokedAt = now
    BY DEF SessionInv, StoreOK, TabsOK, TabOK, ResetReachesAll
  <2>1. k # NoToken /\ k.at = now
    BY DEF Valid
  <2>2. now \in Nat /\ revokedAt \in Nat /\ revokedAt <= now
    BY SessionAssumption DEF SessionInv, ServerOK
  <2> QED
    BY <2>1, <2>2 DEF TokenOK
<1> QED
  BY <1>1, SessionIsSound, PTL

(* After a sign-out that met no refresh under way, neither the token nor    *)
(* the cookie comes back until somebody signs in (AuthContext.tsx:73-78).   *)
THEOREM SignOutIsFinal == Spec => []SignedOutStays
<1>1. SessionInv => SignedOutStays
  BY DEF SessionInv, StoreOK, SignedOutStays
<1> QED
  BY <1>1, SessionIsSound, PTL

(* No tab shows the dashboard without a token, and no request waits for a   *)
(* refresh that is over (client.ts:32-48, AuthContext.tsx:34-40).           *)
THEOREM NobodyIsStuck == Spec => []NoTabStuck
<1>1. SessionInv => NoTabStuck
  BY DEF SessionInv, TabsOK, TabOK, WaitersOK, NoTabStuck, Waiting, InFlight
<1> QED
  BY <1>1, SessionIsSound, PTL
=============================================================================
