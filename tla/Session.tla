-------------------------------- MODULE Session --------------------------------
(***************************************************************************)
(* The session of one browser: tabs that share the stored access token and *)
(* the refresh cookie (dashboard api/client.ts, auth/AuthContext.tsx and   *)
(* the pages that sign in and out), and the routes that answer them.       *)
(*                                                                         *)
(* A token carries the time it was issued; it is good for the rest of that *)
(* unit of time, the lifetime of an access token.  Its version, which the  *)
(* code keeps in the refresh token only, says which session it came from.  *)
(***************************************************************************)
EXTENDS Naturals

CONSTANTS
    Tabs, NoTab,
    Requests,       \* requests that may be in progress at once
    NoToken, NoCookie,
    MaxTime,        \* bound on the time
    MaxResets,      \* bound on the password resets
    MaxFaults       \* bound on the answers that get lost

ASSUME SessionAssumption ==
    /\ NoTab \notin Tabs
    /\ MaxTime \in Nat /\ MaxResets \in Nat /\ MaxFaults \in Nat
    /\ NoCookie \notin 0..MaxResets
    /\ NoToken \notin [at: 0..MaxTime, version: 0..MaxResets]

VARIABLES
    now,
    version,     \* the user's sessionVersion
    unfollowed,  \* a verification link has been mailed and not been followed
    cookie,      \* the refresh cookie: the version it was signed for
    stored,      \* the access token in localStorage
    tab,
    request,
    revokedAt,   \* history: when the password was last reset
    signedOut,   \* history: the browser signed out, and nothing has signed in since
    faults

server == <<now, version, unfollowed, revokedAt>>
browser == <<cookie, stored, tab, signedOut>>
vars == <<server, browser, request, faults>>

Versions == 0..MaxResets
Token == [at: 0..MaxTime, version: Versions]

(* `shown`: the state `authenticated`; `refresh`: the promise `refreshing`, and the cookie it was sent with *)
Tab == [token: Token \cup {NoToken}, shown: BOOLEAN,
        refresh: {"none", "sent", "granted", "refused"},
        sent: Versions \cup {NoCookie}, grant: Token \cup {NoToken}]

(* "login": by password or Google; "ask": register, forgot-password, resend-verification *)
Kinds == {"work", "login", "verify", "ask", "reset", "logout"}

(* `token`: sent with the request, then the one its answer brings; `done`: how often the server did it. *)
Request == [pc: {"idle", "sent", "ok", "granted", "cleared", "unauthorized", "failed", "waiting"},
            tab: Tabs \cup {NoTab}, kind: Kinds, token: Token \cup {NoToken},
            retried: BOOLEAN, done: Nat,
            wasShown: BOOLEAN]      \* `authenticated` as the page saw it when it sent this

TypeOK ==
    /\ now \in 0..MaxTime /\ version \in Versions /\ revokedAt \in 0..MaxTime
    /\ unfollowed \in BOOLEAN /\ signedOut \in BOOLEAN
    /\ cookie \in Versions \cup {NoCookie}
    /\ stored \in Token \cup {NoToken}
    /\ tab \in [Tabs -> Tab]
    /\ request \in [Requests -> Request]
    /\ faults \in 0..MaxFaults

Idle == [pc |-> "idle", tab |-> NoTab, kind |-> "work", token |-> NoToken,
         retried |-> FALSE, done |-> 0, wasShown |-> FALSE]

(* A page that has just been loaded *)
Loaded(token) == [token |-> token, shown |-> token # NoToken, refresh |-> "none",
                  sent |-> NoCookie, grant |-> NoToken]

Init ==
    /\ now = 0 /\ version = 0 /\ revokedAt = 0
    /\ unfollowed \in BOOLEAN
    /\ \/ stored = NoToken /\ cookie = NoCookie
       \/ stored = [at |-> 0, version |-> 0] /\ cookie = 0
    /\ tab = [t \in Tabs |-> Loaded(stored)]
    /\ signedOut = FALSE
    /\ request = [r \in Requests |-> Idle]
    /\ faults = 0

At(r, pc) == request[r].pc = pc
Is(r, kind) == request[r].kind = kind
End(r) == request' = [request EXCEPT ![r] = Idle]
Answer(r, pc) == request' = [request EXCEPT ![r].pc = pc]
InFlight(t) == {r \in Requests : request[r].tab = t}
-----------------------------------------------------------------------------
(* App's routes: a signed-in user's pages, anybody else's forms, and the link to set a password *)
Reachable(t, kind) ==
    \/ kind \in {"work", "logout"} /\ tab[t].shown
    \/ kind \in {"login", "ask"} /\ ~tab[t].shown
    \/ kind = "reset"

(* A form's button is disabled while its request is under way.  Google's    *)
(* beside the sign-in form is not, nor is the one that signs out.           *)
Busy(t, kind) ==
    kind \in {"ask", "reset"} /\ \E r \in InFlight(t) : Is(r, kind)

Asked(t, kind) ==
    [Idle EXCEPT !.pc = "sent", !.tab = t, !.kind = kind,
                 !.token = IF kind = "work" THEN tab[t].token ELSE @,
                 !.wasShown = kind = "reset" /\ tab[t].shown]

Press(t, r, kind) ==
    /\ At(r, "idle") /\ Reachable(t, kind) /\ ~Busy(t, kind)
    /\ request' = [request EXCEPT ![r] = Asked(t, kind)]
    /\ UNCHANGED <<server, browser, faults>>

(* The mailed link is opened in a tab, signed in or not: its page posts the token as it loads. *)
OpenLink(t, r) ==
    /\ At(r, "idle")
    /\ tab' = [tab EXCEPT ![t] = Loaded(stored)]
    /\ request' = [q \in Requests |-> IF q = r THEN Asked(t, "verify")
                                      ELSE IF q \in InFlight(t) THEN Idle ELSE request[q]]
    /\ UNCHANGED <<server, cookie, stored, signedOut, faults>>
-----------------------------------------------------------------------------
(* requireAuth *)
Valid(token) == token # NoToken /\ token.at = now

(* A route behind requireAuth *)
ServeWork(r) ==
    /\ Is(r, "work")
    /\ \/ Valid(request[r].token) /\ request' = [request EXCEPT ![r].pc = "ok", ![r].done = @ + 1]
       \/ Valid(request[r].token) /\ Answer(r, "failed")
       \/ ~Valid(request[r].token) /\ Answer(r, "unauthorized")
    /\ UNCHANGED server

(* issueSession *)
Issue(r) ==
    request' = [request EXCEPT ![r].pc = "granted", ![r].token = [at |-> now, version |-> version]]

(* POST /login and /google: the credentials are right, wrong, or of an unconfirmed account. *)
ServeLogin(r) ==
    /\ Is(r, "login")
    /\ Issue(r) \/ Answer(r, "unauthorized") \/ Answer(r, "failed")
    /\ UNCHANGED server

ServeVerify(r) ==
    /\ Is(r, "verify")
    /\ \/ unfollowed /\ Issue(r)
       \/ ~unfollowed /\ Answer(r, "failed")
    /\ unfollowed' = FALSE
    /\ UNCHANGED <<now, version, revokedAt>>

ResetPassword ==
    /\ version < MaxResets
    /\ version' = version + 1
    /\ revokedAt' = now
    /\ UNCHANGED <<now, unfollowed>>

ServeReset(r) ==
    /\ Is(r, "reset")
    /\ \/ ResetPassword /\ Answer(r, "cleared")
       \/ Answer(r, "failed") /\ UNCHANGED server

ServeOther(r) ==
    /\ \/ Is(r, "logout") /\ Answer(r, "cleared")
       \/ Is(r, "ask") /\ (Answer(r, "ok") \/ Answer(r, "failed"))
    /\ UNCHANGED server

Serve(r) ==
    /\ At(r, "sent")
    /\ ServeWork(r) \/ ServeLogin(r) \/ ServeVerify(r) \/ ServeReset(r) \/ ServeOther(r)
    /\ UNCHANGED <<browser, faults>>

(* Mutant: any refresh token that is signed is honoured. *)
Renewable_Signed(t) == tab[t].sent # NoCookie

Renewable(t) == tab[t].sent = version

(* POST /refresh *)
ServeRefresh(t) ==
    /\ tab[t].refresh = "sent"
    /\ tab' = [tab EXCEPT
                 ![t].refresh = IF Renewable(t) THEN "granted" ELSE "refused",
                 ![t].grant = IF Renewable(t) THEN [at |-> now, version |-> tab[t].sent] ELSE @]
    /\ UNCHANGED <<server, cookie, stored, signedOut, request, faults>>
-----------------------------------------------------------------------------
(* applyToken, and the cookie that came along *)
SignIn(t, token) ==
    /\ tab' = [tab EXCEPT ![t].token = token, ![t].shown = TRUE]
    /\ stored' = token /\ cookie' = token.version
    /\ signedOut' = FALSE

ReceiveSession(r) ==
    /\ At(r, "granted")
    /\ SignIn(request[r].tab, request[r].token)
    /\ End(r)
    /\ UNCHANGED <<server, faults>>

Refreshing == \E t \in Tabs : tab[t].refresh # "none"

(* Mutant: the token stays in localStorage. *)
AfterSignOut_Kept == stored

AfterSignOut == NoToken

(* logout, when its request has been answered or has failed.  A refresh on  *)
(* its way brings the session back.                                         *)
SignOut(r) ==
    /\ Is(r, "logout")
    /\ tab' = [tab EXCEPT ![request[r].tab].token = NoToken, ![request[r].tab].shown = FALSE]
    /\ stored' = AfterSignOut
    /\ \/ At(r, "cleared") /\ cookie' = NoCookie /\ signedOut' = ~Refreshing
       \/ At(r, "failed") /\ UNCHANGED <<cookie, signedOut>>
    /\ End(r)
    /\ UNCHANGED <<server, faults>>

(* The password has been set; a tab that was signed in signs out too. *)
ReceiveReset(r) ==
    /\ Is(r, "reset") /\ At(r, "cleared")
    /\ cookie' = NoCookie
    /\ \/ request[r].wasShown /\ request' = [request EXCEPT ![r].pc = "sent", ![r].kind = "logout",
                                                                  ![r].wasShown = FALSE]
       \/ ~request[r].wasShown /\ End(r)
    /\ UNCHANGED <<server, stored, tab, signedOut, faults>>

(* Mutant: whatever fails is sent again. *)
Retryable_Any(r) == (At(r, "unauthorized") \/ At(r, "failed")) /\ ~request[r].retried

Retryable(r) == At(r, "unauthorized") /\ ~request[r].retried

(* The interceptor: wait for the refresh in progress, or start one *)
AwaitRefresh(r) ==
    /\ Retryable(r)
    /\ Answer(r, "waiting")
    /\ tab' = [tab EXCEPT ![request[r].tab] =
                  IF @.refresh = "none" THEN [@ EXCEPT !.refresh = "sent", !.sent = cookie] ELSE @]
    /\ UNCHANGED <<server, cookie, stored, signedOut, faults>>

(* The answer goes back to the page. *)
Settle(r) ==
    /\ At(r, "ok") \/ At(r, "failed") \/ At(r, "unauthorized")
    /\ ~Is(r, "logout") /\ ~Retryable(r)
    /\ End(r)
    /\ UNCHANGED <<server, browser, faults>>

Receive(r) ==
    ReceiveSession(r) \/ SignOut(r) \/ ReceiveReset(r) \/ AwaitRefresh(r) \/ Settle(r)
-----------------------------------------------------------------------------
Waiting(t) == {r \in InFlight(t) : At(r, "waiting")}

Refreshed(t, token) == [tab[t] EXCEPT !.token = token, !.refresh = "none", !.sent = NoCookie,
                                      !.grant = NoToken]

(* The waiting requests go out again with the new token. *)
ReceiveGrant(t) ==
    /\ tab[t].refresh = "granted"
    /\ LET token == tab[t].grant IN
       /\ tab' = [tab EXCEPT ![t] = Refreshed(t, token)]
       /\ stored' = token /\ cookie' = token.version
       /\ request' = [r \in Requests |->
             IF r \in Waiting(t) THEN [request[r] EXCEPT !.pc = "sent", !.retried = TRUE,
                                                         !.token = IF Is(r, "work") THEN token ELSE @]
                                 ELSE request[r]]
    /\ UNCHANGED <<server, signedOut, faults>>

(* Mutant: no onAuthLost *)
AfterRefusal_Shown(t) == Refreshed(t, NoToken)

AfterRefusal(t) == [Refreshed(t, NoToken) EXCEPT !.shown = FALSE]

(* The refresh was refused or got lost: the tab is signed out. *)
ReceiveRefusal(t) ==
    /\ tab[t].refresh = "refused"
    /\ tab' = [tab EXCEPT ![t] = AfterRefusal(t)]
    /\ stored' = NoToken
    /\ request' = [r \in Requests |-> IF r \in Waiting(t) THEN Idle ELSE request[r]]
    /\ UNCHANGED <<server, cookie, signedOut, faults>>
-----------------------------------------------------------------------------
Fault == faults < MaxFaults /\ faults' = faults + 1

(* The connection breaks before the request is served, or before its answer is read. *)
LoseAnswer(r) ==
    /\ Fault
    /\ ~At(r, "idle") /\ ~At(r, "waiting") /\ ~At(r, "failed")
    /\ Answer(r, "failed")
    /\ UNCHANGED <<server, browser>>

LoseRefresh(t) ==
    /\ Fault
    /\ tab[t].refresh \in {"sent", "granted"}
    /\ tab' = [tab EXCEPT ![t].refresh = "refused", ![t].grant = NoToken]
    /\ UNCHANGED <<server, cookie, stored, signedOut, request>>

(* The page is loaded again, or another is opened in the tab. *)
Reload(t) ==
    /\ tab' = [tab EXCEPT ![t] = Loaded(stored)]
    /\ request' = [r \in Requests |-> IF r \in InFlight(t) THEN Idle ELSE request[r]]
    /\ UNCHANGED <<server, cookie, stored, signedOut, faults>>

Tick ==
    /\ now < MaxTime /\ now' = now + 1
    /\ UNCHANGED <<version, unfollowed, revokedAt, browser, request, faults>>

(* The reset link is followed on another device. *)
ResetElsewhere ==
    /\ ResetPassword
    /\ UNCHANGED <<browser, request, faults>>

(* The refresh token expires. *)
CookieExpires ==
    /\ cookie # NoCookie
    /\ cookie' = NoCookie
    /\ UNCHANGED <<server, stored, tab, signedOut, request, faults>>

Next ==
    \/ Tick \/ ResetElsewhere \/ CookieExpires
    \/ \E t \in Tabs :
          \/ ServeRefresh(t) \/ ReceiveGrant(t) \/ ReceiveRefusal(t) \/ LoseRefresh(t) \/ Reload(t)
          \/ \E r \in Requests : OpenLink(t, r) \/ \E kind \in Kinds : Press(t, r, kind)
    \/ \E r \in Requests : Serve(r) \/ Receive(r) \/ LoseAnswer(r)

Spec == Init /\ [][Next]_vars
-----------------------------------------------------------------------------
(* What the user asked for is done at most once, although a request that    *)
(* found the token expired is sent twice (client.ts:49-62).                 *)
DoneAtMostOnce == \A r \in Requests : request[r].done <= 1

(* A reset ends the session in every tab within the lifetime of an access   *)
(* token, although nothing tells the tabs, whatever refresh overlaps it     *)
(* (ResetPassword.tsx:53, "This will sign you out on every device").        *)
ResetReachesAll ==
    \A token \in {stored} \cup {tab[t].token : t \in Tabs} :
       Valid(token) => token.version = version \/ revokedAt = now

(* After a sign-out no tab can find the session again: neither the stored   *)
(* token nor the cookie outlives it, whatever other tabs have in progress,  *)
(* unless a refresh was on its way (AuthContext.tsx:73-78).                 *)
SignedOutStays == signedOut => stored = NoToken /\ cookie = NoCookie

(* No tab is stuck: one that shows the dashboard has a token to ask with,   *)
(* and no request waits, with its button disabled, for a refresh that has   *)
(* come to its end (client.ts:32-48, AuthContext.tsx:34-40).                *)
NoTabStuck ==
    \A t \in Tabs :
       /\ tab[t].shown => tab[t].token # NoToken
       /\ Waiting(t) # {} => tab[t].refresh # "none"
=============================================================================
