-------------------------------- MODULE Accounts --------------------------------
(***************************************************************************)
(* The account of one email address: registration, Google sign-in, login,  *)
(* verification and reset links, refresh and restarts of the API           *)
(* (auth/routes.ts, auth/linkTokens.ts, auth/tokens.ts, auth/google.ts,    *)
(* auth/grandfather.ts).                                                   *)
(*                                                                         *)
(* A call is one request; it goes on after its answer to mail a link, as   *)
(* sendInBackground does.  Accounts of other addresses share nothing with  *)
(* this one.                                                               *)
(***************************************************************************)
EXTENDS Naturals, FiniteSets

CONSTANTS
    Calls,
    Passwords, NoPassword,
    Subs, NoSub,        \* Google identities with this address
    NoUser, NoCall,
    MaxLinks,           \* bound on the links issued
    MaxResets,          \* bound on the password resets
    MaxFaults           \* bound on failing queries and crashes

ASSUME AccountsAssumption ==
    /\ NoPassword \notin Passwords /\ NoSub \notin Subs /\ NoCall \notin Calls
    /\ MaxLinks \in Nat \ {0} /\ MaxResets \in Nat /\ MaxFaults \in Nat

VARIABLES
    user,        \* the User document
    orgs,        \* Organization documents, named by the call that created them
    link,        \* the AuthToken collection
    inbox,       \* links that have been mailed
    cookies,     \* refresh tokens ever given; a logout only drops one from a browser
    owned,       \* history: the address was shown to be the user's
    call,
    up,          \* the API serves requests
    faults

docs == <<user, orgs, owned>>
mail == <<link, inbox>>
vars == <<docs, mail, cookies, call, up, faults>>

Links == 1..MaxLinks

(* "missing": a document older than the field *)
User == [pw: Passwords \cup {NoPassword}, sub: Subs \cup {NoSub},
         verified: {"missing", "no", "yes"}, version: 0..MaxResets, org: Calls \cup {NoCall}]

ASSUME NoUserAssumption == NoUser \notin User

Purposes == {"verify_email", "reset_password"}

(* "spent": used, revoked or expired; `recent`: issued within the cooldown; `uses` counts the redemptions. *)
Link == [state: {"none", "open", "spent"}, purpose: Purposes, recent: BOOLEAN,
         uses: Nat]

(* A refresh token, and the password it was given for, if any *)
Cookie == [version: 0..MaxResets, pw: Passwords \cup {NoPassword}]

Call == [op: {"none", "register", "google", "login", "verify", "resend", "forgot", "reset"},
         pc: {"idle", "find", "findSub", "linkSub", "create", "findWinner", "reload",
              "password", "cooldown", "issue", "mail", "consume", "revoke", "before",
              "confirm", "setPassword"},
         pw: Passwords \cup {NoPassword},
         sub: Subs \cup {NoSub},
         vouched: BOOLEAN,                 \* Google's email_verified
         link: 0..MaxLinks,
         rivals: SUBSET Links,             \* open links when `link` was redeemed
         purpose: Purposes,
         doc: User \cup {NoUser}]          \* the document in memory

TypeOK ==
    /\ user \in User \cup {NoUser}
    /\ orgs \subseteq Calls \cup {NoCall}
    /\ link \in [Links -> Link]
    /\ inbox \subseteq Links
    /\ cookies \subseteq Cookie
    /\ owned \in BOOLEAN
    /\ call \in [Calls -> Call]
    /\ up \in BOOLEAN
    /\ faults \in 0..MaxFaults

Idle == [op |-> "none", pc |-> "idle", pw |-> NoPassword, sub |-> NoSub, vouched |-> FALSE,
         link |-> 0, rivals |-> {}, purpose |-> "verify_email", doc |-> NoUser]

(* Nobody yet, or an account that predates the verification of addresses *)
Init ==
    /\ \/ user = NoUser /\ orgs = {} /\ owned = FALSE
       \/ /\ user \in {[pw |-> p, sub |-> NoSub, verified |-> "missing", version |-> 0,
                        org |-> NoCall] : p \in Passwords}
          /\ orgs = {NoCall} /\ owned = TRUE
    /\ link = [l \in Links |-> [state |-> "none", purpose |-> "verify_email", recent |-> FALSE,
                                uses |-> 0]]
    /\ inbox = {} /\ cookies = {}
    /\ call = [c \in Calls |-> Idle]
    /\ up = FALSE
    /\ faults = 0

Fault == faults < MaxFaults /\ faults' = faults + 1

At(c, pc) == call[c].pc = pc
Goto(c, pc) == call' = [call EXCEPT ![c].pc = pc]
End(c) == call' = [call EXCEPT ![c] = Idle]
Doc(c) == call[c].doc
Verified(u) == u.verified = "yes"
-----------------------------------------------------------------------------
(* A request arrives; a link can be followed once it has been mailed. *)
Start(c, r) == up /\ At(c, "idle") /\ call' = [call EXCEPT ![c] = r]

(* verifyGoogleCredential: whose identity it is, and whether Google vouches for the address *)
RequestGoogle(c) ==
    \E s \in Subs, v \in BOOLEAN :
        Start(c, [Idle EXCEPT !.op = "google", !.pc = "findSub", !.sub = s, !.vouched = v])

Request(c) ==
    /\ \/ \E p \in Passwords, op \in {"register", "login"} :
             Start(c, [Idle EXCEPT !.op = op, !.pc = "find", !.pw = p])
       \/ RequestGoogle(c)
       \/ \E op \in {"resend", "forgot"} : Start(c, [Idle EXCEPT !.op = op, !.pc = "find"])
       \/ \E l \in inbox :
             Start(c, [Idle EXCEPT !.op = "verify", !.pc = "consume", !.link = l])
       \/ \E l \in inbox, p \in Passwords :
             Start(c, [Idle EXCEPT !.op = "reset", !.pc = "consume", !.link = l, !.pw = p,
                                   !.purpose = "reset_password"])
    /\ UNCHANGED <<docs, mail, cookies, up, faults>>

Grandfathered(u) == u.verified = "missing"

(* grandfatherVerifiedEmails, before the API listens *)
Boot ==
    /\ ~up
    /\ up' = TRUE
    /\ user' = IF user # NoUser /\ Grandfathered(user) THEN [user EXCEPT !.verified = "yes"]
                                                     ELSE user
    /\ UNCHANGED <<orgs, owned, mail, cookies, call, faults>>
-----------------------------------------------------------------------------
(* On to a link of this purpose, unless one was issued within the cooldown *)
Ask(c, purpose) == call' = [call EXCEPT ![c].pc = "cooldown", ![c].purpose = purpose]

Load(c, pc) == call' = [call EXCEPT ![c].pc = pc, ![c].doc = user]

(* UserModel.findOne({ email }), then as each route goes on *)
FoundByRegister(c) ==
    /\ call[c].op = "register"
    /\ \/ user = NoUser /\ Goto(c, "create")
       \/ user # NoUser /\ ~Verified(user) /\ Ask(c, "verify_email")
       \/ user # NoUser /\ Verified(user) /\ Ask(c, "reset_password")

FoundByResend(c) ==
    /\ call[c].op = "resend"
    /\ \/ user # NoUser /\ ~Verified(user) /\ Ask(c, "verify_email")
       \/ (user # NoUser => Verified(user)) /\ End(c)

FoundByForgot(c) ==
    /\ call[c].op = "forgot"
    /\ \/ user # NoUser /\ Ask(c, "reset_password")
       \/ user = NoUser /\ End(c)

FoundByLogin(c) ==
    /\ call[c].op = "login"
    /\ Load(c, "password")

FoundByGoogle(c) ==
    /\ call[c].op = "google"
    /\ \/ ~call[c].vouched /\ End(c)
       \/ call[c].vouched /\ user = NoUser /\ Goto(c, "create")
       \/ call[c].vouched /\ user # NoUser /\ Load(c, "linkSub")

FindUser(c) ==
    /\ At(c, "find")
    /\ \/ FoundByRegister(c) \/ FoundByResend(c) \/ FoundByForgot(c)
       \/ FoundByLogin(c) \/ FoundByGoogle(c)
    /\ UNCHANGED <<docs, mail, cookies, up, faults>>

(* issueSession for the document u; p is the password that was checked. *)
GiveCookie(u, p) == cookies' = cookies \cup {[version |-> u.version, pw |-> p]}

(* Mutant: no transaction; the organization stays when the user cannot be. *)
AfterDuplicate_Orphan(c) == orgs \cup {c}

AfterDuplicate(c) == orgs

NewUser(c) ==
    [pw |-> call[c].pw, sub |-> call[c].sub, version |-> 0, org |-> c,
     verified |-> IF call[c].op = "google" THEN "yes" ELSE "no"]

(* The transaction that creates the organization and its owner; the index   *)
(* on the address aborts the second of two.                                 *)
CreateAccount(c) ==
    /\ At(c, "create")
    /\ \/ /\ user = NoUser
          /\ user' = NewUser(c)
          /\ orgs' = orgs \cup {c}
          /\ owned' = (call[c].op = "google")
          /\ Goto(c, "reload")
       \/ /\ user # NoUser
          /\ orgs' = AfterDuplicate(c)
          /\ UNCHANGED <<user, owned>>
          /\ \/ call[c].op = "register" /\ End(c)
             \/ call[c].op = "google" /\ Goto(c, "findWinner")
    /\ UNCHANGED <<mail, cookies, up, faults>>

(* UserModel.findById(userId) after the commit *)
Reload(c) ==
    /\ At(c, "reload")
    /\ \/ /\ call[c].op = "register"
          /\ call' = [call EXCEPT ![c].pc = "issue", ![c].purpose = "verify_email"]
          /\ UNCHANGED cookies
       \/ /\ call[c].op = "google"
          /\ GiveCookie(user, NoPassword)
          /\ End(c)
    /\ UNCHANGED <<docs, mail, up, faults>>
-----------------------------------------------------------------------------
(* POST /google: the identity is known, or on to the address. *)
FindSub(c) ==
    /\ At(c, "findSub")
    /\ \/ /\ user # NoUser /\ user.sub = call[c].sub
          /\ GiveCookie(user, NoPassword)
          /\ End(c)
       \/ /\ user # NoUser => user.sub # call[c].sub
          /\ Goto(c, "find")
          /\ UNCHANGED cookies
    /\ UNCHANGED <<docs, mail, up, faults>>

(* The save writes the paths that differ from the loaded document. *)
LinkSub(c) ==
    /\ At(c, "linkSub")
    /\ user' = [user EXCEPT !.sub = call[c].sub, !.verified = IF Verified(Doc(c)) THEN @ ELSE "yes"]
    /\ owned' = TRUE
    /\ GiveCookie(Doc(c), NoPassword)
    /\ End(c)
    /\ UNCHANGED <<orgs, mail, up, faults>>

(* After a lost race the winner signs in, if it is this identity. *)
FindWinner(c) ==
    /\ At(c, "findWinner")
    /\ \/ user.sub = call[c].sub /\ GiveCookie(user, NoPassword)
       \/ user.sub # call[c].sub /\ UNCHANGED cookies
    /\ End(c)
    /\ UNCHANGED <<docs, mail, up, faults>>

(* Mutant: the version is taken from the document as it is by now. *)
SignedIn_Fresh(c) == user

SignedIn(c) == Doc(c)

(* POST /login: the hash takes a while; then only the loaded document counts*)
CheckPassword(c) ==
    /\ At(c, "password")
    /\ \/ /\ Doc(c) # NoUser
          /\ Doc(c).pw = call[c].pw /\ Verified(Doc(c))
          /\ GiveCookie(SignedIn(c), call[c].pw)
       \/ /\ Doc(c) # NoUser => Doc(c).pw # call[c].pw \/ ~Verified(Doc(c))
          /\ UNCHANGED cookies
    /\ End(c)
    /\ UNCHANGED <<docs, mail, up, faults>>
-----------------------------------------------------------------------------
(* issuedRecently *)
CheckCooldown(c) ==
    /\ At(c, "cooldown")
    /\ \/ /\ \E l \in Links : link[l].recent /\ link[l].purpose = call[c].purpose
          /\ End(c)
       \/ /\ \A l \in Links : link[l].recent => link[l].purpose # call[c].purpose
          /\ Goto(c, "issue")
    /\ UNCHANGED <<docs, mail, cookies, up, faults>>

Unissued == {l \in Links : link[l].state = "none"}

(* issueLinkToken *)
IssueLink(c) ==
    /\ At(c, "issue")
    /\ \E l \in Unissued :
          /\ \A k \in Unissued : l <= k
          /\ link' = [link EXCEPT ![l] = [state |-> "open", purpose |-> call[c].purpose,
                                         recent |-> TRUE, uses |-> 0]]
          /\ call' = [call EXCEPT ![c].pc = "mail", ![c].link = l]
    /\ UNCHANGED <<docs, inbox, cookies, up, faults>>

MailLink(c) ==
    /\ At(c, "mail")
    /\ inbox' = inbox \cup {call[c].link}
    /\ End(c)
    /\ UNCHANGED <<docs, link, cookies, up, faults>>

CooldownPasses ==
    /\ \E l \in Links : link[l].recent
    /\ link' = [l \in Links |-> [link[l] EXCEPT !.recent = FALSE]]
    /\ UNCHANGED <<docs, inbox, cookies, call, up, faults>>

(* The link's lifetime ends, long after its cooldown. *)
Expire(l) ==
    /\ link[l].state = "open" /\ ~link[l].recent
    /\ link' = [link EXCEPT ![l].state = "spent"]
    /\ UNCHANGED <<docs, inbox, cookies, call, up, faults>>
-----------------------------------------------------------------------------
(* Mutant: whether the link is spent was asked before the write. *)
Redeemable_Found(l) == link[l].state # "none"

Redeemable(l) == link[l].state = "open"

(* consumeLinkToken, its first write *)
RedeemLink(c) ==
    /\ At(c, "consume")
    /\ LET l == call[c].link IN
       \/ /\ link[l].purpose = call[c].purpose /\ Redeemable(l)
          /\ link' = [link EXCEPT ![l].state = "spent", ![l].uses = @ + 1]
          /\ call' = [call EXCEPT ![c].pc = "revoke",
                        ![c].rivals = {k \in Links \ {l} : /\ link[k].state = "open"
                                                           /\ link[k].purpose = call[c].purpose}]
       \/ /\ link[l].purpose # call[c].purpose \/ ~Redeemable(l)
          /\ End(c)
          /\ UNCHANGED link
    /\ UNCHANGED <<docs, inbox, cookies, up, faults>>

Revoked(c) == {l \in Links : link[l].state = "open" /\ link[l].purpose = call[c].purpose}

(* Its second: what else is outstanding is revoked. *)
RevokeLinks(c) ==
    /\ At(c, "revoke")
    /\ link' = [l \in Links |-> IF l \in Revoked(c) THEN [link[l] EXCEPT !.state = "spent"]
                                                   ELSE link[l]]
    /\ Goto(c, IF call[c].op = "verify" THEN "before" ELSE "setPassword")
    /\ UNCHANGED <<docs, inbox, cookies, up, faults>>

(* POST /verify-email reads the user, who is welcomed if this is the first. *)
ReadBefore(c) ==
    /\ At(c, "before")
    /\ Load(c, "confirm")
    /\ UNCHANGED <<docs, mail, cookies, up, faults>>

ConfirmAddress(c) ==
    /\ At(c, "confirm")
    /\ user' = [user EXCEPT !.verified = "yes"]
    /\ owned' = TRUE
    /\ GiveCookie(user, NoPassword)
    /\ End(c)
    /\ UNCHANGED <<orgs, mail, up, faults>>

NextVersion(v) == v + 1

(* POST /reset-password *)
SetPassword(c) ==
    /\ At(c, "setPassword")
    /\ user.version < MaxResets
    /\ user' = [user EXCEPT !.pw = call[c].pw, !.verified = "yes", !.version = NextVersion(@)]
    /\ owned' = TRUE
    /\ End(c)
    /\ UNCHANGED <<orgs, mail, cookies, up, faults>>
-----------------------------------------------------------------------------
(* POST /refresh gives the same token again, or refuses. *)
Refreshable(k) == user # NoUser /\ user.version = k.version

(* A query rejects: the call answers 500, or its link is lost.     *)
CallFails(c) ==
    /\ ~At(c, "idle") /\ Fault
    /\ End(c)
    /\ UNCHANGED <<docs, mail, cookies, up>>

Crash ==
    /\ up /\ Fault
    /\ up' = FALSE
    /\ call' = [c \in Calls |-> Idle]
    /\ UNCHANGED <<docs, mail, cookies>>

SignIn(c) == FindSub(c) \/ LinkSub(c) \/ FindWinner(c) \/ CheckPassword(c)
SendLink(c) == CheckCooldown(c) \/ IssueLink(c) \/ MailLink(c)
FollowLink(c) ==
    RedeemLink(c) \/ RevokeLinks(c) \/ ReadBefore(c) \/ ConfirmAddress(c) \/ SetPassword(c)

Next ==
    \/ Boot \/ Crash \/ CooldownPasses
    \/ \E l \in Links : Expire(l)
    \/ \E c \in Calls :
          \/ Request(c) \/ FindUser(c) \/ CreateAccount(c) \/ Reload(c)
          \/ SignIn(c) \/ SendLink(c) \/ FollowLink(c) \/ CallFails(c)

Spec == Init /\ [][Next]_vars
-----------------------------------------------------------------------------
(* A user has an organization and every organization its user, whichever of *)
(* two sign-ups wins and wherever one is cut short (routes.ts:155-186).     *)
OneOrganization == orgs = IF user = NoUser THEN {} ELSE {user.org}

(* An address counts as confirmed only if its owner followed a mailed link, *)
(* Google vouched for it, or the account predates the check; a restart does *)
(* not confirm anybody else (grandfather.ts:4-7).                           *)
ConfirmedByOwner == user # NoUser /\ Verified(user) => owned

AccountWhole == OneOrganization /\ ConfirmedByOwner

(* Only confirmed addresses have sessions, and a session opened with a      *)
(* password can be renewed only as long as that is the password, whatever   *)
(* overlaps the reset (routes.ts:391, "Sign out every existing session"). *)
SessionsFollowPassword ==
    /\ cookies # {} => Verified(user)
    /\ \A k \in cookies : Refreshable(k) /\ k.pw # NoPassword => k.pw = user.pw

(* A link works once, and when it has worked those issued before it do not  *)
(* (linkTokens.ts:42-46).                                                   *)
LinksWorkOnce ==
    /\ \A l \in Links : link[l].uses <= 1
    /\ \A c \in Calls :
          call[c].pc \in {"before", "confirm", "setPassword"} =>
              \A l \in call[c].rivals : link[l].state # "open"
=============================================================================
