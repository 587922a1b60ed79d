----------------------------- MODULE AccountsProofs -----------------------------
(***************************************************************************)
(* Proofs about Accounts, for any number of requests, passwords, Google    *)
(* identities, links, resets and faults.                                   *)
(***************************************************************************)
EXTENDS Accounts, TLAPS

(* A confirmed or older account is its owner's, and a linked Google         *)
(* identity confirms it.                                                    *)
UserSound ==
    user # NoUser =>
       /\ user.verified # "no" => owned
       /\ user.sub # NoSub => Verified(user)

(* No session is ahead of the account; one of its version has its password. *)
CookieSound(k) ==
    /\ user # NoUser /\ Verified(user)
    /\ k.version <= user.version
    /\ k.version = user.version /\ k.pw # NoPassword => k.pw = user.pw

LinkSound(l) ==
    /\ link[l].state # "none" => user # NoUser
    /\ link[l].uses <= 1
    /\ link[l].state # "spent" => link[l].uses = 0

(* What the account still has in common with a document read earlier *)
InHand(d) ==
    d # NoUser =>
       /\ user # NoUser
       /\ d.version <= user.version
       /\ d.version = user.version => d.pw = user.pw
       /\ Verified(d) => Verified(user)

KnowsUser == {"linkSub", "findWinner", "reload", "cooldown", "issue", "mail", "revoke",
              "before", "confirm", "setPassword"}

CallSound(c) ==
    /\ InHand(Doc(c))
    /\ call[c].pc \in KnowsUser => user # NoUser
    /\ call[c].pc \in {"findSub", "linkSub", "findWinner"} => call[c].op = "google"
    /\ call[c].pc = "linkSub" => Doc(c) # NoUser
    /\ call[c].pc \in {"create", "reload"} => call[c].op \in {"register", "google"}
    /\ call[c].op = "google" => call[c].sub \in Subs
    /\ call[c].op = "register" => call[c].sub = NoSub
    /\ call[c].pc = "reload" /\ call[c].op = "google" => Verified(user)
    /\ call[c].pc \in {"mail", "consume"} => call[c].link \in Links
    /\ call[c].pc = "revoke" =>
          \A l \in call[c].rivals : link[l].state # "none" /\ link[l].purpose = call[c].purpose
    /\ call[c].pc \in {"before", "confirm", "setPassword"} =>
          \A l \in call[c].rivals : link[l].state = "spent"

AccountsInv ==
    /\ TypeOK
    /\ OneOrganization
    /\ UserSound
    /\ \A k \in cookies : CookieSound(k)
    /\ \A l \in Links : LinkSound(l)
    /\ \A c \in Calls : CallSound(c)
-----------------------------------------------------------------------------
(* No step takes an account away, renames its password without a new        *)
(* version, or takes its confirmation back.                                 *)
UserGrows ==
    user # NoUser =>
       /\ user' # NoUser
       /\ user.version <= user'.version
       /\ user.version = user'.version => user'.pw = user.pw
       /\ Verified(user) => Verified(user)'

(* A link that was issued keeps its purpose and never opens again. *)
LinksGrow ==
    \A l \in Links :
       link[l].state # "none" =>
          /\ link'[l].state # "none" /\ link'[l].purpose = link[l].purpose
          /\ link[l].state = "spent" => link'[l].state = "spent"

LEMMA Numbers == MaxLinks \in Nat \ {0} /\ MaxResets \in Nat /\ MaxFaults \in Nat /\ Links \subseteq Nat
BY AccountsAssumption DEF Links

LEMMA UserTyped ==
    ASSUME TypeOK, user # NoUser
    PROVE  /\ user \in User /\ user.version \in 0..MaxResets /\ user.version \in Nat
           /\ user.pw \in Passwords \cup {NoPassword} /\ user.sub \in Subs \cup {NoSub}
           /\ user.verified \in {"missing", "no", "yes"} /\ user.org \in Calls \cup {NoCall}
<1>1. user \in User
  BY DEF TypeOK
<1> QED
  BY <1>1, Numbers DEF User

LEMMA DocTyped ==
    ASSUME TypeOK, NEW c \in Calls, Doc(c) # NoUser
    PROVE  /\ Doc(c) \in User /\ Doc(c).version \in 0..MaxResets /\ Doc(c).version \in Nat
           /\ Doc(c).pw \in Passwords \cup {NoPassword}
<1>1. Doc(c) \in User
  BY DEF TypeOK, Call, Doc
<1> QED
  BY <1>1, Numbers DEF User

LEMMA IdleTyped ==
    /\ Idle \in Call /\ Idle.op = "none" /\ Idle.pc = "idle" /\ Idle.doc = NoUser
    /\ Idle.rivals = {} /\ Idle.link = 0 /\ Idle.sub = NoSub
BY Numbers DEF Idle, Call, Purposes, Links

(* What a document had in common with the account, it keeps. *)
LEMMA InHandStays ==
    ASSUME TypeOK, TypeOK', UserGrows, NEW d \in User \cup {NoUser}, InHand(d)
    PROVE  d # NoUser =>
              /\ user' # NoUser
              /\ d.version <= user'.version
              /\ d.version = user'.version => d.pw = user'.pw
              /\ Verified(d) => Verified(user')
<1> SUFFICES ASSUME d # NoUser
             PROVE  /\ user' # NoUser
                    /\ d.version <= user'.version
                    /\ d.version = user'.version => d.pw = user'.pw
                    /\ Verified(d) => Verified(user')
  OBVIOUS
<1>1. user # NoUser /\ d.version \in Nat /\ user.version \in Nat
  BY UserTyped, Numbers DEF InHand, User
<1>2. user' # NoUser
  BY <1>1 DEF UserGrows
<1>3. user'.version \in Nat
  BY <1>2, Numbers DEF TypeOK, User
<1> QED
  BY <1>1, <1>2, <1>3 DEF InHand, UserGrows, Verified

LEMMA CookieStays ==
    ASSUME TypeOK, TypeOK', UserGrows, NEW k \in Cookie, CookieSound(k)
    PROVE  CookieSound(k)'
<1>1. user # NoUser /\ k.version \in Nat /\ user.version \in Nat
  BY UserTyped, Numbers DEF CookieSound, Cookie
<1>2. user' # NoUser
  BY <1>1 DEF UserGrows
<1>3. user'.version \in Nat
  BY <1>2, Numbers DEF TypeOK, User
<1> QED
  BY <1>1, <1>2, <1>3 DEF CookieSound, UserGrows, Verified

LEMMA CallStays ==
    ASSUME TypeOK, TypeOK', UserGrows, LinksGrow, NEW c \in Calls, CallSound(c), call'[c] = call[c]
    PROVE  CallSound(c)'
<1>1. InHand(Doc(c))'
  <2>1. Doc(c) \in User \cup {NoUser} /\ InHand(Doc(c))
    BY DEF TypeOK, Call, Doc, CallSound
  <2>2. Doc(c)' = Doc(c)
    BY DEF Doc
  <2> DEFINE d == Doc(c)
  <2> HIDE DEF d
  <2>3. d \in User \cup {NoUser} /\ InHand(d) /\ Doc(c)' = d
    BY <2>1, <2>2 DEF d
  <2>4. PICK e \in User \cup {NoUser} : e = d
    BY <2>3
  <2>5. InHand(e)
    BY <2>3, <2>4
  <2> QED
    BY <2>3, <2>4, <2>5, InHandStays DEF InHand
<1>2. call[c].rivals \subseteq Links
  BY DEF TypeOK, Call
<1>3. call[c].pc \in KnowsUser => user' # NoUser
  BY DEF CallSound, UserGrows
<1>4. call[c].pc = "reload" /\ call[c].op = "google" => Verified(user)'
  BY DEF CallSound, UserGrows, KnowsUser
<1>5. call[c].pc = "revoke" =>
         \A l \in call[c].rivals : link'[l].state # "none" /\ link'[l].purpose = call[c].purpose
  BY <1>2 DEF CallSound, LinksGrow
<1>6. call[c].pc \in {"before", "confirm", "setPassword"} =>
         \A l \in call[c].rivals : link'[l].state = "spent"
  BY <1>2 DEF CallSound, LinksGrow
<1> QED
  BY <1>1, <1>3, <1>4, <1>5, <1>6 DEF CallSound, Doc, Links

(* What is left to show of a step *)
LEMMA Step ==
    ASSUME AccountsInv, TypeOK', OneOrganization', UserSound', UserGrows, LinksGrow,
           \A k \in cookies' : k \in cookies \/ CookieSound(k)',
           \A l \in Links : link'[l] = link[l] \/ LinkSound(l)',
           \A c \in Calls : call'[c] = call[c] \/ CallSound(c)'
    PROVE  AccountsInv'
<1> TypeOK
  BY DEF AccountsInv
<1>1. \A k \in cookies' : CookieSound(k)'
  <2> SUFFICES ASSUME NEW k \in cookies' PROVE CookieSound(k)'
    OBVIOUS
  <2>1. CASE k \in cookies
    <3>1. k \in Cookie /\ CookieSound(k)
      BY <2>1 DEF AccountsInv, TypeOK
    <3> QED
      BY <3>1, CookieStays
  <2> QED
    BY <2>1
<1>2. \A l \in Links : LinkSound(l)'
  <2> SUFFICES ASSUME NEW l \in Links, link'[l] = link[l] PROVE LinkSound(l)'
    OBVIOUS
  <2> QED
    BY DEF AccountsInv, LinkSound, UserGrows
<1>3. \A c \in Calls : CallSound(c)'
  BY CallStays DEF AccountsInv
<1> QED
  BY <1>1, <1>2, <1>3 DEF AccountsInv
-----------------------------------------------------------------------------
LEMMA UserRests ==
    ASSUME TypeOK, UNCHANGED docs
    PROVE  UserGrows
BY UserTyped DEF UserGrows, docs, Verified

LEMMA LinksRest ==
    ASSUME UNCHANGED link
    PROVE  LinksGrow
BY DEF LinksGrow

(* Steps of one call that leave accounts and links alone *)
LEMMA CallMoves ==
    ASSUME AccountsInv, UNCHANGED <<docs, link>>, inbox' \subseteq Links, up' \in BOOLEAN,
           faults' \in 0..MaxFaults, call' \in [Calls -> Call], cookies' \subseteq Cookie,
           \A k \in cookies' : k \in cookies \/ CookieSound(k), NEW c \in Calls,
           \A d \in Calls \ {c} : call'[d] = call[d], CallSound(c)'
    PROVE  AccountsInv'
<1>1. TypeOK'
  BY DEF AccountsInv, TypeOK, docs
<1>2. OneOrganization' /\ UserSound'
  BY DEF AccountsInv, OneOrganization, UserSound, docs, Verified
<1>3. UserGrows /\ LinksGrow
  BY UserRests, LinksRest DEF AccountsInv
<1>4. \A k \in cookies' : k \in cookies \/ CookieSound(k)'
  BY DEF CookieSound, docs, Verified
<1>5. \A l \in Links : link'[l] = link[l]
  OBVIOUS
<1>6. \A d \in Calls : call'[d] = call[d] \/ CallSound(d)'
  OBVIOUS
<1> QED
  BY <1>1, <1>2, <1>3, <1>4, <1>5, <1>6, Step

LEMMA Typed ==
    ASSUME AccountsInv
    PROVE  /\ TypeOK /\ inbox \subseteq Links /\ up \in BOOLEAN /\ faults \in 0..MaxFaults
           /\ call \in [Calls -> Call] /\ cookies \subseteq Cookie
           /\ \A c \in Calls : CallSound(c) /\ call[c] \in Call
BY DEF AccountsInv, TypeOK

LEMMA Ended ==
    ASSUME AccountsInv, NEW c \in Calls, End(c)
    PROVE  /\ call' \in [Calls -> Call] /\ CallSound(c)'
           /\ \A d \in Calls \ {c} : call'[d] = call[d]
<1>1. call' \in [Calls -> Call] /\ call'[c] = Idle /\ \A d \in Calls \ {c} : call'[d] = call[d]
  BY Typed, IdleTyped DEF End
<1> QED
  BY <1>1, IdleTyped DEF CallSound, Doc, InHand, KnowsUser

PCs == {"idle", "find", "findSub", "linkSub", "create", "findWinner", "reload",
        "password", "cooldown", "issue", "mail", "consume", "revoke", "before",
        "confirm", "setPassword"}

(* Fields of a call that goes on to another point *)
LEMMA Gone ==
    ASSUME AccountsInv, NEW c \in Calls, NEW pc \in PCs, Goto(c, pc)
    PROVE  /\ call' \in [Calls -> Call] /\ \A d \in Calls \ {c} : call'[d] = call[d]
           /\ call'[c].pc = pc /\ call'[c].op = call[c].op /\ call'[c].sub = call[c].sub
           /\ call'[c].doc = call[c].doc /\ call'[c].link = call[c].link
           /\ call'[c].rivals = call[c].rivals /\ call'[c].purpose = call[c].purpose
<1>1. call \in [Calls -> Call] /\ call[c] \in Call
  BY Typed
<1>2. [call[c] EXCEPT !.pc = pc] \in Call
  BY <1>1 DEF Call, PCs
<1> QED
  BY <1>1, <1>2 DEF Goto, Call

LEMMA Asked ==
    ASSUME AccountsInv, NEW c \in Calls, NEW p \in Purposes, Ask(c, p), user # NoUser,
           UNCHANGED docs
    PROVE  /\ call' \in [Calls -> Call] /\ CallSound(c)'
           /\ \A d \in Calls \ {c} : call'[d] = call[d]
<1>1. call \in [Calls -> Call] /\ call[c] \in Call
  BY Typed
<1>2. [call[c] EXCEPT !.pc = "cooldown", !.purpose = p] \in Call
  BY <1>1 DEF Call
<1>3. /\ call' \in [Calls -> Call] /\ \A d \in Calls \ {c} : call'[d] = call[d]
      /\ call'[c].pc = "cooldown" /\ call'[c].op = call[c].op /\ call'[c].sub = call[c].sub
      /\ call'[c].doc = call[c].doc
  BY <1>1, <1>2 DEF Ask, Call
<1>4. CallSound(c)
  BY Typed
<1> QED
  BY <1>3, <1>4 DEF CallSound, InHand, Doc, KnowsUser, Verified, docs

(* The loaded document is the account as it is. *)
LEMMA Loaded ==
    ASSUME AccountsInv, NEW c \in Calls, NEW pc \in PCs, Load(c, pc), UNCHANGED docs
    PROVE  /\ call' \in [Calls -> Call] /\ \A d \in Calls \ {c} : call'[d] = call[d]
           /\ call'[c].pc = pc /\ call'[c].op = call[c].op /\ call'[c].sub = call[c].sub
           /\ call'[c].doc = user /\ call'[c].rivals = call[c].rivals
           /\ InHand(Doc(c))'
<1>1. call \in [Calls -> Call] /\ call[c] \in Call /\ TypeOK
  BY Typed
<1>2. [call[c] EXCEPT !.pc = pc, !.doc = user] \in Call
  BY <1>1 DEF Call, PCs, TypeOK
<1>3. /\ call' \in [Calls -> Call] /\ \A d \in Calls \ {c} : call'[d] = call[d]
      /\ call'[c].pc = pc /\ call'[c].op = call[c].op /\ call'[c].sub = call[c].sub
      /\ call'[c].doc = user /\ call'[c].rivals = call[c].rivals
  BY <1>1, <1>2 DEF Load, Call
<1>4. InHand(Doc(c))'
  BY <1>1, <1>3, UserTyped DEF InHand, Doc, docs
<1> QED
  BY <1>3, <1>4
-----------------------------------------------------------------------------
LEMMA StartInv ==
    ASSUME AccountsInv, NEW c \in Calls, NEW r \in Call, Start(c, r),
           UNCHANGED <<docs, mail, cookies, up, faults>>, r.doc = NoUser,
           \/ r.op \in {"register", "login", "resend", "forgot"} /\ r.pc = "find" /\ r.sub = NoSub
           \/ r.op = "google" /\ r.pc = "findSub" /\ r.sub \in Subs
           \/ r.op \in {"verify", "reset"} /\ r.pc = "consume" /\ r.link \in Links
    PROVE  AccountsInv'
<1>1. call' \in [Calls -> Call] /\ call'[c] = r /\ \A d \in Calls \ {c} : call'[d] = call[d]
  BY Typed DEF Start
<1>2. CallSound(c)'
  BY <1>1 DEF CallSound, Doc, InHand, KnowsUser, Links
<1> QED
  BY <1>1, <1>2, CallMoves, Typed DEF mail

LEMMA RequestInv ==
    ASSUME AccountsInv, NEW c \in Calls, Request(c)
    PROVE  AccountsInv'
<1> USE DEF mail
<1>1. UNCHANGED <<docs, mail, cookies, up, faults>> /\ inbox \subseteq Links
  BY Typed DEF Request
<1>2. CASE \E p \in Passwords, op \in {"register", "login"} :
             Start(c, [Idle EXCEPT !.op = op, !.pc = "find", !.pw = p])
  <2>1. PICK p \in Passwords, op \in {"register", "login"} :
             Start(c, [Idle EXCEPT !.op = op, !.pc = "find", !.pw = p])
    BY <1>2
  <2> DEFINE r == [Idle EXCEPT !.op = op, !.pc = "find", !.pw = p]
  <2>2. r \in Call /\ r.doc = NoUser /\ r.op = op /\ r.pc = "find" /\ r.sub = NoSub
    BY IdleTyped DEF Call
  <2> HIDE DEF r
  <2> QED
    BY <1>1, <2>1, <2>2, StartInv DEF r
<1>3. CASE RequestGoogle(c)
  <2>1. PICK s \in Subs, v \in BOOLEAN :
             Start(c, [Idle EXCEPT !.op = "google", !.pc = "findSub", !.sub = s, !.vouched = v])
    BY <1>3 DEF RequestGoogle
  <2> DEFINE r == [Idle EXCEPT !.op = "google", !.pc = "findSub", !.sub = s, !.vouched = v]
  <2>2. r \in Call /\ r.doc = NoUser /\ r.op = "google" /\ r.pc = "findSub" /\ r.sub \in Subs
    BY IdleTyped DEF Call
  <2> HIDE DEF r
  <2> QED
    BY <1>1, <2>1, <2>2, StartInv DEF r
<1>4. CASE \E op \in {"resend", "forgot"} : Start(c, [Idle EXCEPT !.op = op, !.pc = "find"])
  <2>1. PICK op \in {"resend", "forgot"} : Start(c, [Idle EXCEPT !.op = op, !.pc = "find"])
    BY <1>4
  <2> DEFINE r == [Idle EXCEPT !.op = op, !.pc = "find"]
  <2>2. r \in Call /\ r.doc = NoUser /\ r.op = op /\ r.pc = "find" /\ r.sub = NoSub
    BY IdleTyped DEF Call
  <2> HIDE DEF r
  <2> QED
    BY <1>1, <2>1, <2>2, StartInv DEF r
<1>5. CASE \E l \in inbox :
             Start(c, [Idle EXCEPT !.op = "verify", !.pc = "consume", !.link = l])
  <2>1. PICK l \in Links : Start(c, [Idle EXCEPT !.op = "verify", !.pc = "consume", !.link = l])
    BY <1>1, <1>5
  <2> l \in 0..MaxLinks
    BY Numbers DEF Links
  <2> DEFINE r == [Idle EXCEPT !.op = "verify", !.pc = "consume", !.link = l]
  <2>2. r \in Call /\ r.doc = NoUser /\ r.op = "verify" /\ r.pc = "consume" /\ r.link \in Links
    BY IdleTyped DEF Call
  <2> HIDE DEF r
  <2> QED
    BY <1>1, <2>1, <2>2, StartInv DEF r
<1>6. CASE \E l \in inbox, p \in Passwords :
             Start(c, [Idle EXCEPT !.op = "reset", !.pc = "consume", !.link = l, !.pw = p,
                                   !.purpose = "reset_password"])
  <2>1. PICK l \in Links, p \in Passwords :
             Start(c, [Idle EXCEPT !.op = "reset", !.pc = "consume", !.link = l, !.pw = p,
                                   !.purpose = "reset_password"])
    BY <1>1, <1>6
  <2> l \in 0..MaxLinks
    BY Numbers DEF Links
  <2> DEFINE r == [Idle EXCEPT !.op = "reset", !.pc = "consume", !.link = l, !.pw = p,
                               !.purpose = "reset_password"]
  <2>2. r \in Call /\ r.doc = NoUser /\ r.op = "reset" /\ r.pc = "consume" /\ r.link \in Links
    BY IdleTyped DEF Call, Purposes
  <2> HIDE DEF r
  <2> QED
    BY <1>1, <2>1, <2>2, StartInv DEF r
<1> QED
  BY <1>2, <1>3, <1>4, <1>5, <1>6 DEF Request

(* A call that only ends *)
LEMMA EndInv ==
    ASSUME AccountsInv, NEW c \in Calls, End(c), UNCHANGED <<docs, link, cookies, up>>,
           inbox' \subseteq Links, faults' \in 0..MaxFaults
    PROVE  AccountsInv'
BY Ended, Typed, CallMoves

LEMMA FindUserInv ==
    ASSUME AccountsInv, NEW c \in Calls, FindUser(c)
    PROVE  AccountsInv'
<1> USE DEF mail
<1>1. /\ UNCHANGED <<docs, mail, cookies, up, faults>> /\ inbox \subseteq Links
      /\ faults \in 0..MaxFaults /\ up \in BOOLEAN /\ cookies \subseteq Cookie
      /\ CallSound(c) /\ call[c].pc = "find"
  BY Typed DEF FindUser, At
<1>2. CASE End(c)
  BY <1>1, <1>2, EndInv
<1>3. ASSUME NEW p \in Purposes, Ask(c, p), user # NoUser
      PROVE  AccountsInv'
  BY <1>1, <1>3, Asked, CallMoves
<1>4. ASSUME Goto(c, "create"), call[c].op \in {"register", "google"}
      PROVE  AccountsInv'
  <2>1. /\ call' \in [Calls -> Call] /\ \A d \in Calls \ {c} : call'[d] = call[d]
        /\ call'[c].pc = "create" /\ call'[c].op = call[c].op /\ call'[c].sub = call[c].sub
        /\ call'[c].doc = call[c].doc
    BY <1>4, Gone DEF PCs
  <2>2. CallSound(c)'
    BY <1>1, <1>4, <2>1 DEF CallSound, InHand, Doc, KnowsUser, Verified, docs
  <2> QED
    BY <1>1, <2>1, <2>2, CallMoves
<1>5. CASE FoundByRegister(c)
  BY <1>3, <1>4, <1>5 DEF FoundByRegister, Purposes
<1>6. CASE FoundByResend(c)
  BY <1>2, <1>3, <1>6 DEF FoundByResend, Purposes
<1>7. CASE FoundByForgot(c)
  BY <1>2, <1>3, <1>7 DEF FoundByForgot, Purposes
<1>8. CASE FoundByLogin(c)
  <2>1. /\ call' \in [Calls -> Call] /\ \A d \in Calls \ {c} : call'[d] = call[d]
        /\ call'[c].pc = "password" /\ call'[c].op = "login" /\ InHand(Doc(c))'
    BY <1>1, <1>8, Loaded DEF PCs, FoundByLogin
  <2>2. CallSound(c)'
    BY <2>1 DEF CallSound, KnowsUser
  <2> QED
    BY <1>1, <2>1, <2>2, CallMoves
<1>9. CASE FoundByGoogle(c)
  <2>1. CASE call[c].vouched /\ user # NoUser /\ Load(c, "linkSub")
    <3>1. /\ call' \in [Calls -> Call] /\ \A d \in Calls \ {c} : call'[d] = call[d]
          /\ call'[c].pc = "linkSub" /\ call'[c].op = "google" /\ InHand(Doc(c))'
          /\ call'[c].doc = user /\ call'[c].sub = call[c].sub
      BY <1>1, <1>9, <2>1, Loaded DEF PCs, FoundByGoogle
    <3>2. CallSound(c)'
      BY <1>1, <1>9, <2>1, <3>1 DEF CallSound, KnowsUser, Doc, docs, FoundByGoogle
    <3> QED
      BY <1>1, <3>1, <3>2, CallMoves
  <2> QED
    BY <1>2, <1>4, <1>9, <2>1 DEF FoundByGoogle
<1> QED
  BY <1>5, <1>6, <1>7, <1>8, <1>9 DEF FindUser
-----------------------------------------------------------------------------
LEMMA Given ==
    ASSUME AccountsInv, NEW u \in User, NEW p \in Passwords \cup {NoPassword}, GiveCookie(u, p)
    PROVE  /\ cookies' \subseteq Cookie
           /\ \A k \in cookies' : k \in cookies \/ (k.version = u.version /\ k.pw = p)
<1>1. u.version \in 0..MaxResets
  BY DEF User
<1> DEFINE n == [version |-> u.version, pw |-> p]
<1>2. n \in Cookie /\ n.version = u.version /\ n.pw = p
  BY <1>1 DEF Cookie
<1>3. cookies' = cookies \cup {n} /\ cookies \subseteq Cookie
  BY Typed DEF GiveCookie
<1> HIDE DEF n
<1> QED
  BY <1>2, <1>3

(* A sign-in without a password, to an account that is confirmed, ends the call. *)
LEMMA SignInInv ==
    ASSUME AccountsInv, NEW c \in Calls, End(c), UNCHANGED <<docs, mail, up, faults>>,
           user # NoUser, Verified(user), GiveCookie(user, NoPassword)
    PROVE  AccountsInv'
<1>1. user \in User /\ user.version \in Nat
  BY Typed, UserTyped
<1>2. /\ cookies' \subseteq Cookie
      /\ \A k \in cookies' : k \in cookies \/ (k.version = user.version /\ k.pw = NoPassword)
  BY <1>1, Given
<1>3. \A k \in cookies' : k \in cookies \/ CookieSound(k)
  BY <1>1, <1>2 DEF CookieSound
<1> QED
  BY <1>2, <1>3, Ended, Typed, CallMoves DEF mail

LEMMA ReloadInv ==
    ASSUME AccountsInv, NEW c \in Calls, Reload(c)
    PROVE  AccountsInv'
<1>1. /\ UNCHANGED <<docs, mail, up, faults>> /\ call[c].pc = "reload" /\ CallSound(c)
      /\ user # NoUser /\ call[c] \in Call /\ call \in [Calls -> Call]
  BY Typed DEF Reload, At, CallSound, KnowsUser
<1>2. CASE /\ call[c].op = "register"
           /\ call' = [call EXCEPT ![c].pc = "issue", ![c].purpose = "verify_email"]
           /\ UNCHANGED cookies
  <2>1. [call[c] EXCEPT !.pc = "issue", !.purpose = "verify_email"] \in Call
    BY <1>1 DEF Call, Purposes
  <2>2. /\ call' \in [Calls -> Call] /\ \A d \in Calls \ {c} : call'[d] = call[d]
        /\ call'[c].pc = "issue" /\ call'[c].op = call[c].op /\ call'[c].sub = call[c].sub
        /\ call'[c].doc = call[c].doc
    BY <1>1, <1>2, <2>1 DEF Call
  <2>3. CallSound(c)'
    BY <1>1, <2>2 DEF CallSound, InHand, Doc, KnowsUser, Verified, docs
  <2> QED
    BY <1>1, <1>2, <2>2, <2>3, Typed, CallMoves DEF mail
<1>3. CASE call[c].op = "google" /\ GiveCookie(user, NoPassword) /\ End(c)
  BY <1>1, <1>3, SignInInv DEF CallSound
<1> QED
  BY <1>2, <1>3 DEF Reload

LEMMA FindSubInv ==
    ASSUME AccountsInv, NEW c \in Calls, FindSub(c)
    PROVE  AccountsInv'
<1>1. /\ UNCHANGED <<docs, mail, up, faults>> /\ call[c].pc = "findSub" /\ CallSound(c)
      /\ call[c].op = "google" /\ call[c].sub \in Subs /\ UserSound
  BY Typed DEF FindSub, At, CallSound, AccountsInv
<1>2. CASE user # NoUser /\ user.sub = call[c].sub /\ GiveCookie(user, NoPassword) /\ End(c)
  BY <1>1, <1>2, SignInInv, AccountsAssumption DEF UserSound
<1>3. CASE Goto(c, "find") /\ UNCHANGED cookies
  <2>1. /\ call' \in [Calls -> Call] /\ \A d \in Calls \ {c} : call'[d] = call[d]
        /\ call'[c].pc = "find" /\ call'[c].op = call[c].op /\ call'[c].sub = call[c].sub
        /\ call'[c].doc = call[c].doc
    BY <1>3, Gone DEF PCs
  <2>2. CallSound(c)'
    BY <1>1, <2>1 DEF CallSound, InHand, Doc, KnowsUser, Verified, docs
  <2> QED
    BY <1>1, <1>3, <2>1, <2>2, Typed, CallMoves DEF mail
<1> QED
  BY <1>2, <1>3 DEF FindSub

LEMMA FindWinnerInv ==
    ASSUME AccountsInv, NEW c \in Calls, FindWinner(c)
    PROVE  AccountsInv'
<1>1. /\ UNCHANGED <<docs, mail, up, faults>> /\ call[c].pc = "findWinner" /\ CallSound(c)
      /\ call[c].op = "google" /\ call[c].sub \in Subs /\ UserSound /\ user # NoUser /\ End(c)
  BY Typed DEF FindWinner, At, CallSound, AccountsInv, KnowsUser
<1>2. CASE user.sub = call[c].sub /\ GiveCookie(user, NoPassword)
  BY <1>1, <1>2, SignInInv, AccountsAssumption DEF UserSound
<1>3. CASE UNCHANGED cookies
  BY <1>1, <1>3, EndInv, Typed DEF mail
<1> QED
  BY <1>2, <1>3 DEF FindWinner

(* The session is of the loaded document; if the account has moved on since *)
(* then, the session is of an older version.                                *)
LEMMA CheckPasswordInv ==
    ASSUME AccountsInv, NEW c \in Calls, CheckPassword(c)
    PROVE  AccountsInv'
<1>1. UNCHANGED <<docs, mail, up, faults>> /\ CallSound(c) /\ End(c) /\ call[c] \in Call
  BY Typed DEF CheckPassword
<1>2. CASE /\ Doc(c) # NoUser
           /\ Doc(c).pw = call[c].pw /\ Verified(Doc(c))
           /\ GiveCookie(SignedIn(c), call[c].pw)
  <2>1. /\ Doc(c) \in User /\ Doc(c).version \in Nat /\ user # NoUser /\ user.version \in Nat
        /\ Verified(user) /\ Doc(c).version <= user.version
        /\ Doc(c).version = user.version => Doc(c).pw = user.pw
        /\ call[c].pw \in Passwords \cup {NoPassword}
    BY <1>1, <1>2, Typed, DocTyped, UserTyped DEF CallSound, InHand, Call
  <2>2. /\ cookies' \subseteq Cookie
        /\ \A k \in cookies' : k \in cookies \/ (k.version = Doc(c).version /\ k.pw = Doc(c).pw)
    BY <1>2, <2>1, Given DEF SignedIn
  <2>3. \A k \in cookies' : k \in cookies \/ CookieSound(k)
    BY <2>1, <2>2 DEF CookieSound
  <2> QED
    BY <1>1, <2>2, <2>3, Ended, Typed, CallMoves DEF mail
<1>3. CASE UNCHANGED cookies
  BY <1>1, <1>3, EndInv, Typed DEF mail
<1> QED
  BY <1>2, <1>3 DEF CheckPassword

LEMMA CheckCooldownInv ==
    ASSUME AccountsInv, NEW c \in Calls, CheckCooldown(c)
    PROVE  AccountsInv'
<1>1. /\ UNCHANGED <<docs, mail, cookies, up, faults>> /\ call[c].pc = "cooldown" /\ CallSound(c)
      /\ user # NoUser
  BY Typed DEF CheckCooldown, At, CallSound, KnowsUser
<1>2. CASE End(c)
  BY <1>1, <1>2, EndInv, Typed DEF mail
<1>3. CASE Goto(c, "issue")
  <2>1. /\ call' \in [Calls -> Call] /\ \A d \in Calls \ {c} : call'[d] = call[d]
        /\ call'[c].pc = "issue" /\ call'[c].op = call[c].op /\ call'[c].sub = call[c].sub
        /\ call'[c].doc = call[c].doc
    BY <1>3, Gone DEF PCs
  <2>2. CallSound(c)'
    BY <1>1, <2>1 DEF CallSound, InHand, Doc, KnowsUser, Verified, docs
  <2> QED
    BY <1>1, <2>1, <2>2, Typed, CallMoves DEF mail
<1> QED
  BY <1>2, <1>3 DEF CheckCooldown

LEMMA MailLinkInv ==
    ASSUME AccountsInv, NEW c \in Calls, MailLink(c)
    PROVE  AccountsInv'
<1>1. call[c].link \in Links /\ inbox \subseteq Links
  BY Typed DEF MailLink, At, CallSound
<1>2. inbox' \subseteq Links /\ End(c) /\ UNCHANGED <<docs, link, cookies, up, faults>>
  BY <1>1 DEF MailLink
<1> QED
  BY <1>2, EndInv, Typed

LEMMA ReadBeforeInv ==
    ASSUME AccountsInv, NEW c \in Calls, ReadBefore(c)
    PROVE  AccountsInv'
<1>1. /\ UNCHANGED <<docs, mail, cookies, up, faults>> /\ call[c].pc = "before" /\ CallSound(c)
      /\ user # NoUser
  BY Typed DEF ReadBefore, At, CallSound, KnowsUser
<1>2. /\ call' \in [Calls -> Call] /\ \A d \in Calls \ {c} : call'[d] = call[d]
      /\ call'[c].pc = "confirm" /\ call'[c].op = call[c].op /\ InHand(Doc(c))'
      /\ call'[c].sub = call[c].sub /\ call'[c].rivals = call[c].rivals
  BY <1>1, Loaded DEF PCs, ReadBefore
<1>3. CallSound(c)'
  BY <1>1, <1>2 DEF CallSound, KnowsUser, docs, mail
<1> QED
  BY <1>1, <1>2, <1>3, Typed, CallMoves DEF mail
-----------------------------------------------------------------------------
LEMMA CallFailsInv ==
    ASSUME AccountsInv, NEW c \in Calls, CallFails(c)
    PROVE  AccountsInv'
<1>1. faults' \in 0..MaxFaults
  BY Typed, Numbers DEF CallFails, Fault
<1> QED
  BY <1>1, EndInv, Typed DEF CallFails, mail

LEMMA CrashInv ==
    ASSUME AccountsInv, Crash
    PROVE  AccountsInv'
<1>1. /\ UNCHANGED <<docs, link, inbox, cookies>> /\ faults' \in 0..MaxFaults
      /\ call' = [c \in Calls |-> Idle] /\ TypeOK
  BY Typed, Numbers DEF Crash, Fault, mail
<1>0. up' \in BOOLEAN
  BY DEF Crash
<1>2. TypeOK'
  BY <1>0, <1>1, IdleTyped DEF TypeOK, docs
<1>3. \A c \in Calls : CallSound(c)'
  BY <1>1, IdleTyped DEF CallSound, Doc, InHand, KnowsUser
<1>4. OneOrganization' /\ UserSound' /\ UserGrows /\ LinksGrow
  BY <1>1, UserRests, LinksRest DEF AccountsInv, OneOrganization, UserSound, docs, Verified
<1> QED
  BY <1>1, <1>2, <1>3, <1>4, Step

(* Links change, calls and accounts do not. *)
LEMMA LinksMove ==
    ASSUME AccountsInv, UNCHANGED <<docs, inbox, cookies, call, up, faults>>,
           link' \in [Links -> Link], LinksGrow,
           \A l \in Links : link'[l] = link[l] \/ LinkSound(l)'
    PROVE  AccountsInv'
<1>1. TypeOK'
  BY DEF AccountsInv, TypeOK, docs
<1>2. OneOrganization' /\ UserSound' /\ UserGrows
  BY UserRests DEF AccountsInv, OneOrganization, UserSound, docs, Verified
<1> QED
  BY <1>1, <1>2, Step

LEMMA CooldownInv ==
    ASSUME AccountsInv, CooldownPasses
    PROVE  AccountsInv'
<1>1. /\ link \in [Links -> Link] /\ \A l \in Links : LinkSound(l)
      /\ link' = [l \in Links |-> [link[l] EXCEPT !.recent = FALSE]]
      /\ UNCHANGED <<docs, inbox, cookies, call, up, faults>>
  BY DEF AccountsInv, TypeOK, CooldownPasses
<1>2. ASSUME NEW l \in Links
      PROVE  /\ link'[l] \in Link /\ link'[l].state = link[l].state
             /\ link'[l].purpose = link[l].purpose /\ link'[l].uses = link[l].uses
  BY <1>1 DEF Link
<1>3. link' \in [Links -> Link]
  BY <1>1, <1>2
<1>4. LinksGrow
  BY <1>2 DEF LinksGrow
<1>5. \A l \in Links : LinkSound(l)'
  BY <1>1, <1>2 DEF LinkSound, docs
<1> QED
  BY <1>1, <1>3, <1>4, <1>5, LinksMove

LEMMA ExpireInv ==
    ASSUME AccountsInv, NEW l \in Links, Expire(l)
    PROVE  AccountsInv'
<1>1. /\ link \in [Links -> Link] /\ LinkSound(l) /\ link[l].state = "open"
      /\ link' = [link EXCEPT ![l].state = "spent"]
      /\ UNCHANGED <<docs, inbox, cookies, call, up, faults>>
  BY DEF AccountsInv, TypeOK, Expire
<1>2. /\ link'[l] \in Link /\ link'[l].state = "spent" /\ link'[l].purpose = link[l].purpose
      /\ link'[l].uses = link[l].uses /\ \A k \in Links \ {l} : link'[k] = link[k]
  BY <1>1 DEF Link
<1>3. link' \in [Links -> Link]
  BY <1>1, <1>2
<1>4. LinksGrow
  BY <1>2 DEF LinksGrow
<1>5. LinkSound(l)'
  BY <1>1, <1>2 DEF LinkSound, docs
<1> QED
  BY <1>1, <1>2, <1>3, <1>4, <1>5, LinksMove

(* A call and its link change. *)
LEMMA LinkStep ==
    ASSUME AccountsInv, UNCHANGED <<docs, inbox, cookies, up, faults>>, NEW c \in Calls,
           link' \in [Links -> Link], LinksGrow,
           \A l \in Links : link'[l] = link[l] \/ LinkSound(l)',
           call' \in [Calls -> Call], \A d \in Calls \ {c} : call'[d] = call[d], CallSound(c)'
    PROVE  AccountsInv'
<1>1. TypeOK'
  BY DEF AccountsInv, TypeOK, docs
<1>2. OneOrganization' /\ UserSound' /\ UserGrows
  BY UserRests DEF AccountsInv, OneOrganization, UserSound, docs, Verified
<1>3. \A d \in Calls : call'[d] = call[d] \/ CallSound(d)'
  OBVIOUS
<1> QED
  BY <1>1, <1>2, <1>3, Step

LEMMA IssueLinkInv ==
    ASSUME AccountsInv, NEW c \in Calls, IssueLink(c)
    PROVE  AccountsInv'
<1>1. PICK l \in Unissued :
          /\ link' = [link EXCEPT ![l] = [state |-> "open", purpose |-> call[c].purpose,
                                         recent |-> TRUE, uses |-> 0]]
          /\ call' = [call EXCEPT ![c].pc = "mail", ![c].link = l]
  BY DEF IssueLink
<1>2. /\ UNCHANGED <<docs, inbox, cookies, up, faults>> /\ l \in Links /\ link[l].state = "none"
      /\ link \in [Links -> Link] /\ call \in [Calls -> Call] /\ call[c] \in Call
      /\ CallSound(c) /\ user # NoUser /\ l \in 0..MaxLinks
  BY Numbers, Typed DEF IssueLink, Unissued, At, CallSound, KnowsUser, TypeOK, Links
<1>3. call[c].purpose \in Purposes
  BY <1>2 DEF Call
<1> DEFINE n == [state |-> "open", purpose |-> call[c].purpose, recent |-> TRUE, uses |-> 0]
<1>4. n \in Link /\ n.state = "open" /\ n.uses = 0
  BY <1>3 DEF Link
<1>5. link' \in [Links -> Link] /\ link'[l] = n /\ \A k \in Links \ {l} : link'[k] = link[k]
  <2> HIDE DEF n
  <2> QED
    BY <1>1, <1>2, <1>4 DEF n
<1> HIDE DEF n
<1>6. LinksGrow
  BY <1>2, <1>5 DEF LinksGrow
<1>7. LinkSound(l)'
  BY <1>2, <1>4, <1>5 DEF LinkSound, docs
<1>8. [call[c] EXCEPT !.pc = "mail", !.link = l] \in Call
  BY <1>2 DEF Call
<1>9. /\ call' \in [Calls -> Call] /\ \A d \in Calls \ {c} : call'[d] = call[d]
      /\ call'[c].pc = "mail" /\ call'[c].op = call[c].op /\ call'[c].sub = call[c].sub
      /\ call'[c].doc = call[c].doc /\ call'[c].link = l
  BY <1>1, <1>2, <1>8 DEF Call
<1>10. CallSound(c)'
  BY <1>2, <1>9 DEF CallSound, InHand, Doc, KnowsUser, Verified, docs, Links
<1> QED
  BY <1>2, <1>5, <1>6, <1>7, <1>9, <1>10, LinkStep
LEMMA RedeemLinkInv ==
    ASSUME AccountsInv, NEW c \in Calls, RedeemLink(c)
    PROVE  AccountsInv'
<1>1. /\ UNCHANGED <<docs, inbox, cookies, up, faults>> /\ CallSound(c) /\ call[c].link \in Links
      /\ call[c].pc = "consume" /\ TypeOK
  BY Typed DEF RedeemLink, At, CallSound
<1> PICK l \in Links : l = call[c].link
  BY <1>1
<1>2. /\ link \in [Links -> Link] /\ call \in [Calls -> Call] /\ call[c] \in Call
      /\ LinkSound(l) /\ link[l].uses \in Nat
  <2>1. link \in [Links -> Link] /\ call \in [Calls -> Call] /\ call[c] \in Call
    BY <1>1 DEF TypeOK
  <2>2. link[l].uses \in Nat
    BY <1>1, <2>1 DEF Link
  <2>3. LinkSound(l)
    BY <1>1 DEF AccountsInv
  <2> QED
    BY <2>1, <2>2, <2>3
<1>3. CASE /\ link[l].purpose = call[c].purpose /\ Redeemable(l)
           /\ link' = [link EXCEPT ![l].state = "spent", ![l].uses = @ + 1]
           /\ call' = [call EXCEPT ![c].pc = "revoke",
                ![c].rivals = {k \in Links \ {l} : /\ link[k].state = "open"
                                                   /\ link[k].purpose = call[c].purpose}]
  <2>1. link[l].state = "open" /\ link[l].uses = 0 /\ user # NoUser
    BY <1>2, <1>3 DEF Redeemable, LinkSound
  <2> DEFINE n == [link[l] EXCEPT !.state = "spent", !.uses = link[l].uses + 1]
             R == {k \in Links \ {l} : link[k].state = "open" /\ link[k].purpose = call[c].purpose}
  <2>2. n \in Link /\ n.state = "spent" /\ n.uses = 1 /\ n.purpose = link[l].purpose
    <3>1. link[l] \in Link /\ link[l].uses + 1 \in Nat /\ link[l].uses + 1 = 1
      BY <1>2, <2>1
    <3>2. n \in Link
      BY <3>1 DEF Link
    <3> QED
      BY <3>1, <3>2 DEF Link
  <2>3. link' = [link EXCEPT ![l] = n]
    BY <1>3
  <2>4. R \subseteq Links /\ \A k \in R : link[k].state = "open" /\ link[k].purpose = call[c].purpose
    OBVIOUS
  <2>5. call' = [call EXCEPT ![c] = [call[c] EXCEPT !.pc = "revoke", !.rivals = R]]
    BY <1>3
  <2> HIDE DEF n, R
  <2>6. link' \in [Links -> Link] /\ link'[l] = n /\ \A k \in Links \ {l} : link'[k] = link[k]
    BY <1>1, <1>2, <2>2, <2>3
  <2>7. [call[c] EXCEPT !.pc = "revoke", !.rivals = R] \in Call
    BY <1>2, <2>4 DEF Call
  <2>8. /\ call' \in [Calls -> Call] /\ \A d \in Calls \ {c} : call'[d] = call[d]
        /\ call'[c].pc = "revoke" /\ call'[c].op = call[c].op /\ call'[c].sub = call[c].sub
        /\ call'[c].doc = call[c].doc /\ call'[c].rivals = R /\ call'[c].purpose = call[c].purpose
    BY <1>2, <2>5, <2>7 DEF Call
  <2>9. LinksGrow
    BY <2>1, <2>2, <2>6 DEF LinksGrow
  <2>10. LinkSound(l)'
    BY <1>1, <2>1, <2>2, <2>6 DEF LinkSound, docs
  <2>11. \A k \in call'[c].rivals : link'[k].state # "none" /\ link'[k].purpose = call'[c].purpose
    BY <2>4, <2>8, <2>9 DEF LinksGrow
  <2>12. CallSound(c)'
    BY <1>1, <2>1, <2>8, <2>11 DEF CallSound, InHand, Doc, KnowsUser, Verified, docs
  <2> QED
    BY <1>1, <2>6, <2>8, <2>9, <2>10, <2>12, LinkStep
<1>4. CASE End(c) /\ UNCHANGED link
  BY <1>1, <1>4, EndInv, Typed
<1> QED
  BY <1>3, <1>4 DEF RedeemLink

LEMMA RevokeLinksInv ==
    ASSUME AccountsInv, NEW c \in Calls, RevokeLinks(c)
    PROVE  AccountsInv'
<1>1. /\ UNCHANGED <<docs, inbox, cookies, up, faults>> /\ CallSound(c) /\ user # NoUser
      /\ call[c].pc = "revoke" /\ link \in [Links -> Link] /\ call[c] \in Call
      /\ \A l \in Links : LinkSound(l)
      /\ link' = [l \in Links |-> IF l \in Revoked(c) THEN [link[l] EXCEPT !.state = "spent"]
                                                     ELSE link[l]]
  BY Typed DEF RevokeLinks, At, CallSound, KnowsUser, AccountsInv, TypeOK
<1>2. ASSUME NEW l \in Links
      PROVE  /\ link'[l] \in Link /\ link'[l].purpose = link[l].purpose
             /\ link'[l].uses = link[l].uses
             /\ l \in Revoked(c) => link'[l].state = "spent"
             /\ l \notin Revoked(c) => link'[l].state = link[l].state
  BY <1>1 DEF Link
<1>3. link' \in [Links -> Link]
  BY <1>1, <1>2
<1>4. LinksGrow
  BY <1>2 DEF LinksGrow, Revoked
<1>5. \A l \in Links : LinkSound(l)'
  BY <1>1, <1>2 DEF LinkSound, docs, Revoked
<1> DEFINE pc == IF call[c].op = "verify" THEN "before" ELSE "setPassword"
<1>6. pc \in {"before", "setPassword"} /\ pc \in PCs /\ Goto(c, pc)
  BY DEF PCs, RevokeLinks
<1> HIDE DEF pc
<1>7. /\ call' \in [Calls -> Call] /\ \A d \in Calls \ {c} : call'[d] = call[d]
      /\ call'[c].pc = pc /\ call'[c].op = call[c].op /\ call'[c].sub = call[c].sub
      /\ call'[c].doc = call[c].doc /\ call'[c].rivals = call[c].rivals
  BY <1>6, Gone
<1>8. \A l \in call[c].rivals : link'[l].state = "spent"
  <2>1. call[c].rivals \subseteq Links
    BY <1>1 DEF Call
  <2>2. ASSUME NEW l \in call[c].rivals PROVE link'[l].state = "spent"
    <3>1. l \in Links /\ link[l].state # "none" /\ link[l].purpose = call[c].purpose
      BY <1>1, <2>1 DEF CallSound
    <3>2. link[l].state \in {"none", "open", "spent"}
      BY <1>1, <3>1 DEF Link
    <3> QED
      BY <1>2, <3>1, <3>2 DEF Revoked
  <2> QED
    BY <2>2
<1>9. CallSound(c)'
  BY <1>1, <1>6, <1>7, <1>8 DEF CallSound, InHand, Doc, KnowsUser, Verified, docs
<1> QED
  BY <1>1, <1>3, <1>4, <1>5, <1>7, <1>9, LinkStep
-----------------------------------------------------------------------------
(* The account changes, links do not. *)
LEMMA UserStep ==
    ASSUME AccountsInv, UNCHANGED <<mail, up, faults>>, NEW c \in Calls,
           user' \in User, owned' \in BOOLEAN, orgs' = {user'.org}, UserSound', UserGrows,
           call' \in [Calls -> Call], cookies' \subseteq Cookie,
           \A k \in cookies' : k \in cookies \/ CookieSound(k)',
           \A d \in Calls \ {c} : call'[d] = call[d], CallSound(c)'
    PROVE  AccountsInv'
<1>1. orgs' \subseteq Calls \cup {NoCall}
  BY DEF User
<1>2. TypeOK'
  BY <1>1 DEF AccountsInv, TypeOK, mail
<1>3. OneOrganization'
  BY NoUserAssumption DEF OneOrganization
<1>4. LinksGrow /\ \A l \in Links : link'[l] = link[l]
  BY LinksRest DEF mail
<1>5. \A d \in Calls : call'[d] = call[d] \/ CallSound(d)'
  OBVIOUS
<1> QED
  BY <1>2, <1>3, <1>4, <1>5, Step

LEMMA CreateAccountInv ==
    ASSUME AccountsInv, NEW c \in Calls, CreateAccount(c)
    PROVE  AccountsInv'
<1>1. /\ UNCHANGED <<mail, cookies, up, faults>> /\ CallSound(c) /\ call[c].pc = "create"
      /\ call[c].op \in {"register", "google"} /\ call[c] \in Call
      /\ owned \in BOOLEAN /\ cookies \subseteq Cookie
  BY Typed DEF CreateAccount, At, CallSound, TypeOK
<1>2. CASE /\ user = NoUser
           /\ user' = NewUser(c)
           /\ orgs' = orgs \cup {c}
           /\ owned' = (call[c].op = "google")
           /\ Goto(c, "reload")
  <2>1. /\ NewUser(c) \in User /\ NewUser(c).org = c /\ NewUser(c).sub = call[c].sub
        /\ call[c].op = "google" => NewUser(c).verified = "yes"
        /\ call[c].op # "google" => NewUser(c).verified = "no"
    BY <1>1, Numbers DEF NewUser, User, Call
  <2>2. orgs = {}
    BY <1>2 DEF AccountsInv, OneOrganization
  <2>3. UserSound'
    BY <1>1, <1>2, <2>1, AccountsAssumption DEF UserSound, CallSound, Verified
  <2>4. UserGrows
    BY <1>2 DEF UserGrows
  <2>5. /\ call' \in [Calls -> Call] /\ \A d \in Calls \ {c} : call'[d] = call[d]
        /\ call'[c].pc = "reload" /\ call'[c].op = call[c].op /\ call'[c].sub = call[c].sub
        /\ call'[c].doc = call[c].doc
    BY <1>2, Gone DEF PCs
  <2>6. call[c].doc = NoUser
    BY <1>1, <1>2 DEF CallSound, InHand, Doc
  <2>7. CallSound(c)'
    BY <1>1, <1>2, <2>1, <2>5, <2>6, NoUserAssumption
       DEF CallSound, InHand, Doc, KnowsUser, Verified
  <2>8. owned' \in BOOLEAN
    BY <1>2
  <2> QED
    BY <1>1, <1>2, <2>1, <2>2, <2>3, <2>4, <2>5, <2>7, <2>8, UserStep
<1>3. CASE user # NoUser /\ orgs' = AfterDuplicate(c) /\ UNCHANGED <<user, owned>>
  <2>1. UNCHANGED <<docs, link, inbox>>
    BY <1>1, <1>3 DEF AfterDuplicate, docs, mail
  <2>2. CASE End(c)
    BY <1>1, <2>1, <2>2, EndInv, Typed
  <2>3. CASE call[c].op = "google" /\ Goto(c, "findWinner")
    <3>1. /\ call' \in [Calls -> Call] /\ \A d \in Calls \ {c} : call'[d] = call[d]
          /\ call'[c].pc = "findWinner" /\ call'[c].op = call[c].op /\ call'[c].sub = call[c].sub
          /\ call'[c].doc = call[c].doc
      BY <2>3, Gone DEF PCs
    <3>2. CallSound(c)'
      BY <1>1, <1>3, <2>3, <3>1 DEF CallSound, InHand, Doc, KnowsUser, Verified
    <3> QED
      BY <1>1, <2>1, <3>1, <3>2, Typed, CallMoves
  <2> QED
    BY <1>3, <2>2, <2>3 DEF CreateAccount
<1> QED
  BY <1>2, <1>3 DEF CreateAccount

LEMMA LinkSubInv ==
    ASSUME AccountsInv, NEW c \in Calls, LinkSub(c)
    PROVE  AccountsInv'
<1>1. /\ UNCHANGED <<orgs, mail, up, faults>> /\ CallSound(c) /\ call[c].pc = "linkSub"
      /\ user # NoUser /\ Doc(c) # NoUser /\ call[c].sub \in Subs /\ End(c) /\ owned' = TRUE
      /\ InHand(Doc(c)) /\ GiveCookie(Doc(c), NoPassword)
      /\ user' = [user EXCEPT !.sub = call[c].sub, !.verified = IF Verified(Doc(c)) THEN @ ELSE "yes"]
  BY Typed DEF LinkSub, At, CallSound, KnowsUser
<1>2. user \in User /\ user.version \in Nat /\ Doc(c) \in User /\ Doc(c).version \in Nat
  BY <1>1, Typed, UserTyped, DocTyped
<1>3. /\ user' \in User /\ user'.version = user.version /\ user'.pw = user.pw
      /\ user'.org = user.org /\ user'.verified = "yes"
  BY <1>1, <1>2 DEF User, InHand, Verified
<1>4. user' # NoUser /\ orgs' = {user'.org}
  BY <1>1, <1>3, NoUserAssumption DEF AccountsInv, OneOrganization
<1>5. UserGrows /\ UserSound'
  BY <1>1, <1>2, <1>3, <1>4 DEF UserGrows, UserSound, Verified
<1>6. /\ cookies' \subseteq Cookie
      /\ \A k \in cookies' : k \in cookies \/ (k.version = Doc(c).version /\ k.pw = NoPassword)
  BY <1>1, <1>2, Given
<1>7. \A k \in cookies' : k \in cookies \/ CookieSound(k)'
  BY <1>1, <1>2, <1>3, <1>4, <1>6 DEF CookieSound, InHand, Verified
<1> QED
  BY <1>1, <1>3, <1>4, <1>5, <1>6, <1>7, Ended, UserStep

LEMMA ConfirmAddressInv ==
    ASSUME AccountsInv, NEW c \in Calls, ConfirmAddress(c)
    PROVE  AccountsInv'
<1>1. /\ UNCHANGED <<orgs, mail, up, faults>> /\ user # NoUser /\ End(c) /\ owned' = TRUE
      /\ GiveCookie(user, NoPassword) /\ user' = [user EXCEPT !.verified = "yes"]
  BY Typed DEF ConfirmAddress, At, CallSound, KnowsUser
<1>2. user \in User /\ user.version \in Nat
  BY <1>1, Typed, UserTyped
<1>3. /\ user' \in User /\ user'.version = user.version /\ user'.pw = user.pw
      /\ user'.org = user.org /\ user'.verified = "yes"
  BY <1>1, <1>2 DEF User
<1>4. user' # NoUser /\ orgs' = {user'.org}
  BY <1>1, <1>3, NoUserAssumption DEF AccountsInv, OneOrganization
<1>5. UserGrows /\ UserSound'
  BY <1>1, <1>2, <1>3, <1>4 DEF UserGrows, UserSound, Verified
<1>6. /\ cookies' \subseteq Cookie
      /\ \A k \in cookies' : k \in cookies \/ (k.version = user.version /\ k.pw = NoPassword)
  BY <1>1, <1>2, Given
<1>7. \A k \in cookies' : k \in cookies \/ CookieSound(k)'
  BY <1>1, <1>2, <1>3, <1>4, <1>6 DEF CookieSound, Verified
<1> QED
  BY <1>1, <1>3, <1>4, <1>5, <1>6, <1>7, Ended, UserStep

(* Every session and every document in memory is of an older version now. *)
LEMMA SetPasswordInv ==
    ASSUME AccountsInv, NEW c \in Calls, SetPassword(c)
    PROVE  AccountsInv'
<1>1. /\ UNCHANGED <<orgs, mail, cookies, up, faults>> /\ user # NoUser /\ End(c)
      /\ owned' = TRUE /\ call[c] \in Call /\ cookies \subseteq Cookie
      /\ user.version < MaxResets
      /\ user' = [user EXCEPT !.pw = call[c].pw, !.verified = "yes", !.version = @ + 1]
  BY Typed DEF SetPassword, At, CallSound, KnowsUser, NextVersion
<1>2. user \in User /\ user.version \in Nat /\ user.version + 1 \in 0..MaxResets
  BY <1>1, Typed, UserTyped, Numbers
<1>3. /\ user' \in User /\ user'.version = user.version + 1
      /\ user'.org = user.org /\ user'.verified = "yes"
  BY <1>1, <1>2 DEF User, Call
<1>4. user' # NoUser /\ orgs' = {user'.org}
  BY <1>1, <1>3, NoUserAssumption DEF AccountsInv, OneOrganization
<1>5. UserGrows /\ UserSound'
  BY <1>1, <1>2, <1>3, <1>4 DEF UserGrows, UserSound, Verified
<1> QED
  BY <1>1, <1>3, <1>4, <1>5, Ended, UserStep

(* The grandfathering confirms accounts that predate the check only. *)
LEMMA BootInv ==
    ASSUME AccountsInv, Boot
    PROVE  AccountsInv'
<1>1. UNCHANGED <<orgs, owned, link, inbox, cookies, call, faults>> /\ TypeOK
  BY Typed DEF Boot, mail
<1>2. up' \in BOOLEAN
  BY DEF Boot
<1>3. CASE user' = user
  <2>1. TypeOK'
    BY <1>1, <1>2, <1>3 DEF TypeOK
  <2>2. OneOrganization' /\ UserSound' /\ UserGrows /\ LinksGrow
    BY <1>1, <1>3, UserRests, LinksRest DEF AccountsInv, OneOrganization, UserSound, docs, Verified
  <2> QED
    BY <1>1, <2>1, <2>2, Step
<1>4. CASE user # NoUser /\ Grandfathered(user) /\ user' = [user EXCEPT !.verified = "yes"]
  <2>1. user \in User /\ user.version \in Nat /\ UserSound
    BY <1>1, <1>4, UserTyped DEF AccountsInv
  <2>2. /\ user' \in User /\ user'.version = user.version /\ user'.pw = user.pw
        /\ user'.org = user.org /\ user'.verified = "yes" /\ user'.sub = user.sub
    BY <1>4, <2>1 DEF User
  <2>3. user' # NoUser
    BY <2>2, NoUserAssumption
  <2>4. TypeOK'
    BY <1>1, <1>2, <2>2 DEF TypeOK
  <2>5. OneOrganization'
    BY <1>1, <1>4, <2>2, <2>3 DEF AccountsInv, OneOrganization
  <2>6. UserSound' /\ UserGrows /\ LinksGrow
    BY <1>1, <1>4, <2>1, <2>2, <2>3, LinksRest DEF UserSound, UserGrows, Verified, Grandfathered
  <2> QED
    BY <1>1, <2>4, <2>5, <2>6, Step
<1> QED
  BY <1>3, <1>4 DEF Boot
-----------------------------------------------------------------------------
LEMMA InitInv == Init => AccountsInv
<1> SUFFICES ASSUME Init PROVE AccountsInv
  OBVIOUS
<1> DEFINE Old(p) == [pw |-> p, sub |-> NoSub, verified |-> "missing", version |-> 0, org |-> NoCall]
<1>1. ASSUME NEW p \in Passwords
      PROVE  Old(p) \in User /\ Old(p).org = NoCall /\ Old(p).sub = NoSub
  BY Numbers DEF User
<1>2. /\ user \in User \cup {NoUser} /\ orgs \subseteq Calls \cup {NoCall}
      /\ OneOrganization /\ UserSound /\ owned \in BOOLEAN
  <2>1. CASE user = NoUser /\ orgs = {} /\ owned = FALSE
    BY <2>1 DEF OneOrganization, UserSound
  <2>2. CASE (\E p \in Passwords : user = Old(p)) /\ orgs = {NoCall} /\ owned = TRUE
    <3>1. PICK p \in Passwords : user = Old(p)
      BY <2>2
    <3> HIDE DEF Old
    <3>2. user \in User /\ user # NoUser /\ user.org = NoCall /\ user.sub = NoSub
      BY <1>1, <3>1, NoUserAssumption
    <3>3. OneOrganization /\ UserSound
      BY <2>2, <3>2 DEF OneOrganization, UserSound
    <3> QED
      BY <2>2, <3>2, <3>3
  <2> QED
    BY <2>1, <2>2 DEF Init
<1> DEFINE L == [state |-> "none", purpose |-> "verify_email", recent |-> FALSE, uses |-> 0]
<1>3. L \in Link /\ L.state = "none" /\ L.uses = 0
  BY DEF Link, Purposes
<1>4. /\ link = [l \in Links |-> L] /\ inbox = {} /\ cookies = {}
      /\ call = [c \in Calls |-> Idle] /\ faults = 0
  BY DEF Init
<1>5. up \in BOOLEAN
  BY DEF Init
<1> HIDE DEF L
<1>6. link \in [Links -> Link] /\ \A l \in Links : LinkSound(l)
  BY <1>3, <1>4 DEF LinkSound
<1>7. TypeOK
  BY <1>2, <1>4, <1>5, <1>6, IdleTyped, Numbers DEF TypeOK
<1>8. \A c \in Calls : CallSound(c)
  BY <1>4, IdleTyped DEF CallSound, Doc, InHand, KnowsUser
<1> QED
  BY <1>2, <1>4, <1>6, <1>7, <1>8 DEF AccountsInv

LEMMA NextInv ==
    ASSUME AccountsInv, [Next]_vars
    PROVE  AccountsInv'
<1>1. CASE Boot
  BY <1>1, BootInv
<1>2. CASE Crash
  BY <1>2, CrashInv
<1>3. CASE CooldownPasses
  BY <1>3, CooldownInv
<1>4. CASE \E l \in Links : Expire(l)
  BY <1>4, ExpireInv
<1>5. ASSUME NEW c \in Calls,
             \/ Request(c) \/ FindUser(c) \/ CreateAccount(c) \/ Reload(c)
             \/ SignIn(c) \/ SendLink(c) \/ FollowLink(c) \/ CallFails(c)
      PROVE  AccountsInv'
  <2>1. CASE SignIn(c)
    BY <2>1, FindSubInv, LinkSubInv, FindWinnerInv, CheckPasswordInv DEF SignIn
  <2>2. CASE SendLink(c)
    BY <2>2, CheckCooldownInv, IssueLinkInv, MailLinkInv DEF SendLink
  <2>3. CASE FollowLink(c)
    BY <2>3, RedeemLinkInv, RevokeLinksInv, ReadBeforeInv, ConfirmAddressInv, SetPasswordInv
       DEF FollowLink
  <2> QED
    BY <1>5, <2>1, <2>2, <2>3, RequestInv, FindUserInv, CreateAccountInv, ReloadInv, CallFailsInv
<1>6. CASE UNCHANGED vars
  <2>1. /\ UNCHANGED <<docs, inbox, cookies, call, up, faults, link>>
        /\ link \in [Links -> Link]
    BY <1>6 DEF vars, mail, AccountsInv, TypeOK
  <2>2. LinksGrow
    BY <2>1, LinksRest
  <2> QED
    BY <2>1, <2>2, LinksMove
<1> QED
  BY <1>1, <1>2, <1>3, <1>4, <1>5, <1>6 DEF Next

(* The inductive invariant: what a session, a link and a document that a    *)
(* request holds still have in common with the account.                     *)
THEOREM AccountsAreSound == Spec => []AccountsInv
BY InitInv, NextInv, PTL DEF Spec

(* Every variable keeps its type: accounts, links, sessions and the         *)
(* requests of auth/routes.ts with all they hold in memory.                 *)
THEOREM AccountsTyped == Spec => []TypeOK
<1>1. AccountsInv => TypeOK
  BY DEF AccountsInv
<1> QED
  BY <1>1, AccountsAreSound, PTL

(* However sign-ups race and wherever one is cut short, the user has one    *)
(* organization and nothing is left of the other; and no address is         *)
(* confirmed that nobody has shown to be his (routes.ts:155-186,            *)
(* grandfather.ts:4-7).                                                     *)
THEOREM AccountsAreWhole == Spec => []AccountWhole
<1>1. ASSUME AccountsInv PROVE AccountWhole
  <2>1. user # NoUser /\ user.verified = "yes" => owned
    BY <1>1 DEF AccountsInv, UserSound
  <2> QED
    BY <1>1, <2>1 DEF AccountsInv, AccountWhole, ConfirmedByOwner, Verified
<1> QED
  BY <1>1, AccountsAreSound, PTL

(* A session opened with a password cannot be renewed once the password has *)
(* been reset, even when the reset overlaps the sign-in (routes.ts:391).    *)
THEOREM ResetSignsOut == Spec => []SessionsFollowPassword
<1>1. ASSUME AccountsInv PROVE SessionsFollowPassword
  BY <1>1 DEF AccountsInv, SessionsFollowPassword, CookieSound, Refreshable
<1> QED
  BY <1>1, AccountsAreSound, PTL

(* A mailed link is redeemed once, whoever follows it at the same time, and *)
(* what was outstanding then is never redeemed after it (linkTokens.ts:42). *)
THEOREM LinksAreSpent == Spec => []LinksWorkOnce
<1>1. ASSUME AccountsInv PROVE LinksWorkOnce
  BY <1>1 DEF AccountsInv, LinksWorkOnce, CallSound, LinkSound
<1> QED
  BY <1>1, AccountsAreSound, PTL
=============================================================================
