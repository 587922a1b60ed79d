------------------------------ MODULE ReferralCodes ------------------------------
(***************************************************************************)
(* Referral links: the code of an organization, minted when its referrals  *)
(* page is first opened (referrals/routes.ts, ensureReferralCode), the     *)
(* browser that remembers a code it arrived with (referral.ts), and the    *)
(* attribution of a sign-up, by form or by Google (auth/routes.ts,         *)
(* referrerForCode, attributeSignup).                                      *)
(*                                                                         *)
(* What becomes of the account of a sign-up is modelled in Accounts, what  *)
(* its payments earn in Billing and ReferralPayouts.                       *)
(***************************************************************************)
EXTENDS Naturals, FiniteSets

CONSTANTS
    Members,     \* organizations from before
    Newcomers,   \* organizations that may sign up
    NoOrg,
    Codes,       \* what generateReferralCode returns
    Mistyped,    \* a code it never returns, or none after normalization
    NoCode,
    Views,       \* concurrent GET /referrals calls
    Tabs,        \* of the one browser the newcomers use
    Tries,       \* 5 in ensureReferralCode
    MaxFaults    \* bound on failing calls, lost answers and crashes

ASSUME CodesAssumption ==
    /\ Members \cap Newcomers = {} /\ NoOrg \notin Members \cup Newcomers
    /\ Mistyped \notin Codes /\ NoCode \notin Codes \cup {Mistyped}
    /\ Tries \in Nat \ {0} /\ MaxFaults \in Nat

VARIABLES
    code,        \* Organization.referralCode
    referredBy,  \* Organization.referredByOrganizationId
    signedUp,    \* organizations that exist
    view,        \* the GET /referrals calls
    shown,       \* history: the links organizations have been shown
    remembered,  \* the code in the browser's localStorage
    signup,      \* the sign-up of each tab
    carried,     \* history: the code each newcomer's sign-up carried
    faults

orgs == <<code, referredBy, signedUp>>
visit == <<remembered, signup, carried>>
vars == <<orgs, view, shown, visit, faults>>

Orgs == Members \cup Newcomers
Code == Codes \cup {NoCode}
Link == Codes \cup {Mistyped, NoCode}

View == [pc: {"idle", "find", "mint", "settle"}, org: Orgs \cup {NoOrg}, tries: 0..Tries]

(* "answer": the account is there, or was before, and the tab will hear. *)
Signup == [pc: {"idle", "create", "resolve", "attribute", "answer"},
           code: Link, org: Orgs \cup {NoOrg}, referrer: Orgs \cup {NoOrg}]

TypeOK ==
    /\ code \in [Orgs -> Code]
    /\ referredBy \in [Orgs -> Orgs \cup {NoOrg}]
    /\ signedUp \subseteq Orgs
    /\ view \in [Views -> View]
    /\ shown \subseteq Orgs \X Codes
    /\ remembered \in Link
    /\ signup \in [Tabs -> Signup]
    /\ carried \in [Newcomers -> Link]
    /\ faults \in 0..MaxFaults

Closed == [pc |-> "idle", org |-> NoOrg, tries |-> 0]
NoSignup == [pc |-> "idle", code |-> NoCode, org |-> NoOrg, referrer |-> NoOrg]

Init ==
    /\ code = [o \in Orgs |-> NoCode]
    /\ referredBy = [o \in Orgs |-> NoOrg]
    /\ signedUp = Members
    /\ view = [v \in Views |-> Closed]
    /\ shown = {}
    /\ remembered = NoCode
    /\ signup = [t \in Tabs |-> NoSignup]
    /\ carried = [o \in Newcomers |-> NoCode]
    /\ faults = 0

Fault == faults < MaxFaults /\ faults' = faults + 1

Viewing(v, pc) == view[v].pc = pc
Owners(k) == {o \in Orgs : code[o] = k}
-----------------------------------------------------------------------------
(* GET /referrals *)
OpenPage(v, o) ==
    /\ Viewing(v, "idle") /\ o \in signedUp
    /\ view' = [view EXCEPT ![v] = [Closed EXCEPT !.pc = "find", !.org = o]]
    /\ UNCHANGED <<orgs, shown, visit, faults>>

Show(v, k) ==
    /\ shown' = shown \cup {<<view[v].org, k>>}
    /\ view' = [view EXCEPT ![v] = Closed]

FindCode(v) ==
    /\ Viewing(v, "find")
    /\ LET k == code[view[v].org] IN
       \/ k # NoCode /\ Show(v, k)
       \/ k = NoCode /\ view' = [view EXCEPT ![v].pc = "mint"] /\ UNCHANGED shown
    /\ UNCHANGED <<orgs, visit, faults>>

(* Mutant: the update finds the organization by its id alone. *)
Mintable_Always(o) == TRUE

Mintable(o) == code[o] = NoCode

AfterCollision(v) ==
    [view[v] EXCEPT !.tries = @ + 1, !.pc = IF view[v].tries + 1 < Tries THEN "mint" ELSE "settle"]

(* One turn of the loop, with k generated: the update sets the code, finds  *)
(* that another call has minted one, or hits the unique index.              *)
MintCode(v, k) ==
    /\ Viewing(v, "mint")
    /\ LET o == view[v].org IN
       \/ /\ Mintable(o) /\ Owners(k) \subseteq {o}
          /\ code' = [code EXCEPT ![o] = k]
          /\ Show(v, k)
       \/ /\ Mintable(o) /\ ~(Owners(k) \subseteq {o})
          /\ view' = [view EXCEPT ![v] = AfterCollision(v)]
          /\ UNCHANGED <<code, shown>>
       \/ /\ ~Mintable(o)
          /\ view' = [view EXCEPT ![v].pc = "settle"]
          /\ UNCHANGED <<code, shown>>
    /\ UNCHANGED <<referredBy, signedUp, visit, faults>>

(* The final findById; without a code the call answers 500. *)
Settle(v) ==
    /\ Viewing(v, "settle")
    /\ LET k == code[view[v].org] IN
       \/ k # NoCode /\ Show(v, k)
       \/ k = NoCode /\ view' = [view EXCEPT ![v] = Closed] /\ UNCHANGED shown
    /\ UNCHANGED <<orgs, visit, faults>>

ViewRejects(v) ==
    /\ ~Viewing(v, "idle") /\ Fault
    /\ view' = [view EXCEPT ![v] = Closed]
    /\ UNCHANGED <<orgs, shown, visit>>
-----------------------------------------------------------------------------
(* ReferralLanding: a link that was shown is opened, or a wrong one *)
FollowLink(k) ==
    /\ k = Mistyped \/ \E o \in Orgs : <<o, k>> \in shown
    /\ remembered' = k
    /\ UNCHANGED <<orgs, view, shown, signup, carried, faults>>

SigningUp(t, pc) == signup[t].pc = pc
GoOn(t, pc) == signup' = [signup EXCEPT ![t].pc = pc]

(* POST /register or /google *)
SubmitSignup(t) ==
    /\ SigningUp(t, "idle")
    /\ signup' = [signup EXCEPT ![t] = [NoSignup EXCEPT !.pc = "create", !.code = remembered]]
    /\ UNCHANGED <<orgs, view, shown, remembered, carried, faults>>

(* Mutant: one of the two routes forgets the code. *)
AfterCreate_Forgets(t) == "answer"

AfterCreate(t) == IF signup[t].code # NoCode THEN "resolve" ELSE "answer"

(* The transaction creates the account, or the address has one already. *)
CreateAccount(t) ==
    /\ SigningUp(t, "create")
    /\ \/ \E o \in Newcomers \ signedUp :
             /\ signedUp' = signedUp \cup {o}
             /\ carried' = [carried EXCEPT ![o] = signup[t].code]
             /\ signup' = [signup EXCEPT ![t].org = o, ![t].pc = AfterCreate(t)]
       \/ GoOn(t, "answer") /\ UNCHANGED <<signedUp, carried>>
    /\ UNCHANGED <<code, referredBy, view, shown, remembered, faults>>

(* referrerForCode *)
ResolveCode(t) ==
    /\ SigningUp(t, "resolve")
    /\ \/ \E o \in Owners(signup[t].code) :
             signup' = [signup EXCEPT ![t].referrer = o, ![t].pc = "attribute"]
       \/ Owners(signup[t].code) = {} /\ GoOn(t, "answer")
    /\ UNCHANGED <<orgs, view, shown, remembered, carried, faults>>

(* attributeSignup *)
Attribute(t) ==
    /\ SigningUp(t, "attribute")
    /\ LET s == signup[t] IN
       referredBy' = IF s.referrer # s.org /\ referredBy[s.org] = NoOrg
                     THEN [referredBy EXCEPT ![s.org] = s.referrer] ELSE referredBy
    /\ GoOn(t, "answer")
    /\ UNCHANGED <<code, signedUp, view, shown, remembered, carried, faults>>

(* clearReferralCode, whichever code is there by now *)
SignupAnswered(t) ==
    /\ SigningUp(t, "answer")
    /\ remembered' = NoCode
    /\ signup' = [signup EXCEPT ![t] = NoSignup]
    /\ UNCHANGED <<orgs, view, shown, carried, faults>>

(* A failing attribution is logged; any other failure is the tab's, which   *)
(* keeps its code.                                                          *)
SignupRejects(t) ==
    /\ ~SigningUp(t, "idle") /\ Fault
    /\ \/ signup[t].pc \in {"resolve", "attribute"} /\ GoOn(t, "answer")
       \/ signup[t].pc \in {"create", "answer"} /\ signup' = [signup EXCEPT ![t] = NoSignup]
    /\ UNCHANGED <<orgs, view, shown, remembered, carried>>

(* The API dies. *)
Crash ==
    /\ Fault
    /\ view' = [v \in Views |-> Closed]
    /\ signup' = [t \in Tabs |-> NoSignup]
    /\ UNCHANGED <<orgs, shown, remembered, carried>>

Next ==
    \/ \E v \in Views :
          \/ \E o \in Orgs : OpenPage(v, o)
          \/ \E k \in Codes : MintCode(v, k)
          \/ FindCode(v) \/ Settle(v) \/ ViewRejects(v)
    \/ \E k \in Codes \cup {Mistyped} : FollowLink(k)
    \/ \E t \in Tabs :
          \/ SubmitSignup(t) \/ CreateAccount(t) \/ ResolveCode(t) \/ Attribute(t)
          \/ SignupAnswered(t) \/ SignupRejects(t)
    \/ Crash

Spec == Init /\ [][Next]_vars
-----------------------------------------------------------------------------
(* Every link ever shown leads to who was shown it, for good: of two pages  *)
(* opened at once neither shows a code the other replaces, and no two       *)
(* organizations share one (commissions.ts:28-42, "read it back rather than *)
(* overwrite").                                                             *)
LinkLeadsToOwner == \A link \in shown : Owners(link[2]) = {link[1]}

(* The page is refused a code only after Tries collisions with the codes of *)
(* others; losing to another call for the same organization is not one      *)
(* (commissions.ts:45-46).                                                  *)
MintFailsOnlyByCollisions ==
    \A v \in Views :
        Viewing(v, "settle") /\ code[view[v].org] = NoCode => view[v].tries = Tries

(* A page that is opened shows the one code of its organization.            *)
MintingIsSound == LinkLeadsToOwner /\ MintFailsOnlyByCollisions

(* Once its sign-up has been answered, an organization is attributed to     *)
(* whoever shared the link it came by, unless a call failed on the way, and *)
(* to nobody else ever (routes.ts:188-198; Referrals.tsx:67, "attributed to *)
(* you permanently").                                                       *)
AttributedToLink ==
    \A o \in Orgs :
        /\ referredBy[o] # NoOrg =>
              /\ o \in Newcomers
              /\ <<referredBy[o], carried[o]>> \in shown
        /\ /\ o \in Newcomers /\ carried[o] \in Codes
           /\ \A t \in Tabs : signup[t].org # o
           => referredBy[o] # NoOrg \/ faults > 0
=============================================================================
