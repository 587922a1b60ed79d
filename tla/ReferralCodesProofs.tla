-------------------------- MODULE ReferralCodesProofs --------------------------
(***************************************************************************)
(* Proofs about ReferralCodes, for any number of organizations, codes,     *)
(* pages, tabs, tries and faults.                                          *)
(***************************************************************************)
EXTENDS ReferralCodes, TLAPS

(* A code a browser arrived with is one that somebody has been shown. *)
Brought(k) == k \in Codes => \E p \in Orgs : <<p, k>> \in shown

(* A page gives up early only because a code was minted meanwhile. *)
ViewOK(v) ==
    /\ view[v].pc # "idle" => view[v].org \in signedUp
    /\ view[v].pc = "find" => view[v].tries = 0
    /\ view[v].pc = "mint" => view[v].tries < Tries
    /\ view[v].pc = "settle" => code[view[v].org] # NoCode \/ view[v].tries = Tries

(* A sign-up that is still to be attributed has an account of its own. *)
SignupOK(t) ==
    LET s == signup[t] IN
    /\ s.pc \in {"idle", "create"} => s.org = NoOrg
    /\ s.pc = "create" => Brought(s.code)
    /\ s.org # NoOrg => s.org \in Newcomers \cap signedUp /\ s.code = carried[s.org]
    /\ s.pc \in {"resolve", "attribute"} =>
          s.org # NoOrg /\ s.code # NoCode /\ referredBy[s.org] = NoOrg
    /\ s.pc = "attribute" => <<s.referrer, s.code>> \in shown

(* The code of a newcomer was shown to another organization before it       *)
(* existed.                                                                 *)
CarriedOK(o) ==
    /\ o \notin signedUp => carried[o] = NoCode /\ referredBy[o] = NoOrg
    /\ carried[o] \in Codes => \E p \in Orgs \ {o} : <<p, carried[o]>> \in shown
    /\ referredBy[o] # NoOrg => <<referredBy[o], carried[o]>> \in shown
    /\ carried[o] \in Codes /\ faults = 0 /\ referredBy[o] = NoOrg =>
          \E t \in Tabs : signup[t].org = o /\ signup[t].pc \in {"resolve", "attribute"}

CodesApart == \A o, p \in Orgs : code[o] = code[p] => code[o] = NoCode \/ o = p

ShownOK == \A link \in shown : link[1] \in signedUp /\ code[link[1]] = link[2]

SignupsApart == \A t, u \in Tabs : signup[t].org = signup[u].org => signup[t].org = NoOrg \/ t = u

CodesInv ==
    /\ TypeOK /\ CodesApart /\ ShownOK /\ SignupsApart
    /\ Brought(remembered)
    /\ \A v \in Views : ViewOK(v)
    /\ \A t \in Tabs : SignupOK(t)
    /\ \A o \in Newcomers : CarriedOK(o)
    /\ \A o \in Members : referredBy[o] = NoOrg
-----------------------------------------------------------------------------
LEMMA ClosedTyped == Closed \in View /\ Closed.pc = "idle" /\ Closed.org = NoOrg /\ Closed.tries = 0
BY CodesAssumption DEF Closed, View

LEMMA NoSignupTyped == NoSignup \in Signup /\ NoSignup.pc = "idle" /\ NoSignup.org = NoOrg
BY DEF NoSignup, Signup, Link

LEMMA InitInv == Init => CodesInv
<1> SUFFICES ASSUME Init PROVE CodesInv
  OBVIOUS
<1>1. TypeOK
  BY ClosedTyped, NoSignupTyped, CodesAssumption DEF Init, TypeOK, Code, Link, Orgs
<1>2. \A v \in Views : ViewOK(v)
  BY ClosedTyped DEF Init, ViewOK
<1>3. \A t \in Tabs : SignupOK(t)
  BY NoSignupTyped DEF Init, SignupOK
<1>4. \A o \in Newcomers : CarriedOK(o)
  BY CodesAssumption DEF Init, CarriedOK, Orgs
<1>5. Brought(remembered) /\ CodesApart /\ ShownOK /\ SignupsApart
  BY NoSignupTyped, CodesAssumption DEF Init, Brought, CodesApart, ShownOK, SignupsApart, Orgs
<1> QED
  BY <1>1, <1>2, <1>3, <1>4, <1>5 DEF CodesInv, Init, Orgs

(* The code of a link that was shown belongs to one organization. *)
LEMMA OneOwner ==
    ASSUME CodesInv, NEW p \in Orgs, NEW k \in Codes, <<p, k>> \in shown
    PROVE  Owners(k) = {p}
<1>1. code[p] = k /\ k # NoCode
  BY CodesAssumption DEF CodesInv, ShownOK
<1> QED
  BY <1>1 DEF CodesInv, CodesApart, Owners

(* The pages: what a step of one of them may change *)
LEMMA ViewStep ==
    ASSUME CodesInv, UNCHANGED <<referredBy, signedUp, visit>>,
           view' \in [Views -> View], shown' \subseteq Orgs \X Codes, faults' \in 0..MaxFaults, faults <= faults',
           code' \in [Orgs -> Code], shown \subseteq shown', CodesApart', ShownOK',
           \A v \in Views : ViewOK(v)'
    PROVE  CodesInv'
<1>1. TypeOK'
  BY DEF CodesInv, TypeOK, visit
<1>2. Brought(remembered)'
  BY DEF CodesInv, Brought, visit
<1>3. \A t \in Tabs : SignupOK(t)'
  BY DEF CodesInv, SignupOK, Brought, visit
<1>4. \A o \in Newcomers : CarriedOK(o)'
  <2>1. faults' = 0 => faults = 0
    BY CodesAssumption DEF CodesInv, TypeOK
  <2> QED
    BY <2>1 DEF CodesInv, CarriedOK, visit
<1> QED
  BY <1>1, <1>2, <1>3, <1>4 DEF CodesInv, SignupsApart, visit

(* One page moves on, and codes stay as they are. *)
LEMMA PageMoves ==
    ASSUME CodesInv, UNCHANGED <<orgs, shown, visit>>, NEW v \in Views, NEW x \in View,
           view' = [view EXCEPT ![v] = x], ViewOK(v)', faults' \in 0..MaxFaults, faults <= faults'
    PROVE  CodesInv'
<1>1. view \in [Views -> View]
  BY DEF CodesInv, TypeOK
<1>2. \A u \in Views : ViewOK(u)'
  BY <1>1 DEF CodesInv, ViewOK, orgs
<1>3. CodesApart' /\ ShownOK' /\ code' \in [Orgs -> Code] /\ shown' \subseteq Orgs \X Codes
  BY DEF CodesInv, CodesApart, ShownOK, TypeOK, orgs
<1> QED
  BY <1>1, <1>2, <1>3, ViewStep DEF orgs

(* A page shows its organization the code it has. *)
LEMMA ShowInv ==
    ASSUME CodesInv, NEW v \in Views, NEW k \in Codes, code[view[v].org] = k, view[v].pc # "idle",
           Show(v, k), UNCHANGED <<orgs, visit, faults>>
    PROVE  CodesInv'
<1>1. /\ view \in [Views -> View] /\ view[v].org \in signedUp /\ view[v].org \in Orgs
      /\ faults' \in 0..MaxFaults /\ faults <= faults'
  BY CodesAssumption DEF CodesInv, TypeOK, ViewOK
<1>2. view' = [view EXCEPT ![v] = Closed] /\ shown' = shown \cup {<<view[v].org, k>>}
  BY DEF Show
<1>3. \A u \in Views : ViewOK(u)'
  BY <1>1, <1>2, ClosedTyped DEF CodesInv, ViewOK, orgs
<1>4. ShownOK'
  BY <1>1, <1>2 DEF CodesInv, ShownOK, orgs
<1>5. CodesApart' /\ code' \in [Orgs -> Code] /\ shown' \subseteq Orgs \X Codes
  BY <1>1, <1>2 DEF CodesInv, CodesApart, TypeOK, orgs
<1>6. view' \in [Views -> View]
  BY <1>1, <1>2, ClosedTyped
<1> QED
  BY <1>1, <1>2, <1>3, <1>4, <1>5, <1>6, ViewStep DEF orgs

LEMMA FaultsGrow ==
    ASSUME CodesInv, Fault
    PROVE  faults' \in 0..MaxFaults /\ faults <= faults' /\ faults' > 0
BY CodesAssumption DEF CodesInv, TypeOK, Fault

LEMMA FaultsStay ==
    ASSUME CodesInv, UNCHANGED faults
    PROVE  faults' \in 0..MaxFaults /\ faults <= faults'
BY CodesAssumption DEF CodesInv, TypeOK

LEMMA OpenPageInv ==
    ASSUME CodesInv, NEW v \in Views, NEW o \in Orgs, OpenPage(v, o)
    PROVE  CodesInv'
<1> DEFINE x == [Closed EXCEPT !.pc = "find", !.org = o]
<1>1. x \in View /\ x.pc = "find" /\ x.org = o /\ x.tries = 0
  BY ClosedTyped DEF View
<1>2. view' = [view EXCEPT ![v] = x] /\ o \in signedUp /\ UNCHANGED <<orgs, shown, visit, faults>>
  BY DEF OpenPage
<1> HIDE DEF x
<1>3. ViewOK(v)'
  BY <1>1, <1>2 DEF CodesInv, TypeOK, ViewOK, orgs
<1> QED
  BY <1>1, <1>2, <1>3, PageMoves, FaultsStay

(* A page goes on to pc, or ends. *)
LEMMA PageGoes ==
    ASSUME CodesInv, NEW v \in Views, view[v].pc # "idle",
           \/ view' = [view EXCEPT ![v] = Closed]
           \/ /\ view[v].pc = "find" /\ view' = [view EXCEPT ![v].pc = "mint"]
           \/ /\ view[v].pc = "mint" /\ code[view[v].org] # NoCode
              /\ view' = [view EXCEPT ![v].pc = "settle"]
           \/ /\ view[v].pc = "mint" /\ view' = [view EXCEPT ![v] = AfterCollision(v)],
           UNCHANGED <<orgs, shown, visit>>, faults' \in 0..MaxFaults, faults <= faults'
    PROVE  CodesInv'
<1>1. view \in [Views -> View] /\ view[v] \in View /\ ViewOK(v)
  BY DEF CodesInv, TypeOK
<1>2. CASE view' = [view EXCEPT ![v] = Closed]
  <2>1. ViewOK(v)'
    BY <1>1, <1>2, ClosedTyped DEF ViewOK
  <2> QED
    BY <1>2, <2>1, ClosedTyped, PageMoves
<1>3. CASE view[v].pc = "find" /\ view' = [view EXCEPT ![v].pc = "mint"]
  <2> DEFINE x == [view[v] EXCEPT !.pc = "mint"]
  <2>1. view' = [view EXCEPT ![v] = x] /\ x \in View /\ x.pc = "mint" /\ x.org = view[v].org /\ x.tries = 0
    BY <1>1, <1>3 DEF View, ViewOK
  <2> HIDE DEF x
  <2>2. ViewOK(v)'
    BY <1>1, <1>3, <2>1, CodesAssumption DEF ViewOK, orgs
  <2> QED
    BY <2>1, <2>2, PageMoves
<1>4. CASE /\ view[v].pc = "mint" /\ code[view[v].org] # NoCode
           /\ view' = [view EXCEPT ![v].pc = "settle"]
  <2> DEFINE x == [view[v] EXCEPT !.pc = "settle"]
  <2>1. view' = [view EXCEPT ![v] = x] /\ x \in View /\ x.pc = "settle" /\ x.org = view[v].org
    BY <1>1, <1>4 DEF View
  <2> HIDE DEF x
  <2>2. ViewOK(v)'
    BY <1>1, <1>4, <2>1 DEF ViewOK, orgs
  <2> QED
    BY <2>1, <2>2, PageMoves
<1>5. CASE view[v].pc = "mint" /\ view' = [view EXCEPT ![v] = AfterCollision(v)]
  <2> DEFINE x == AfterCollision(v)
             n == view[v].tries
  <2>1. n \in 0..Tries /\ n < Tries /\ n + 1 \in 0..Tries /\ n + 1 <= Tries
    BY <1>1, <1>5, CodesAssumption DEF ViewOK, View
  <2>2. /\ x \in View /\ x.org = view[v].org /\ x.tries = n + 1
        /\ x.pc = IF n + 1 < Tries THEN "mint" ELSE "settle"
    BY <1>1, <2>1 DEF AfterCollision, View
  <2> HIDE DEF x
  <2>3. ViewOK(v)'
    BY <1>1, <1>5, <2>1, <2>2, CodesAssumption DEF ViewOK, orgs, x
  <2> QED
    BY <1>5, <2>2, <2>3, PageMoves DEF x
<1> QED
  BY <1>2, <1>3, <1>4, <1>5

LEMMA FindCodeInv == ASSUME CodesInv, NEW v \in Views, FindCode(v) PROVE CodesInv'
<1> DEFINE k == code[view[v].org]
<1>1. view[v].pc = "find" /\ UNCHANGED <<orgs, visit, faults>>
  BY DEF FindCode, Viewing
<1>2. view[v].org \in Orgs /\ k \in Code
  BY <1>1 DEF CodesInv, ViewOK, TypeOK
<1>3. CASE k # NoCode /\ Show(v, k)
  BY <1>1, <1>2, <1>3, ShowInv DEF Code
<1>4. CASE view' = [view EXCEPT ![v].pc = "mint"] /\ UNCHANGED shown
  BY <1>1, <1>4, PageGoes, FaultsStay
<1> QED
  BY <1>3, <1>4 DEF FindCode

LEMMA SettleInv == ASSUME CodesInv, NEW v \in Views, Settle(v) PROVE CodesInv'
<1> DEFINE k == code[view[v].org]
<1>1. view[v].pc = "settle" /\ UNCHANGED <<orgs, visit, faults>>
  BY DEF Settle, Viewing
<1>2. view[v].org \in Orgs /\ k \in Code
  BY <1>1 DEF CodesInv, ViewOK, TypeOK
<1>3. CASE k # NoCode /\ Show(v, k)
  BY <1>1, <1>2, <1>3, ShowInv DEF Code
<1>4. CASE view' = [view EXCEPT ![v] = Closed] /\ UNCHANGED shown
  BY <1>1, <1>4, PageGoes, FaultsStay
<1> QED
  BY <1>3, <1>4 DEF Settle

LEMMA ViewRejectsInv == ASSUME CodesInv, NEW v \in Views, ViewRejects(v) PROVE CodesInv'
BY PageGoes, FaultsGrow DEF ViewRejects, Viewing

(* A code that is set was nobody's, for an organization that had none. *)
LEMMA MintCodeInv == ASSUME CodesInv, NEW v \in Views, NEW k \in Codes, MintCode(v, k) PROVE CodesInv'
<1> DEFINE o == view[v].org
<1>1. view[v].pc = "mint" /\ UNCHANGED <<referredBy, signedUp, visit, faults>>
  BY DEF MintCode, Viewing
<1>2. /\ o \in Orgs /\ o \in signedUp /\ code \in [Orgs -> Code] /\ view \in [Views -> View]
      /\ shown \subseteq Orgs \X Codes /\ k # NoCode
  BY <1>1, CodesAssumption DEF CodesInv, ViewOK, TypeOK
<1>3. CASE /\ Mintable(o) /\ Owners(k) \subseteq {o}
           /\ code' = [code EXCEPT ![o] = k] /\ Show(v, k)
  <2>1. code[o] = NoCode /\ \A p \in Orgs : code[p] = k => p = o
    BY <1>3 DEF Mintable, Owners
  <2>2. CodesApart'
    BY <1>2, <1>3, <2>1 DEF CodesInv, CodesApart
  <2>3. shown' = shown \cup {<<o, k>>} /\ view' = [view EXCEPT ![v] = Closed]
    BY <1>3 DEF Show
  <2>4. \A link \in shown : link[1] \in Orgs /\ link[2] \in Codes
    BY <1>2
  <2>5. \A link \in shown : link[1] # o
    BY <2>1, <2>4, CodesAssumption DEF CodesInv, ShownOK
  <2>6. ShownOK'
    <3>1. \A link \in shown : link[1] \in signedUp' /\ code'[link[1]] = link[2]
      BY <1>1, <1>2, <1>3, <2>4, <2>5 DEF CodesInv, ShownOK
    <3>2. code'[o] = k /\ o \in signedUp'
      BY <1>1, <1>2, <1>3
    <3> QED
      BY <2>3, <3>1, <3>2 DEF ShownOK
  <2>7. ASSUME NEW u \in Views PROVE ViewOK(u)'
    <3>1. \A p \in Orgs : code[p] # NoCode => code'[p] # NoCode
      BY <1>2, <1>3
    <3>2. ViewOK(u) /\ (view[u].pc # "idle" => view[u].org \in Orgs)
      BY DEF CodesInv, ViewOK, TypeOK
    <3> QED
      BY <1>1, <1>2, <2>3, <3>1, <3>2, ClosedTyped DEF ViewOK
  <2>8. code' \in [Orgs -> Code] /\ shown' \subseteq Orgs \X Codes /\ view' \in [Views -> View]
    BY <1>2, <1>3, <2>3, ClosedTyped DEF Code
  <2> QED
    BY <1>1, <2>2, <2>3, <2>6, <2>7, <2>8, ViewStep, FaultsStay
<1>4. CASE /\ view' = [view EXCEPT ![v] = AfterCollision(v)] /\ UNCHANGED <<code, shown>>
  BY <1>1, <1>4, PageGoes, FaultsStay DEF orgs
<1>5. CASE /\ ~Mintable(o) /\ view' = [view EXCEPT ![v].pc = "settle"] /\ UNCHANGED <<code, shown>>
  BY <1>1, <1>5, PageGoes, FaultsStay DEF Mintable, orgs
<1> QED
  BY <1>3, <1>4, <1>5 DEF MintCode
-----------------------------------------------------------------------------
(* The sign-ups.  Codes, pages and links stay as they are. *)
LEMMA SignupStep ==
    ASSUME CodesInv, UNCHANGED <<code, view, shown>>, signedUp \subseteq signedUp', TypeOK',
           Brought(remembered)', SignupsApart', \A t \in Tabs : SignupOK(t)',
           \A o \in Newcomers : CarriedOK(o)', \A o \in Members : referredBy'[o] = NoOrg
    PROVE  CodesInv'
<1>1. \A v \in Views : ViewOK(v)'
  BY DEF CodesInv, ViewOK
<1>2. CodesApart' /\ ShownOK'
  BY DEF CodesInv, CodesApart, ShownOK
<1> QED
  BY <1>1, <1>2 DEF CodesInv

LEMMA FollowLinkInv ==
    ASSUME CodesInv, NEW k \in Codes \cup {Mistyped}, FollowLink(k)
    PROVE  CodesInv'
<1>1. UNCHANGED <<orgs, view, shown, signup, carried, faults>> /\ remembered' = k
  BY DEF FollowLink
<1>2. Brought(remembered)'
  BY <1>1, CodesAssumption DEF FollowLink, Brought
<1>3. TypeOK'
  BY <1>1 DEF CodesInv, TypeOK, orgs, Link
<1>4. SignupsApart' /\ \A t \in Tabs : SignupOK(t)'
  BY <1>1 DEF CodesInv, SignupsApart, SignupOK, Brought, orgs
<1>5. \A o \in Newcomers : CarriedOK(o)'
  BY <1>1 DEF CodesInv, CarriedOK, orgs
<1> QED
  BY <1>1, <1>2, <1>3, <1>4, <1>5, SignupStep DEF CodesInv, orgs

(* A tab whose organization, if it still has one, needs it no more *)
LEMMA TabMoves ==
    ASSUME CodesInv, UNCHANGED <<orgs, view, shown, carried>>, NEW t \in Tabs, NEW s \in Signup,
           signup' = [signup EXCEPT ![t] = s], s.org \in {signup[t].org, NoOrg}, SignupOK(t)',
           Brought(remembered)', remembered' \in Link, faults' \in 0..MaxFaults, faults <= faults',
           \/ signup[t].pc \notin {"resolve", "attribute"}
           \/ s.pc \in {"resolve", "attribute"} /\ s.org = signup[t].org
           \/ faults' > 0
           \/ carried[signup[t].org] \notin Codes
    PROVE  CodesInv'
<1>1. signup \in [Tabs -> Signup]
  BY DEF CodesInv, TypeOK
<1>2. TypeOK'
  BY <1>1 DEF CodesInv, TypeOK, orgs
<1>3. ASSUME NEW u \in Tabs PROVE SignupOK(u)'
  <2>1. CASE u # t
    BY <1>1, <2>1 DEF CodesInv, SignupOK, Brought, orgs
  <2> QED
    BY <2>1
<1>4. SignupsApart'
  BY <1>1 DEF CodesInv, SignupsApart
<1>5. ASSUME NEW o \in Newcomers PROVE CarriedOK(o)'
  <2>1. CarriedOK(o) /\ (faults' = 0 => faults = 0)
    BY CodesAssumption DEF CodesInv, TypeOK
  <2>2. ASSUME carried[o] \in Codes, faults' = 0, referredBy[o] = NoOrg
        PROVE  \E u \in Tabs : signup'[u].org = o /\ signup'[u].pc \in {"resolve", "attribute"}
    <3>1. PICK u \in Tabs : signup[u].org = o /\ signup[u].pc \in {"resolve", "attribute"}
      BY <2>1, <2>2 DEF CarriedOK
    <3>2. CASE u # t
      BY <1>1, <3>1, <3>2
    <3>3. CASE u = t
      BY <1>1, <2>2, <3>1, <3>3
    <3> QED
      BY <3>2, <3>3
  <2> QED
    BY <2>1, <2>2 DEF CarriedOK, orgs
<1> QED
  BY <1>2, <1>3, <1>4, <1>5, SignupStep DEF CodesInv, orgs

LEMMA SubmitSignupInv == ASSUME CodesInv, NEW t \in Tabs, SubmitSignup(t) PROVE CodesInv'
<1> DEFINE s == [NoSignup EXCEPT !.pc = "create", !.code = remembered]
<1>1. s \in Signup /\ s.pc = "create" /\ s.org = NoOrg /\ s.code = remembered
  BY NoSignupTyped DEF Signup, CodesInv, TypeOK
<1>2. /\ signup' = [signup EXCEPT ![t] = s] /\ signup[t].pc = "idle"
      /\ UNCHANGED <<orgs, view, shown, remembered, carried, faults>>
  BY DEF SubmitSignup, SigningUp
<1> HIDE DEF s
<1>3. SignupOK(t)' /\ Brought(remembered)' /\ remembered' \in Link
  BY <1>1, <1>2 DEF SignupOK, CodesInv, TypeOK, Brought
<1> QED
  BY <1>1, <1>2, <1>3, TabMoves, FaultsStay

(* The tab waits for the answer. *)
LEMMA TabAnswered ==
    ASSUME CodesInv, NEW t \in Tabs, signup[t].pc # "idle",
           signup' = [signup EXCEPT ![t].pc = "answer"] \/ signup' = [signup EXCEPT ![t] = NoSignup],
           UNCHANGED <<orgs, view, shown, carried>>, remembered' \in {remembered, NoCode},
           faults' \in 0..MaxFaults, faults <= faults',
           \/ signup[t].pc \notin {"resolve", "attribute"}
           \/ faults' > 0
           \/ carried[signup[t].org] \notin Codes
    PROVE  CodesInv'
<1>1. signup[t] \in Signup /\ signup \in [Tabs -> Signup] /\ SignupOK(t)
  BY DEF CodesInv, TypeOK
<1>2. Brought(remembered)' /\ remembered' \in Link
  BY CodesAssumption DEF CodesInv, TypeOK, Brought, Link
<1>3. CASE signup' = [signup EXCEPT ![t].pc = "answer"]
  <2> DEFINE s == [signup[t] EXCEPT !.pc = "answer"]
  <2>1. /\ signup' = [signup EXCEPT ![t] = s] /\ s \in Signup /\ s.pc = "answer"
        /\ s.org = signup[t].org /\ s.code = signup[t].code
    BY <1>1, <1>3 DEF Signup
  <2> HIDE DEF s
  <2>2. SignupOK(t)'
    BY <1>1, <2>1 DEF SignupOK, orgs
  <2> QED
    BY <1>2, <2>1, <2>2, TabMoves
<1>4. CASE signup' = [signup EXCEPT ![t] = NoSignup]
  <2>1. SignupOK(t)'
    BY <1>1, <1>4, NoSignupTyped DEF SignupOK
  <2> QED
    BY <1>2, <1>4, <2>1, NoSignupTyped, TabMoves
<1> QED
  BY <1>3, <1>4

LEMMA SignupAnsweredInv == ASSUME CodesInv, NEW t \in Tabs, SignupAnswered(t) PROVE CodesInv'
BY TabAnswered, FaultsStay DEF SignupAnswered, SigningUp

LEMMA SignupRejectsInv == ASSUME CodesInv, NEW t \in Tabs, SignupRejects(t) PROVE CodesInv'
BY TabAnswered, FaultsGrow DEF SignupRejects, SigningUp, GoOn

(* An account that is created exists from then on, and was nobody's. *)
LEMMA CreateAccountInv == ASSUME CodesInv, NEW t \in Tabs, CreateAccount(t) PROVE CodesInv'
<1>1. signup[t].pc = "create" /\ UNCHANGED <<code, referredBy, view, shown, remembered, faults>>
  BY DEF CreateAccount, SigningUp
<1>2. /\ signup \in [Tabs -> Signup] /\ signup[t] \in Signup /\ SignupOK(t)
      /\ carried \in [Newcomers -> Link] /\ signedUp \subseteq Orgs
  BY DEF CodesInv, TypeOK
<1>3. Brought(signup[t].code) /\ signup[t].org = NoOrg
  BY <1>1, <1>2 DEF SignupOK
<1>4. CASE GoOn(t, "answer") /\ UNCHANGED <<signedUp, carried>>
  BY <1>1, <1>4, TabAnswered, FaultsStay DEF GoOn, orgs
<1>5. ASSUME NEW o \in Newcomers \ signedUp, signedUp' = signedUp \cup {o},
             carried' = [carried EXCEPT ![o] = signup[t].code],
             signup' = [signup EXCEPT ![t].org = o, ![t].pc = AfterCreate(t)]
      PROVE  CodesInv'
  <2> DEFINE s == [signup[t] EXCEPT !.org = o, !.pc = AfterCreate(t)]
             k == signup[t].code
  <2>1. /\ o \in Newcomers /\ o \in Orgs /\ o # NoOrg /\ o \notin signedUp /\ carried[o] = NoCode
        /\ referredBy[o] = NoOrg
    BY <1>5, CodesAssumption DEF Orgs, CodesInv, CarriedOK
  <2>2. AfterCreate(t) \in {"resolve", "answer"} /\ (AfterCreate(t) = "resolve" <=> k # NoCode)
    BY DEF AfterCreate
  <2>3. signup' = [signup EXCEPT ![t] = s] /\ s \in Signup /\ s.pc = AfterCreate(t) /\ s.org = o /\ s.code = k
    BY <1>2, <1>5, <2>1, <2>2 DEF Signup
  <2>4. k \in Link /\ carried' \in [Newcomers -> Link] /\ carried'[o] = k
    BY <1>2, <1>5 DEF Signup
  <2> HIDE DEF s, k
  <2>5. \A p \in Newcomers : p # o => carried'[p] = carried[p]
    BY <1>2, <1>5
  <2>6. TypeOK'
    BY ZenonT(40), <1>1, <1>2, <1>5, <2>1, <2>3, <2>4 DEF CodesInv, TypeOK
  <2>7. ASSUME NEW u \in Tabs, u # t PROVE SignupOK(u)' /\ signup'[u] = signup[u] /\ signup[u].org # o
    <3>1. signup'[u] = signup[u] /\ SignupOK(u) /\ signup[u].org # o
      BY <1>2, <2>1, <2>3, <2>7 DEF CodesInv, SignupOK
    <3>2. signup[u].org # NoOrg => carried'[signup[u].org] = carried[signup[u].org]
      BY <2>5, <3>1 DEF SignupOK
    <3>3. signup[u].pc = "create" => Brought(signup[u].code)'
      BY <1>1, <3>1 DEF SignupOK, Brought
    <3>4. SignupOK(u)'
      <4>1. signedUp \subseteq signedUp' /\ referredBy' = referredBy /\ shown' = shown
        BY <1>1, <1>5
      <4> QED
        BY <3>1, <3>2, <3>3, <4>1 DEF SignupOK
    <3> QED
      BY <3>1, <3>4
  <2>8. SignupOK(t)'
    <3>1. signup'[t] = s
      BY <1>2, <2>3
    <3> QED
      BY <1>1, <1>5, <2>1, <2>2, <2>3, <2>4, <3>1 DEF SignupOK
  <2>9. SignupsApart'
    BY <1>2, <2>3, <2>7 DEF CodesInv, SignupsApart
  <2>10. CarriedOK(o)'
    <3>1. ASSUME k \in Codes PROVE \E p \in Orgs \ {o} : <<p, k>> \in shown
      <4>1. PICK p \in Orgs : <<p, k>> \in shown
        BY <1>3, <3>1 DEF Brought, k
      <4>2. p \in signedUp
        BY <4>1 DEF CodesInv, ShownOK
      <4> QED
        BY <2>1, <4>1, <4>2
    <3>2. k \in Codes => signup'[t].org = o /\ signup'[t].pc = "resolve"
      BY <1>2, <2>2, <2>3, CodesAssumption
    <3> QED
      BY <1>1, <1>5, <2>1, <2>4, <3>1, <3>2 DEF CarriedOK
  <2>11. ASSUME NEW p \in Newcomers, p # o PROVE CarriedOK(p)'
    <3>1. CarriedOK(p) /\ carried'[p] = carried[p] /\ (p \in signedUp' <=> p \in signedUp)
      BY <1>5, <2>5, <2>11 DEF CodesInv
    <3>2. ASSUME NEW u \in Tabs, signup[u].org = p PROVE signup'[u] = signup[u]
      BY <1>2, <1>3, <2>3, <3>2, CodesAssumption DEF Orgs
    <3> QED
      BY <1>1, <3>1, <3>2 DEF CarriedOK
  <2>12. Brought(remembered)' /\ signedUp \subseteq signedUp' /\ \A p \in Members : referredBy'[p] = NoOrg
    BY <1>1, <1>5 DEF CodesInv, Brought
  <2> QED
    BY <1>1, <2>6, <2>7, <2>8, <2>9, <2>10, <2>11, <2>12, SignupStep
<1> QED
  BY <1>4, <1>5 DEF CreateAccount

(* A code that is resolved leads to the one who showed it; one that nobody  *)
(* has was none.                                                            *)
LEMMA ResolveCodeInv == ASSUME CodesInv, NEW t \in Tabs, ResolveCode(t) PROVE CodesInv'
<1> DEFINE k == signup[t].code
           org == signup[t].org
<1>1. signup[t].pc = "resolve" /\ UNCHANGED <<orgs, view, shown, remembered, carried, faults>>
  BY DEF ResolveCode, SigningUp
<1>2. signup \in [Tabs -> Signup] /\ signup[t] \in Signup /\ SignupOK(t) /\ code \in [Orgs -> Code]
  BY DEF CodesInv, TypeOK
<1>3. org \in Newcomers /\ k = carried[org] /\ k # NoCode /\ k \in Link /\ CarriedOK(org)
  BY <1>1, <1>2 DEF SignupOK, CodesInv, Signup
<1>4. ASSUME k \in Codes PROVE \E p \in Orgs : <<p, k>> \in shown /\ Owners(k) = {p}
  <2>1. PICK p \in Orgs : <<p, k>> \in shown
    BY <1>3, <1>4 DEF CarriedOK
  <2> QED
    BY <1>4, <2>1, OneOwner
<1>5. CASE Owners(k) = {} /\ GoOn(t, "answer")
  <2>1. carried[org] \notin Codes
    BY <1>3, <1>4, <1>5
  <2> QED
    BY <1>1, <1>5, <2>1, TabAnswered, FaultsStay DEF GoOn
<1>6. ASSUME NEW o \in Owners(k), signup' = [signup EXCEPT ![t].referrer = o, ![t].pc = "attribute"]
      PROVE  CodesInv'
  <2> DEFINE s == [signup[t] EXCEPT !.referrer = o, !.pc = "attribute"]
  <2>1. o \in Orgs /\ code[o] = k /\ k \in Code
    BY <1>2, <1>6 DEF Owners
  <2>2. k \in Codes /\ <<o, k>> \in shown
    BY <1>3, <1>4, <1>6, <2>1 DEF Code
  <2>3. /\ signup' = [signup EXCEPT ![t] = s] /\ s \in Signup /\ s.pc = "attribute" /\ s.org = org
        /\ s.code = k /\ s.referrer = o
    BY <1>2, <1>6, <2>1 DEF Signup
  <2> HIDE DEF s
  <2>4. signup'[t] = s
    BY <1>2, <2>3
  <2>5. SignupOK(t)'
    BY <1>1, <1>2, <2>2, <2>3, <2>4 DEF SignupOK, orgs
  <2>6. Brought(remembered)' /\ remembered' \in Link
    BY <1>1 DEF CodesInv, TypeOK, Brought
  <2> QED
    BY <1>1, <2>3, <2>5, <2>6, TabMoves, FaultsStay
<1> QED
  BY <1>5, <1>6 DEF ResolveCode

(* A newcomer is attributed to the one whose link it came by, which is      *)
(* another organization.                                                    *)
LEMMA AttributeInv == ASSUME CodesInv, NEW t \in Tabs, Attribute(t) PROVE CodesInv'
<1> DEFINE s == signup[t]
           x == [s EXCEPT !.pc = "answer"]
<1>1. s.pc = "attribute" /\ UNCHANGED <<code, signedUp, view, shown, remembered, carried, faults>>
  BY DEF Attribute, SigningUp
<1>2. /\ signup \in [Tabs -> Signup] /\ s \in Signup /\ SignupOK(t) /\ code \in [Orgs -> Code]
      /\ referredBy \in [Orgs -> Orgs \cup {NoOrg}] /\ shown \subseteq Orgs \X Codes
  BY DEF CodesInv, TypeOK
<1>3. /\ s.org \in Newcomers /\ s.org \in Orgs /\ s.org \in signedUp /\ s.org # NoOrg
      /\ s.code = carried[s.org]
      /\ referredBy[s.org] = NoOrg /\ <<s.referrer, s.code>> \in shown /\ CarriedOK(s.org)
  BY <1>1, <1>2 DEF SignupOK, CodesInv, Orgs
<1>4. s.referrer \in Orgs /\ s.code \in Codes /\ s.referrer # NoOrg
  BY <1>2, <1>3, CodesAssumption DEF Orgs
<1>5. s.referrer # s.org
  <2>1. PICK p \in Orgs \ {s.org} : <<p, s.code>> \in shown
    BY <1>3, <1>4 DEF CarriedOK
  <2>2. Owners(s.code) = {p} /\ Owners(s.code) = {s.referrer}
    BY <1>3, <1>4, <2>1, OneOwner
  <2> QED
    BY <2>1, <2>2
<1>6. referredBy' = [referredBy EXCEPT ![s.org] = s.referrer]
  BY <1>3, <1>5 DEF Attribute
<1>7. /\ signup' = [signup EXCEPT ![t] = x] /\ x \in Signup /\ x.pc = "answer" /\ x.org = s.org
      /\ x.code = s.code
  BY <1>2 DEF Attribute, GoOn, Signup
<1> HIDE DEF s, x
<1>8. TypeOK'
  BY <1>1, <1>2, <1>4, <1>6, <1>7 DEF CodesInv, TypeOK
<1>9. SignupsApart'
  BY <1>2, <1>7 DEF CodesInv, SignupsApart, s
<1>10. signup'[t] = x /\ signup[t] = s
  BY <1>2, <1>7 DEF s
<1>11. SignupOK(t)'
  BY <1>1, <1>3, <1>7, <1>10 DEF SignupOK
<1>12. ASSUME NEW u \in Tabs, u # t PROVE SignupOK(u)'
  <2>1. signup'[u] = signup[u] /\ SignupOK(u)
    BY <1>2, <1>7, <1>12 DEF CodesInv
  <2>2. signup[u].org # s.org
    BY <1>3, <1>10, <1>12 DEF CodesInv, SignupsApart
  <2>3. signup[u].org \in Newcomers => referredBy'[signup[u].org] = referredBy[signup[u].org]
    BY <1>2, <1>6, <2>2 DEF Orgs
  <2>4. signup[u].pc = "create" => Brought(signup[u].code)'
    BY <1>1, <2>1 DEF SignupOK, Brought
  <2> QED
    BY <1>1, <2>1, <2>3, <2>4 DEF SignupOK
<1>13. ASSUME NEW o \in Newcomers PROVE CarriedOK(o)'
  <2>1. CASE o = s.org
    <3>1. referredBy'[o] = s.referrer
      BY <1>2, <1>3, <1>6, <2>1
    <3> QED
      BY <1>1, <1>3, <1>4, <2>1, <3>1 DEF CarriedOK
  <2>2. CASE o # s.org
    <3>1. referredBy'[o] = referredBy[o] /\ CarriedOK(o)
      BY <1>2, <1>6, <2>2 DEF Orgs, CodesInv
    <3>2. \A u \in Tabs : signup[u].org = o => signup'[u] = signup[u]
      BY <1>2, <1>7, <1>10, <2>2
    <3> QED
      BY <1>1, <3>1, <3>2 DEF CarriedOK
  <2> QED
    BY <2>1, <2>2
<1>14. Brought(remembered)'
  BY <1>1 DEF CodesInv, Brought
<1>15. \A o \in Members : referredBy'[o] = NoOrg
  BY <1>2, <1>3, <1>6, CodesAssumption DEF CodesInv, Orgs
<1> QED
  BY <1>1, <1>8, <1>9, <1>10, <1>11, <1>12, <1>13, <1>14, <1>15, SignupStep

(* A crash ends every page and every sign-up; what is stored stays. *)
LEMMA CrashInv == ASSUME CodesInv, Crash PROVE CodesInv'
<1>1. /\ view' = [v \in Views |-> Closed] /\ signup' = [t \in Tabs |-> NoSignup]
      /\ UNCHANGED <<orgs, shown, remembered, carried>>
      /\ faults' \in 0..MaxFaults /\ faults' > 0
  BY FaultsGrow DEF Crash
<1>2. TypeOK'
  BY <1>1, ClosedTyped, NoSignupTyped DEF CodesInv, TypeOK, orgs
<1>3. (\A v \in Views : ViewOK(v)') /\ (\A t \in Tabs : SignupOK(t)') /\ SignupsApart'
  BY <1>1, ClosedTyped, NoSignupTyped DEF ViewOK, SignupOK, SignupsApart
<1>4. \A o \in Newcomers : CarriedOK(o)'
  BY <1>1 DEF CodesInv, CarriedOK, orgs
<1>5. CodesApart' /\ ShownOK' /\ Brought(remembered)' /\ \A o \in Members : referredBy'[o] = NoOrg
  BY <1>1 DEF CodesInv, CodesApart, ShownOK, Brought, orgs
<1> QED
  BY <1>2, <1>3, <1>4, <1>5 DEF CodesInv
-----------------------------------------------------------------------------
LEMMA NextInv == CodesInv /\ [Next]_vars => CodesInv'
<1> SUFFICES ASSUME CodesInv, [Next]_vars PROVE CodesInv'
  OBVIOUS
<1>1. CASE \E v \in Views : \E o \in Orgs : OpenPage(v, o)
  BY <1>1, OpenPageInv
<1>2. CASE \E v \in Views : \E k \in Codes : MintCode(v, k)
  BY <1>2, MintCodeInv
<1>3. CASE \E v \in Views : FindCode(v) \/ Settle(v) \/ ViewRejects(v)
  BY <1>3, FindCodeInv, SettleInv, ViewRejectsInv
<1>4. CASE \E k \in Codes \cup {Mistyped} : FollowLink(k)
  BY <1>4, FollowLinkInv
<1>5. CASE \E t \in Tabs : SubmitSignup(t) \/ CreateAccount(t) \/ ResolveCode(t)
  BY <1>5, SubmitSignupInv, CreateAccountInv, ResolveCodeInv
<1>6. CASE \E t \in Tabs : Attribute(t) \/ SignupAnswered(t) \/ SignupRejects(t)
  BY <1>6, AttributeInv, SignupAnsweredInv, SignupRejectsInv
<1>7. CASE Crash
  BY <1>7, CrashInv
<1>8. CASE UNCHANGED vars
  <2>1. \A v \in Views : ViewOK(v)'
    BY <1>8 DEF CodesInv, ViewOK, vars, orgs
  <2> QED
    BY <1>8, <2>1, FaultsStay, ViewStep
       DEF vars, orgs, CodesInv, TypeOK, CodesApart, ShownOK
<1> QED
  BY <1>1, <1>2, <1>3, <1>4, <1>5, <1>6, <1>7, <1>8 DEF Next

(* Pages, links and sign-ups stay coherent: the inductive invariant that    *)
(* the other theorems of this module rest on (commissions.ts:25-52,         *)
(* auth/routes.ts:188-198).                                                 *)
THEOREM CodesAreSound == Spec => []CodesInv
BY InitInv, NextInv, PTL DEF Spec

(* Every variable keeps its type. *)
THEOREM CodesTyped == Spec => []TypeOK
<1>1. CodesInv => TypeOK
  BY DEF CodesInv
<1> QED
  BY <1>1, CodesAreSound, PTL

(* Whatever pages are opened at once, the link an organization was shown    *)
(* leads to it for good, and a page is left without a code only after Tries *)
(* collisions (ensureReferralCode, commissions.ts:25-52).                   *)
THEOREM LinksStay == Spec => []MintingIsSound
<1>1. CodesInv => MintingIsSound
  <2> SUFFICES ASSUME CodesInv PROVE MintingIsSound
    OBVIOUS
  <2>1. LinkLeadsToOwner
    <3> SUFFICES ASSUME NEW link \in shown PROVE Owners(link[2]) = {link[1]}
      BY DEF LinkLeadsToOwner
    <3>1. link[1] \in Orgs /\ link[2] \in Codes /\ <<link[1], link[2]>> \in shown
      BY DEF CodesInv, TypeOK
    <3> QED
      BY <3>1, OneOwner
  <2>2. MintFailsOnlyByCollisions
    BY DEF CodesInv, ViewOK, MintFailsOnlyByCollisions, Viewing
  <2> QED
    BY <2>1, <2>2 DEF MintingIsSound
<1> QED
  BY <1>1, CodesAreSound, PTL

(* However sign-ups, crashes and new links interleave, an organization is   *)
(* attributed to whoever shared the link it came by and to nobody else, and *)
(* is left without a referrer only if a call failed (referrerForCode and    *)
(* attributeSignup, auth/routes.ts:188-198 and 295-302).                    *)
THEOREM AttributionIsTrue == Spec => []AttributedToLink
<1>1. CodesInv => AttributedToLink
  <2> SUFFICES ASSUME CodesInv, NEW o \in Orgs
               PROVE  /\ referredBy[o] # NoOrg => o \in Newcomers /\ <<referredBy[o], carried[o]>> \in shown
                      /\ o \in Newcomers /\ carried[o] \in Codes /\ (\A t \in Tabs : signup[t].org # o)
                         => referredBy[o] # NoOrg \/ faults > 0
    BY DEF AttributedToLink
  <2>1. referredBy[o] # NoOrg => o \in Newcomers
    BY DEF CodesInv, Orgs
  <2>2. faults \in Nat
    BY CodesAssumption DEF CodesInv, TypeOK
  <2>3. o \in Newcomers => CarriedOK(o)
    BY DEF CodesInv
  <2> QED
    BY <2>1, <2>2, <2>3 DEF CarriedOK
<1> QED
  BY <1>1, CodesAreSound, PTL
=============================================================================
