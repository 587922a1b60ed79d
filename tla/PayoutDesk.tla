------------------------------ MODULE PayoutDesk ------------------------------
(***************************************************************************)
(* The bank account that payouts go to, and the page on which a customer   *)
(* saves it and asks for payouts (referrals/routes.ts, the account's part  *)
(* in referrals/payouts.ts, the dashboard's pages/Referrals.tsx and its    *)
(* hooks), over the payouts of ReferralPayouts.                            *)
(*                                                                         *)
(* One window is open; a payout is asked for there.  Of what it shows, the *)
(* model keeps what the customer's own calls change and the buttons need.  *)
(***************************************************************************)
EXTENDS ReferralPayouts

CONSTANTS
    Details,     \* bank details, each with its PAN
    NoDetails,
    Unread,      \* an account a call has not loaded yet
    Loading      \* the summary before it has been answered

ASSUME DeskAssumption ==
    /\ NoDetails \notin Details
    /\ Unread \notin Details \cup {NoDetails}

VARIABLES
    account,      \* the PayoutAccount document
    asked,        \* the account each requestPayout has loaded
    loaded,       \* the account each sendPayout has loaded
    confirming,   \* operator calls with the update of confirmedAt before them
    destination,  \* of each payout
    sentTo,       \* where RazorpayX was told to send each payout
    page,
    moved,        \* history: the details changed while a payout was under way
    missed        \* an answer the page has not got

deskVars == <<account, asked, loaded, confirming, destination, sentTo, page, moved, missed>>
allVars == <<vars, deskVars>>

Account == Details \cup {NoDetails}
Summary == [account: Account, ready: BOOLEAN, payouts: SUBSET Payouts]

(* `got` is what GET /referrals has answered; `entered` the form that is    *)
(* being saved.  A mutation is pending until its refetch has ended.         *)
Page == [summary: Summary \cup {Loading}, fetch: {"none", "sent", "read"}, got: Summary,
         form: {"open", "closed"}, entered: Account,
         save: {"no", "sent", "stored", "refetch"},
         ask: {"no", "sent", "created", "refetch"}]

DeskTypeOK ==
    /\ TypeOK
    /\ account \in [details: Account, confirmed: BOOLEAN]
    /\ asked \in [Requests -> Account \cup {Unread}]
    /\ loaded \in [Operators -> Account \cup {Unread}]
    /\ confirming \subseteq Operators
    /\ destination \in [Payouts -> Account] /\ sentTo \in [Payouts -> Account]
    /\ page \in Page
    /\ moved \in BOOLEAN /\ missed \in BOOLEAN

Nothing == [account |-> NoDetails, ready |-> FALSE, payouts |-> {}]

DeskInit ==
    /\ Init
    /\ account = [details |-> NoDetails, confirmed |-> FALSE]
    /\ asked = [r \in Requests |-> Unread] /\ loaded = [o \in Operators |-> Unread]
    /\ confirming = {}
    /\ destination = [p \in Payouts |-> NoDetails] /\ sentTo = [p \in Payouts |-> NoDetails]
    /\ page = [summary |-> Loading, fetch |-> "sent", got |-> Nothing,
               form |-> "closed", entered |-> NoDetails, save |-> "no", ask |-> "no"]
    /\ moved = FALSE /\ missed = FALSE

SetPage(q) == page' = q /\ UNCHANGED <<account, asked, loaded, confirming, destination, sentTo, moved>>
-----------------------------------------------------------------------------
(* useReferrals *)
Refetched(q) == [q EXCEPT !.fetch = "sent", !.got = Nothing]

(* The connection is back, and the query is asked again. *)
Refetch ==
    /\ page.fetch = "none"
    /\ SetPage(Refetched(page)) /\ missed' = FALSE
    /\ UNCHANGED vars

(* GET /referrals; its queries run side by side, and count as one. *)
AnswerSummary ==
    /\ page.fetch = "sent"
    /\ SetPage([page EXCEPT
          !.fetch = "read",
          !.got = [account |-> account.details,
                   ready |-> Cardinality(Available) >= Minimum,
                   payouts |-> {p \in Payouts : payout[p].status # "none"}]])
    /\ UNCHANGED <<vars, missed>>

(* The refetch that a mutation waited for is over: the form that was saved closes. *)
Resolved(q) == [q EXCEPT !.form = IF q.save = "refetch" THEN "closed" ELSE @,
                         !.save = IF @ = "refetch" THEN "no" ELSE @,
                         !.ask = IF @ = "refetch" THEN "no" ELSE @]

(* The form is there from the start if no account is on file. *)
ShowSummary ==
    /\ page.fetch = "read"
    /\ SetPage([Resolved(page) EXCEPT
          !.fetch = "none", !.summary = page.got, !.got = Nothing,
          !.form = IF page.summary = Loading /\ page.got.account = NoDetails THEN "open" ELSE @])
    /\ UNCHANGED <<vars, missed>>

(* The query and its one retry fail; what was shown stays. *)
LoseSummary ==
    /\ page.fetch # "none"
    /\ SetPage([Resolved(page) EXCEPT !.fetch = "none", !.got = Nothing])
    /\ missed' = TRUE
    /\ UNCHANGED vars

Shown == page.summary # Loading

(* PayoutAccountForm: its Change and Cancel buttons *)
ToggleForm ==
    /\ Shown /\ page.summary.account # NoDetails
    /\ SetPage([page EXCEPT !.form = IF @ = "open" THEN "closed" ELSE "open"])
    /\ UNCHANGED <<vars, missed>>

SaveDetails(d) ==
    /\ Shown /\ page.form = "open" /\ page.save = "no"
    /\ SetPage([page EXCEPT !.save = "sent", !.entered = d])
    /\ UNCHANGED <<vars, missed>>

UnderWay ==
    \/ Open # {} \/ confirming # {} \/ \E p \in Payouts : bank[p] = "queued"
    \/ \E r \in Requests : ~AtRequest(r, "idle")
    \/ \E o \in Operators : ~AtOperator(o, "idle")

(* Mutant: the new details keep the evidence of the old ones. *)
Replaced_Confirmed(d) == [account EXCEPT !.details = d]

Replaced(d) == [details |-> d, confirmed |-> FALSE]

(* PUT /referrals/payout-account *)
StoreDetails ==
    /\ page.save = "sent"
    /\ account' = Replaced(page.entered)
    /\ moved' = (moved \/ (UnderWay /\ page.entered # account.details))
    /\ page' = [page EXCEPT !.save = "stored", !.entered = NoDetails]
    /\ UNCHANGED <<vars, asked, loaded, confirming, destination, sentTo, missed>>

(* Mutant: the mutation has no onSuccess. *)
AfterChange_Kept(q) == Resolved(q)

(* onSuccess: the running request is given up for a new one, and whoever    *)
(* waited for it does not wait for the other.                               *)
AfterChange(q) == Refetched(q)

SaveAnswered ==
    /\ page.save = "stored"
    /\ SetPage(AfterChange([Resolved(page) EXCEPT !.save = "refetch"]))
    /\ missed' = FALSE
    /\ UNCHANGED vars

AskAnswered ==
    /\ page.ask = "created"
    /\ SetPage(AfterChange([Resolved(page) EXCEPT !.ask = "refetch"]))
    /\ missed' = FALSE
    /\ UNCHANGED vars

(* An answer gets lost: an error for the page, whatever the server did. *)
LoseAnswer ==
    /\ \/ page.save \in {"sent", "stored"} /\ SetPage([page EXCEPT !.save = "no", !.entered = NoDetails])
       \/ page.ask = "created" /\ SetPage([page EXCEPT !.ask = "no"])
    /\ missed' = TRUE
    /\ UNCHANGED vars
-----------------------------------------------------------------------------
(* PayoutHistory's button, and POST /referrals/payouts up to its queries *)
AskPayout(r) ==
    /\ Shown /\ page.summary.ready /\ page.ask = "no"
    /\ StartRequest(r)
    /\ SetPage([page EXCEPT !.ask = "sent"])
    /\ UNCHANGED missed

(* requestPayout's query for the account *)
ReadAccount(r) ==
    /\ AtRequest(r, "read") /\ asked[r] = Unread
    /\ asked' = [asked EXCEPT ![r] = account.details]
    /\ UNCHANGED <<vars, account, loaded, confirming, destination, sentTo, page, moved, missed>>

(* The request ends: the page has to learn of a payout that was created. *)
Answered(r) ==
    /\ asked' = [asked EXCEPT ![r] = IF request'[r] = NoRequest THEN Unread ELSE @]
    /\ page' = IF request'[r] = NoRequest
               THEN [page EXCEPT !.ask = IF payout' # payout THEN "created" ELSE "no"] ELSE page
    /\ UNCHANGED <<account, loaded, confirming, sentTo, moved, missed>>

(* checkPayoutEligible, the account *)
RefuseWithoutAccount(r) ==
    /\ AtRequest(r, "read") /\ request[r].unread = {} /\ asked[r] = NoDetails
    /\ SetRequest(r, NoRequest)
    /\ UNCHANGED <<commission, matured, reversing, payout, operator, bank, byHand, faults, destination>>
    /\ Answered(r)

Proceed(r) ==
    /\ \/ \E what \in {"balance", "open"} : ReadForRequest(r, what)
       \/ asked[r] \in Details /\ CheckRequest(r)
       \/ \E c \in Commissions : ClaimOne(r, c)
       \/ ClaimDone(r) \/ SumClaim(r) \/ CreatePayout(r) \/ ReleaseRequest(r)
    /\ Answered(r)
    /\ destination' = IF payout' # payout
                      THEN [destination EXCEPT ![request[r].payout] = asked[r]] ELSE destination
-----------------------------------------------------------------------------
(* sendPayout's query for the account *)
LoadAccount(o) ==
    /\ AtOperator(o, "process") /\ loaded[o] = Unread
    /\ loaded' = [loaded EXCEPT ![o] = account.details]
    /\ UNCHANGED <<vars, account, asked, confirming, destination, sentTo, page, moved, missed>>

(* The transfer goes to the account sendPayout has loaded, and              *)
(* markCommissionsPaid has one update left; its failure is in WriteFails.   *)
Operate(o) ==
    /\ o \notin confirming
    /\ AtOperator(o, "process") => loaded[o] # Unread
    /\ OperatorStep(o)
    /\ loaded' = [loaded EXCEPT ![o] = IF operator'[o] = NoOperator THEN Unread ELSE @]
    /\ sentTo' = IF bank' # bank THEN [sentTo EXCEPT ![operator[o].payout] = loaded[o]] ELSE sentTo
    /\ confirming' = IF MarkCommissionsPaid(o) THEN confirming \cup {o} ELSE confirming
    /\ UNCHANGED <<account, asked, destination, page, moved, missed>>

(* markCommissionsPaid, confirmedAt *)
Confirm(o) ==
    /\ o \in confirming
    /\ confirming' = confirming \ {o}
    /\ account' = [account EXCEPT !.confirmed = TRUE]
    /\ UNCHANGED <<vars, asked, loaded, destination, sentTo, page, moved, missed>>

PageStep ==
    \/ Refetch \/ AnswerSummary \/ ShowSummary \/ LoseSummary
    \/ ToggleForm \/ StoreDetails \/ SaveAnswered \/ AskAnswered \/ LoseAnswer
    \/ \E d \in Details : SaveDetails(d)

DeskNext ==
    \/ PageStep
    \/ \E r \in Requests : AskPayout(r) \/ ReadAccount(r) \/ RefuseWithoutAccount(r) \/ Proceed(r)
    \/ \E o \in Operators : LoadAccount(o) \/ Operate(o) \/ Confirm(o)
    \/ (\E c \in Commissions : Award(c) \/ Mature(c)) /\ UNCHANGED deskVars
    \/ (\E p \in Payouts : BankDecides(p)) /\ UNCHANGED deskVars

DeskSpec == DeskInit /\ [][DeskNext]_allVars
-----------------------------------------------------------------------------
(* Where the money of p has arrived *)
ArrivedAt(p) ==
    (IF bank[p] = "processed" THEN {sentTo[p]} ELSE {}) \cup (IF p \in byHand THEN {destination[p]} ELSE {})

(* A payout arrives where its record says, and details marked as confirmed  *)
(* have been paid to (payoutAccount.ts:31-34, payout.ts:29), unless they    *)
(* were replaced while a payout was under way: sendPayout loads them again, *)
(* and markCommissionsPaid confirms whatever is on file then.               *)
RecordsAreTrue ==
    ~moved =>
        /\ \A p \in Payouts : ArrivedAt(p) \subseteq {destination[p]}
        /\ account.confirmed => \E p \in Payouts : account.details \in ArrivedAt(p)

(* When nothing is pending the page shows the account on file and every     *)
(* payout it asked for, in whatever order its calls and refetches end, and  *)
(* offers the form or the button that opens it, unless an answer was lost   *)
(* (hooks.ts:315-329, Referrals.tsx:91-129).                                *)
PageCatchesUp ==
    /\ Shown /\ page.fetch = "none" /\ page.save = "no" /\ page.ask = "no" /\ ~missed
    => /\ page.summary.account = account.details
       /\ {p \in Payouts : payout[p].status # "none"} \subseteq page.summary.payouts
       /\ page.form = "open" \/ page.summary.account # NoDetails
=============================================================================
