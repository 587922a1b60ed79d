# Formal models of the SMTP provider

TLA+ models of the parts of this service where concurrency, crashes and retries
decide whether mail is delivered, reported and paid for correctly. TLC checks
them on small instances; TLAPS proves the safety properties of every component and
the three refinements for every value of the constants. `PROJECT.json` lists the
runs, the source lines behind every definition, the hazards and the theorems.

    tlc -workers 2 -config Delivery.cfg MCDelivery     # model-check one run
    tlapm DeliveryProofs.tla                           # check one proof module

## The system

| component | state it keeps | hard behaviour | what makes it correct |
|---|---|---|---|
| SMTP ingress (`apps/smtp-ingress`) | quota counter, GridFS file, `Message`, event, BullMQ job | four stores written one after the other, any of which may fail; racing quota upserts | what got 250 is stored whole; the quota is exact |
| authentication guard (`authGuard.ts`) | running checks, queue of waiters, failure counters | hand-over of a slot; counters read before and written after a slow check | bounded concurrency, bounded failures, everybody answered |
| delivery worker (`processor.ts`, `delivery.ts`, `bounce.ts`) | `Message` in memory and in Mongo, events, usage, suppressions, job | dies or loses its lock at any await; one save per run; partial SMTP answers | outcomes true, recorded once and for good; no mail to suppressed addresses |
| retention (`retention.ts`) | the same store | works with statuses it read earlier, beside the workers | content gone before the record says so; unfinished mail closed |
| billing (`billing/*.ts`, the dashboard's `Billing.tsx`) | payments, subscription, the organization's plan, the page | verify call and repeated webhooks race; a crash after the claim; refunds | each payment is credited once, in full, for the time it bought; the page tells the truth |
| referral commissions and codes (`referrals/commissions.ts`, `referral.ts`) | codes, attributions, commissions | two pages mint at once, codes collide, a sign-up is attributed in two steps | a code is unique and permanent; a sign-up belongs to its link |
| referral payouts (`referrals/payouts.ts`, `admin/routes.ts`, `razorpayx.ts`, `Referrals.tsx`) | payouts, payout account, transfers at the bank | claims, saves and transfers interleave; lost answers; details changed on the way | no earning paid twice or stranded; money arrives where the payout says |
| accounts (`auth/*`) | users, organizations, link tokens, refresh cookies | two requests for one address; a reset during a login | whole accounts; links work once; sessions follow the password |
| domains and credentials (`domains/*`, `credentials/*`) and their pages | documents, the list each page shows | count-then-create, slow DNS lookups, lists answered out of order | plan limits, verified status, the page shows what is stored |
| dashboard session (`api/client.ts`, `AuthContext.tsx`) | access token per tab and in localStorage, refresh cookie | requests share one refresh; tabs do not know of each other | nothing done twice; sign-out and reset reach every tab |

They interact through the Mongo collections and the BullMQ queue: the ingress
creates a message and its job, a worker slot takes the job, reads the domain the
API owns and writes the outcomes the API shows; the retention job runs inside
the worker process; the billing webhooks create and reverse the commissions that
payouts claim; the dashboard works on all of it through the API.

## Modules

| module | models |
|---|---|
| `MailStore` | the shared collections, the raw MIME bucket, the queue, as `acceptMessage` leaves them |
| `Processor` | `processDelivery` and everything it calls, the answers an MX may give, the faults |
| `Retention` | `runRetention`, one action per query, and the passing of time |
| `Delivery` | `Processor` and `Retention` together, with domains changing under them: specification, fairness, properties, refinement |
| `MessageLifecycle` | abstract: what a customer is promised about a message |
| `DeliveryProofs` | theorems about `Delivery`; it implements `MessageLifecycle` |
| `AuthGuard` | a login: slots, queue, failure counter, lockout |
| `Acceptance` | `acceptMessage` with `reserveQuota`, `allowRate` and `senderIdentity` |
| `SmtpIngress` | `AuthGuard` and `Acceptance` in one process that may die |
| `MessagePromise` | abstract: one answer per submission, charged at most once, within a plan's quota |
| `SmtpIngressProofs` | theorems about the guard and the ingress; it implements `MessagePromise` |
| `BillingPeriod` | the date arithmetic and which plan is in force |
| `Billing` | the billing page, checkout, `/verify`, webhooks, `fulfillOrder`, refunds |
| `Prepaid` | abstract: each payment buys one month, once |
| `BillingProofs` | theorems about `Billing`; it implements `Prepaid` |
| `ReferralCodes` | minting, the remembered code, attribution of sign-ups |
| `ReferralCodesProofs` | theorems about it |
| `ReferralPayouts` | commissions, payout requests, operators and RazorpayX |
| `PayoutDesk` | extends `ReferralPayouts` by the payout account and the referrals page |
| `PayoutProofs` | theorems about both |
| `Accounts` | every route of `/auth` about one address, and the start of the API |
| `AccountsProofs` | theorems about it |
| `Provisioning` | adding, verifying and removing domains and credentials |
| `Workspace` | `Provisioning` under the dashboard's pages and query cache |
| `WorkspaceProofs` | theorems about it |
| `Session` | the session of one browser with several tabs |
| `SessionProofs` | theorems about it |
| `MC*` | the small instances |

An action is the code between two awaits, so that whatever runs concurrently
may come between. Definitions keep the names of the source where they can. An
operator commented "Mutant" is a plausible bug, which no specification uses.

### How the delivery state corresponds to the code

`message[m]` is the stored document, `run[w]` the local state of a job slot: its
program counter `pc`, the document in memory (`status`, `to`), the paths
mongoose will send (`touched`, `dirty`), the results still to apply
(`results`), the recipients not tried yet (`todo`), those of the domain being
tried (`group`) and the MX targets left. `save()` is `SaveThen`: it writes the
changed paths only, which is why a slot with an old document overwrites some
fields of another slot's work and not others, and it throws when the record is
gone. `applyResult` is cut at its awaits: counter (`ApplyResult`), suppression
(`Suppress`), notice (`NotifySender`), event (`RecordEvent`). BullMQ is external
and modelled from its use: attempts, the lock token (`owner`), stalled jobs
given back `MaxStalled` times, results of a slot without the lock dropped. An MX
is external too: it takes some recipients and refuses the others for now or for
good, refuses all, defers, or takes the mail while its reply is lost.
`inbox`, `refused` and `dsn` record what really happened outside; the code
cannot read them. `run[w].knew` is a history variable: the suppression list when
the run began.

### The ingress

`login`, `running` and `waiting` are the guard's memory, `failures` the Redis
counter of the window. A finished check hands its slot to the longest waiter in
the same step, since the waiter's continuation runs before the event loop takes
anything else. `work[s]` is one `acceptMessage`; `counter` is the usage row,
which may not exist yet: `ReserveQuota` is the upsert whose filter may match or
insert, `InsertCounter` the insert that may find the row there already,
`UpdateCounter` the second try. After the document, event and jobs are written
in any order (`Promise.all`). The delivery worker counts in the same row
(`WorkerCounts`). What is left behind is where `MailStore.StoreInit` starts.

### Billing

`payment`, `sub`, `orgPlan` and `commission` are documents; `call[c]` is a
request to the API: the browser's `/verify`, a webhook, or a refund. `page` is
the billing page: the order being bought, whether it says "Payment received",
what its queries last answered. Razorpay repeats a webhook until it gets 200
(`paidHook`, `refundHook`). Dates are days in a calendar of short months, so
that `AddOneMonth` must clamp.

### Payouts

`commission` and `payout` are the two collections; amounts are the set of
commissions they add up. `request[r]` is one call of `requestPayout`, whose
queries answer in any order, whose `updateMany` claims one document after
another, and which then adds up, creates the payout or releases the claim.
`operator[o]` is one call of `POST /admin/payouts/:id` with the status of the
document it loaded. `bank` and `byHand` are what was really transferred.
Operators look at the bank before they act (`Sensible`): they do not fail what
RazorpayX has taken nor settle it a second time by hand, unless the model's
faults have misled the code on its own. `PayoutDesk` adds `account`, the version
of it each request and each transfer has loaded (`asked`, `loaded`), the update
of `confirmedAt` still to come (`confirming`), and the page with its query, its
form and its two mutations. `destination` is what the payout says, `sentTo`
where RazorpayX was told to pay.

### Accounts, codes, domains, session

- `Accounts`: `user` and `orgs` are documents, written in one transaction on
  sign-up; `link` the tokens, `cookies` every refresh token ever given.
  `call[c].doc` is the document a request has in memory, which is why a request
  may sign in with a password that has been replaced since.
- `ReferralCodes`: `code` and `referredBy` are fields of the organization,
  `view[v]` one opening of the referrals page, `remembered` the browser's
  localStorage. The random code is any of `Codes`, so collisions happen.
- `Provisioning`/`Workspace`: `doc` holds the documents, `call[c]` a request with
  the counts and the status it has read; `shown` is the cached list, `fetch` the
  request for it under way, which a success gives up for a new one.
- `Session`: `tab[t]` has its own copy of the token (a module variable of
  `client.ts`), its `authenticated` state and its one `refreshing` promise;
  `stored` and `cookie` are shared by the tabs. A token carries the time it was
  issued and is valid during that unit of time. Its `version` is a history
  variable that says which session it came from.

## Runs

| run | instance | question |
|---|---|---|
| `delivery` | one message to two domains, one slot, two attempts; one crash, one failing call, one lost reply, one change of the domain | do outcomes, events, counters, suppressions and the job agree, and is `MessageLifecycle` implemented? |
| `delivery_locks` | two messages to one address, two slots, one lost lock | is a suppressed address left alone while two slots work on one job? |
| `delivery_retention` | two recipients of one domain, crash and failing call, one sweep cut short, ages up to 30 days, fair | content, final outcomes, and does every message close? |
| `delivery_partial` | two recipients of one domain, no fault | violated: a 4xx refusal beside an accepted recipient ends on the suppression list |
| `smtp_ingress` | two sessions, two submissions, two plans, one address with one failure allowed, one slot, one crash or rejection, fair | limits of the guard, the quota, what a cut-off submission leaves, what 250 promises, an answer for everybody |
| `billing` | two orders, two plans, two calls at once, one rejected, late or crashed call, fair | is a payment credited once, in full, and shown? |
| `payouts` | two commissions, two payouts, two requests, one operator, one fault of any kind | are claims exclusive, transfers single, and is nothing stranded? |
| `payout_desk` | one commission, one payout, two bank details, one operator | does the money arrive where the payout says, and does the page catch up? |
| `referral_codes` | two organizations, two codes, two pages, two tabs, one newcomer, one fault | are codes unique and permanent, and sign-ups attributed to their link? |
| `accounts` | two requests at once, two passwords, one Google identity, two links, one reset, one fault | are accounts whole, do links work once, do sessions follow the password? |
| `workspace` | two requests at once, one domain name, room for one domain, three documents, the Domains page | by how much is the limit exceeded, does a verified domain stay so, does the page show what is stored? |
| `session` | two tabs, two requests, one expiry of the access token, one reset, one lost answer | is a request done twice, does a tab get stuck, do sign-out and reset reach every tab? |

Deadlock checking is off in all of them: each system stops when its jobs, calls
or bounds are used up.

What the passing runs show:

- *Outcomes.* A recipient is delivered only if an MX took a copy
  (`DeliveredWasAccepted`); a message closed as delivered or bounced has no
  open recipient (`ClosedIsSettled`); closed statuses and final outcomes never
  change, retention included (`OutcomesAreFinal`); every recorded outcome has
  its event and is counted, exactly once without faults (`OutcomesAccounted`).
- *Copies.* Delivery is at least once: `CopiesBounded` says that each extra copy
  costs one fault.
- *Suppression.* No run contacts an address that was on the list when the run
  began (`SuppressedNotContacted`); a bounce is a real refusal and a sender who
  was told of it never sees that recipient delivered (`BouncesAreTrue`).
- *Jobs.* A job ends with its message unless a call failed on the last attempt,
  the slots died more often than BullMQ forgives or a slot went on without its
  lock (`JobEndsWithMessage`); for those, and for a message whose job never
  reached the queue, `EventuallyClosed` says that retention closes it.
- *Content.* No file survives the record that names it (`NoOrphanedContent`),
  and none is deleted under an unfinished message if jobs end by day 7
  (`UnfinishedKeepsContent`).
- *Ingress.* At most `MaxConcurrent` checks run and nobody waits beside a free
  slot, and failures exceed `MaxFailures` only by the attempts in flight
  (`GuardHolds`). Behind a 250 and behind a job the message is whole
  (`NothingHalfStored`). Reservations are exact in every race for the first row
  of the month (`QuotaExact`), `MessagePromise` is implemented (`KeepsPromise`),
  and every login and message is answered (`EveryoneAnswered`).
- *Billing.* The subscription never runs longer than was paid for
  (`TimeWasPaid`) and is exactly what `Prepaid` credits (`CreditsEachOnce`);
  what has been handled is complete, and a refunded payment earns nothing
  (`HandledIsComplete`); the webhook credits what the browser did not, unless a
  call was cut off after the claim (`PaidIsCredited`); "Payment received" is
  true, and beside it stands the new period (`NoticeIsTrue`).
- *Payouts.* Commissions are in one live payout (`EarningsInOnePayout`), are
  recorded as paid only when the money left, and it leaves once while every
  answer arrives and is saved (`PaidIsTransferredOnce`); a payout that cannot be
  written or transferred gives them back (`NoStrandedClaim`). The money arrives
  where the payout says, and `confirmedAt` is evidence, unless the details are
  changed while a payout is under way (`RecordsAreTrue`). Once its calls are
  over, the page shows the account on file and the payouts it asked for
  (`PageCatchesUp`).
- *Codes.* Links lead to their owner for good, and minting fails only after
  `Tries` collisions (`MintingIsSound`); attribution follows the link a visitor
  came by (`AttributedToLink`).
- *Accounts.* No user without organization or organization without user, and
  no address confirmed by anybody else (`AccountWhole`); sessions can be renewed
  only under the current password (`SessionsFollowPassword`); `LinksWorkOnce`.
- *Domains.* The limit is exceeded by fewer documents than there are concurrent
  requests, and a name has one document (`LimitHolds`); a verified domain is
  unverified only by a check that began before it was verified
  (`VerifiedStays`); when nothing is under way the page shows what is stored
  (`ShownIsStored`).
- *Session.* A request that is sent again after a refresh was not served before
  (`DoneAtMostOnce`); no request waits for a refresh that is over, no tab shows
  the dashboard without a token (`NoTabStuck`); after a reset, access ends
  everywhere within the life of an access token (`ResetReachesAll`); after a
  sign-out neither stored token nor cookie is left (`SignedOutStays`).
- *Types.* Every module with variables defines its type invariant. The runs and
  the proofs include `Delivery`'s; the line `INVARIANT TypeOK` (`DeskTypeOK` in
  `PayoutDesk`) adds any other to its configuration.

### Bounds, and why they are enough

*Delivery.* Two recipients show every asymmetry between recipients (one
delivered, the other deferred, refused, suppressed); two domains make the loop
over domains turn, one domain gives partial answers. Two attempts make one a
retry and one the last. Two slots are needed for a lost lock, two messages for
an address suppressed by another message. In `delivery` one fault of each kind
may come, in any order. Two MX targets (5 in the code) let a second one take
what a first, whose reply was lost, has taken already; the proofs hold for any
number. Ages 0, 1 and 2 are "fresh", "past 7 days", "past 30 days", the only
distinctions the code makes.

*Ingress.* Two sessions race for one slot and for the first row of the month.
The free plan has room for two recipients and the other for three, with messages
of one and two: the quota is met, missed by one and exceeded. With one failure
allowed, the second login of an address is locked out.

*Billing.* Two orders, of the same plan or not, and two calls: verify against
webhook, or webhook against webhook. Months of two, one, two, two and two days
and three days of time make periods end, and make them clamp. One fault: a call
that rejects, one that is cut off after the claim (`late`), or a crash.
`Overlap = FALSE`: a second order is paid after the first is credited, since two
credited at once lose an extension (`billing/fulfill.ts:39`); `RefundsLast =
TRUE`: a refund is made after its payment was handled. One window is open, and
order ids are used in a fixed order, as they are alike.

*Payouts.* Two commissions let a claim be split between two requests; two
payouts allow a second one after a failure or beside an open one; one operator
at a time, who leaves failed payouts alone (`RetryFailed = FALSE`), is the
condition under which `EarningsInOnePayout` holds. `PayoutDesk` asks about the
account and the page: one payout, one request and no failing writes suffice,
while the page's own calls may fail at any time.

*Accounts.* Any two requests of any kind overlap; a third and later ones follow
when one has ended. Two links make one older than the other, two passwords the
owner's and another's. *Codes.* Two organizations and two codes collide at once;
two tries make the first a retry and the second the last (5 in the code).
*Workspace.* With room for one domain, two requests are enough to exceed the
limit; three documents allow one to be removed and added again; one name is
enough for the unique index. Requests for credentials run too, with no page of
theirs open. *Session.* Two tabs, two requests sharing a refresh or not, and one
unit of time, after which the first access tokens are void.

Symmetry is used only in runs without liveness.

### Fairness

What is assumed is only what the runtime repeats or ends by itself; nothing is
assumed of faults, customers, operators, or which answer an MX, DNS or the bank
gives.

- `Delivery.FairSpec`: a slot goes on with its job (sockets and DNS lookups have
  timeouts, so every await ends), an idle slot takes a waiting job, BullMQ's
  stalled check and the hourly retention timer run, and time passes. The faults
  are bounded, so in the end retention runs without being cut short.
- `SmtpIngress.FairSpec`: an awaited call of a login or a submission ends, one
  way or the other (`Serve`). A waiter's own step is the hand-over by another
  session, so fairness of one session alone does not wake it.
- `Billing.FairSpec`: a call that runs goes on to its end, and Razorpay delivers
  a webhook again until it is answered 200. Nothing is assumed of the browser:
  the customer may close the window.

## Findings

One run shows a statement of the repository's own comments that the code does
not keep: a temporary refusal of one recipient, beside another that is accepted,
puts the address on the suppression list for good (`delivery_partial`;
`smtpCodes.ts:7`, "4xx / no code -> deferred").

The other properties name their exceptions, and each exception is something the
code does:

- A retry after a crash may mail a recipient again (`CopiesBounded`;
  `queue.ts:8-9`). A job that is still alive on day 7 loses its content while
  unfinished (`InTime = FALSE` breaks `UnfinishedKeepsContent`;
  `retention.ts:16-17`).
- A failed payout may be sent again after its earnings were released and claimed
  by another (`RetryFailed = TRUE` in `ReferralPayouts.cfg` breaks
  `EarningsInOnePayout`; `models/payout.ts:7-8`), and two operators at once have
  the same effect. A transfer whose answer is lost counts as failed and its
  earnings are paid again under another idempotency key (`PaidOnce` alone fails;
  `razorpayx.ts:48`). A commission claimed while a refund is being handled is
  reversed although a payout holds it (`commissions.ts:148`).
- Bank details changed while a payout is under way receive the money although
  `payout.destination` names the old ones, and may be marked as confirmed
  although nothing was ever paid to them (`models/payout.ts:29`,
  `models/payoutAccount.ts:31-34`; `RecordsAreTrue` fails without `~moved`).
- A crash, or a rejected query, between the claim of a payment and its credit
  loses the plan: every later call finds the payment paid. `/verify` answered
  while a webhook is still crediting shows the old period for once.
- Failures in flight together exceed `MaxFailures`; concurrent requests exceed a
  plan's limit and a mail's cool-down.
- A refresh that overlaps a sign-out brings the session back, and a sign-out
  whose answer is lost leaves the cookie. A wrong password at `/login` is a 401,
  so the interceptor refreshes with whatever cookie there is and sends the login
  again.

## Proofs

Every theorem is about a whole specification (`Spec`, or `DeskSpec` of
`PayoutDesk`), for every value of the constants that satisfies the modules'
assumptions: bounds are naturals, null values are no members of their sets, and
a few sets are finite where something counts them (`Sessions` of the guard,
`Calls` of `Provisioning`, `Orders` of `Billing`). What a theorem assumes beyond these stands in its
ASSUME and is named below.

### Delivery (`DeliveryProofs`)

- `TypeCorrect`: `TypeOK` alone is not inductive. `made` stays at most
  `MaxAttempts` only because a waiting or active job has attempts left, and an
  event's type is legal only because a slot at `record` has a recipient whose
  status is one: hence `TypeInv == TypeOK /\ JobOK /\ RunOK`.
- `DeliveredTrue` (`DeliveredWasAccepted`): `SafeInv` follows a delivery from the
  MX through the memory of the slot to the saved document. A pending result
  `delivered`, or a recipient delivered in memory, already has its copy in
  `inbox`, which never decreases.
- `SuppressionRespected` (`SuppressedNotContacted`): once a slot has read the
  list, `todo` and `group` are disjoint from what it knew when it began, because
  the list only grows.
- `ContentAccounted` (`NoOrphanedContent`): `ContentInv` relates the file, the
  mark, the record and the retention job's place in its loops.
- `ContentOutlastsDelivery` (`UnfinishedKeepsContent`), `ClosingIsSettled`
  (`ClosedIsSettled`) and `JobsEndWithTheirMessage` (`JobEndsWithMessage`): with
  the lock kept, one slot owns a job, and its memory differs from the stored
  document only in what its next save will send. Retention comes too late to
  interfere. Both are what the properties' own conditions say: jobs end by day 7
  (`InTime`), and no lock was lost (`Kept`).
- `ShownOutcomesStay` (`OutcomesAreFinal`) and `DeliveryImplementsLifecycle`
  (`ImplementsLifecycle`) assume `InTime` and `MaxFaults["stall"] = 0`: a slot
  that has lost its lock may overwrite another's result. Each step is shown to
  be a step or a stutter of `MessageLifecycle`, and to keep final outcomes.
- `CopiesArePaidFor` (`CopiesBounded`, `InTime`, `Kept`): a copy whose save is
  still missing is owed to the run in progress, or else to a fault.
- `OutcomesAreAccounted` (`OutcomesAccounted`) assumes finite sets, `InTime` and
  ages below 30 days (`MaxAge < 2`), as the record is deleted then. Its invariant
  places each slot between counter and event, so that the sums agree up to one.
- `SuppressedForGood` (`SuppressedWasRefused`) needs `OnePerDomain`, one recipient
  of a message at each domain, as `delivery_partial` shows: then a group is one
  address, and what a slot is about to suppress has been refused. It holds with
  lost locks too. `BouncesStay` (`BouncesAreTrue`) adds that notices are final,
  for `InTime` and `Kept`: whoever a sender was told of is on the list, or the
  sender's domain is unverified, so a slot past that check knows the address as
  suppressed. With `MaxDomainChanges = 2` TLC finds it violated: a domain that is
  lost and verified again between a notice and the retry lets the retry deliver.

### Ingress (`SmtpIngressProofs`)

- `IngressTyped` (`TypeOK`) and `GuardCounts` (`GuardHolds`): `running` is the
  number of sessions at a check, the queue holds each waiter once, nobody waits
  beside a free slot, and the failures counted plus those in flight are bounded.
- `AcceptedIsWhole` (`NothingHalfStored`): what a submission has stored so far
  follows from its place in `acceptMessage`.
- `QuotaIsExact` (`QuotaExact`): the counter changes only by a reservation that
  fits, and a first row is inserted once.
- `IngressImplementsPromise` (`KeepsPromise`): every step answers one submission
  of `MessagePromise`, charges it, or is a stutter.

### Accounts, codes, domains, session

- `AccountsAreSound`, with `AccountsTyped` (`TypeOK`), `AccountsAreWhole`
  (`AccountWhole`), `ResetSignsOut` (`SessionsFollowPassword`) and `LinksAreSpent`
  (`LinksWorkOnce`): the invariant says what the copy of the user in a request's
  memory has in common with the document, and which cookies a password covers.
- `CodesAreSound`, with `CodesTyped` (`TypeOK`), `LinksStay` (`MintingIsSound`) and
  `AttributionIsTrue` (`AttributedToLink`): a code that is set stays, no two
  organizations have the same, and whoever follows a link carries its code.
- `WorkspaceIsSound`, with `WorkspaceTyped` (`TypeOK`), `LimitIsNearlyKept`
  (`LimitHolds`) and `PagesCatchUp` (`ShownIsStored`): the documents created since
  a request counted are those of the other requests under way, which is the bound on the
  excess; an answer the page waits for is at least as new as its last change.
  `VerificationStays` (`VerifiedStays`) is an action property of the same
  invariant.
- `SessionIsSound`, with `SessionTyped` (`TypeOK`), `RetryIsOnce`
  (`DoneAtMostOnce`), `ResetEndsSessions` (`ResetReachesAll`), `SignOutIsFinal`
  (`SignedOutStays`) and `NobodyIsStuck` (`NoTabStuck`): a token's version is at
  most the user's, one issued since the reset carries it, and a request waits
  only for a refresh of its own tab that is under way.

### Payouts (`PayoutProofs`)

- `PayoutsAreSound`, with `PayoutsTyped` (`TypeOK`) and `ClaimsAreBacked`
  (`NoStrandedClaim`), for any number of requests and operators: a payout is
  claimed for by one request, does not exist until that request creates it, and
  then holds everything claimed for it.
- `DeskIsSound`, with `EarningsPaidOutOnce` (`EarningsInOnePayout`) and
  `PaidIsTrueAndOnce` (`PaidIsTransferredOnce`), assume `OneDesk`: one operator,
  who leaves failed payouts alone. `DeskInv` adds what the one call relies on
  (the status it has loaded is the stored one; what it fails was not
  transferred) and that a payout keeps its claim until it has failed. With two
  operators TLC finds `EarningsInOnePayout` violated: one sends what the other
  has just failed, so the assumption is needed.
- `PageIsSound` and `PageIsRight` (`PageCatchesUp`): what the page has read is
  true unless a call has changed it since, and then the page has not been
  answered yet and will ask again. No assumption.
- `RecordsAreSound` and `MoneyArrivesAsRecorded` (`RecordsAreTrue`) assume that
  failed payouts are left alone (`~RetryFailed`), for any number of operators:
  unless details were changed on the way, everything a call has loaded is the
  account on file, and so is the destination of every payout that is open or
  being worked on.

### Billing (`BillingProofs`)

- The calendar: months are counted off a strictly growing `Calendar`, so every
  date has its month (the least one, by the least-number principle), later dates
  later months, and `AddOneMonth` lands in the next month whatever it clamps
  (`NextMonth`). The model assumes that the calendar outlasts what the `Orders`
  can buy.
- `BillingTyped` (`TypeOK`) and `PlanWasPaid` (`TimeWasPaid`) need no assumption.
  `BillingInv`: an order is claimed by at most one call and credited after that
  once, and the plan ends no more months from now than were credited to it; a
  call that has computed its start keeps that bound while others are credited.
- With orders paid one after the other (`~Overlap`), `SingleInv` adds that one
  order at most waits for its credit and one call at most is at work on it, whose
  start still fits the subscription. `CreditedOnce` (`CreditsEachOnce`) follows,
  every other step being a stutter of `Prepaid`, and `PaymentIsShown`
  (`NoticeIsTrue`): a page that has shown the new period is not overtaken.
- `HandledInFull` (`HandledIsComplete`, `~Overlap` and `RefundsLast`) joins
  `PaidIsWhole` and `RefundIsReversed`. `WholeInv`: what a paid order still lacks,
  some call is about to write, unless one was cut off after its claim.
  `RefundInv`: after a refund no call for the order creates a commission, and its
  webhook is answered only when none is pending.

### Only model-checked

- Liveness: `EventuallyClosed`, `EveryoneAnswered`, `PaidIsCredited`. Fairness and
  ENABLED are out of the prover's reach.

What recursion over data would compute for every input is not needed anywhere:
the models have no recursive operator.

## Abstractions

One organization, except where two matter (`ReferralCodes`): every query is
scoped by `organizationId`. Message bodies, replies, timestamps, DKIM signatures,
prices, percentages and withholding are left out: no modelled decision reads
them. The MX list is the number of targets found. A retention batch is
everything that matches; the limit of 500 only splits it. The backoff between
attempts is left to the order in which waiting jobs are taken. A usage counter
is that of one month. DNS, Google and the checkout are oracles. The refinement of
`MessageLifecycle` holds without lost locks only, as `JobEndsWithMessage` does.
A failed query of the dashboard is asked again once by react-query before it
counts as failed; a reload drops the requests of its page, which the server has
served by then, or never does. In `PayoutDesk` the queries behind `GET /referrals`, which run side
by side, are one step.

## Plan

Every safety property of a passing run is stated by a theorem. What can still
be improved about them:

1. `OutcomesAreAccounted` beyond 30 days (`MaxAge >= 2`): counted outcomes of
   records that were deleted since, and events deleted one query before their
   record.
2. The conditions under which payouts hold: `OneDesk` excludes two operators and
   retried failures altogether, although each breaks only some of the properties.
3. Invariants of the abstract specifications themselves, so that a reader can
   take them from `MessageLifecycle`, `MessagePromise` and `Prepaid` alone.

Of the code, `deploy/deploy.sh` could still become a module `Deploy`: the
blue/green cut-over, in which a new stack starts, is checked and takes over
before the old one stops.

## Not modelled

- *Static pages* (landing, docs, guides, comparisons, legal; about a third of the
  lines): text in JSX, without state.
- *Pages that only show a query* (Home, Activity, Admin's lists) and the
  *read-only routes* behind them (`messages`, `usage`, `config`): nothing in them
  changes state.
- *Plan catalogue*: a static table written to Mongo at start.
- *Mail rendering, receipts, admin notices*: text, sent with best effort.
- *Cryptography, configuration, connections, DKIM*: wrappers of libraries and of
  the environment.
- *Deployment*: shell scripts; that two worker processes overlap is covered by
  several `Workers`.
- In billing: lifetime grants, prices and receipts. In accounts: the expiry of
  refresh tokens is in `Session` only.
