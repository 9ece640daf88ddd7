# Verification of Telroi: money, numbers and calls

Telroi is a hosted telephone system.  Workspaces rent numbers, take and make
calls, and pay from a prepaid (or postpaid) wallet.  The web application
(`server/`, Nitro and PostgreSQL) keeps everything that is worth money; the
call engine (`control-app/`, Node and Asterisk over ARI) keeps the calls in
progress in memory.

This directory holds TLA+ models of the parts in which several actors touch
the same state, the TLC configurations that check them on small instances, and
TLAPS proofs of the safety properties of all of them.  `PROJECT.json` is the
index: components, runs, mutants, the source lines behind every definition,
hazards and theorems.  All paths below are relative to the repository.

    tlc -workers 2 -config WalletTx.cfg MCWalletTx.tla      # a run
    tlapm WalletTxProofs.tla                                # a proof

## 1. Inventory

### Wallet and ledger - `server/utils/wallet.ts`, `server/db/schema.ts`
*State*: one `wallets` row per workspace (`balanceMinor`, `currency`), ledger
rows (`kind`, amount, balance after, `reference`), the tenant's terms
(`postpaid`, `creditLimitMinor`, `billingSuspendedAt`).
*Operations*: `debitInTransaction`, `creditInTransaction` (which withholds VAT
from a naira top-up), `canSpend`, `debit`, `credit`.
*Interacts with*: everything that costs money.  A debit may queue an automatic
top-up in its own transaction; a credit may withdraw one, lift a suspension and
settle invoices.
*Hard*: concurrent transactions on one row, some of whose inputs (terms, tax
rate) are read without a lock; repeated requests; rounding of tax.
*Correct when*: the balance is the sum of the ledger, a reference moves money
once in each direction, no burst of debits goes below the granted floor, net
and tax add up to what was paid.

### Automatic top-up - `server/utils/auto-topup*.ts`, `server/api/cron/auto-topup.post.ts`
*State*: settings with the consent they were saved under, the saved card,
attempts (`pending` ... `succeeded`), their lease, claim token, credential
fingerprint and payment row; and, at Stripe or Paystack, the charge.
*Operations*: queue (inside a debit), withdraw (inside a credit, a settings
change or a disable), claim, dispatch, look up, recover, settle, mark
uncertain, webhook.
*Hard*: a process may die between claim, POST, answer and settlement; answers
are lost, repeated and reordered; every input of the decision may change
between queueing and claim.
*Correct when*: a card is asked at most once per attempt, one attempt is open
at a time, only captured money is credited and only once, a charge is let go
only on the terms consented to, and a capture is noticed without webhooks.

### Phone numbers - `server/api/numbers/*`, `server/api/cron/numbers-grace.post.ts`, `closed-workspaces.post.ts`
*State*: the inventory row (`available` or sold to a tenant), the subscription
row (`active`, `suspended`, `cancelled`, `released`; `graceEndsAt`).
*Operations*: purchase, live (claim, check, debit, insert) or in sandbox (the
same without the debit), release, reclaim, the hourly grace sweep, the sweep of
closed workspaces, and the monthly billing,
which may suspend.
*Hard*: each endpoint is several statements without a transaction; requests,
sweeps and billing overlap and crash.
*Correct when*: a rented number is not for sale, whoever pays gets the number,
no live purchase that fails leaves a number held for nothing, and a number whose
grace is over leaves the cancelled state.

### Recurring billing - `server/utils/billing.ts`
*State*: `nextBillingAt` of each number, `planNextBillingAt` of the workspace,
debit references that carry the date.
*Operations*: `runMonthlyBilling`: list, read, decide, charge (debit and anchor
in one transaction) or suspend.  Seat proration is separate.
*Hard*: overlapping and late runs, crashes half-way, entries that are stale
when the run comes to them.
*Correct when*: each cycle is charged once, none is skipped, an unpaid plan is
collected later.

### Postpaid invoicing and dunning - `server/utils/invoicing.ts`
*State*: invoices (number, amount, due date, status, `remindedAt`), the
suspension of the workspace.  The negative balance is the debt.
*Operations*: `runInvoiceSync` (settle, patch, roll, issue), `runDunning`
(remind, suspend), and the settlement in `credit`.
*Hard*: no locks at all; the job decides on lists that payments and usage make
stale; a job that misses days or dies.
*Correct when*: at most one invoice is open and states the debt, a suspension
has a past-due invoice behind it, debt that stays is collected.

### Department bridge - `control-app/src/bridge.ts`
*State*: a bridge, the caller's channel, one outgoing leg per member, and the
closure of `bridgeToDepartment` (`answeredId`, `wasAnswered`, `cleanedUp`).
*Operations*: dial everybody, take the first who answers, tear down on hang-up
or timeout, report the status.
*Hard*: handlers await between reading and writing; events that arrive before
their handler is registered are lost; hang-ups race with answers.
*Correct when*: one member at most is connected, each status is reported once
and in order, an unanswered caller is kept for the message, ringing ends.

### Call queue - `control-app/src/queue.ts`, the routes of `index.ts` that hold callers
*State*: a list of waiting callers per workspace, in memory; per call, what its
handler is waiting for; at Asterisk, channels and the legs on each endpoint.
*Operations*: look up the agents' endpoints, join, poll every five seconds,
offer the front of the line the free agents, give up after three minutes, leave.
*Interacts with*: the bridge, which rings the agents a caller is offered.
*Hard*: free agents are read one by one and rung later; new callers do not look
at the line; a hang-up is an event that may come before anybody listens.
*Correct when*: the line is exactly those who hold, only its front is offered
agents, turns come in the order of joining, nobody holds for ever.

### Call log - `server/utils/call-log.ts`, `control-app/src/call-log.ts`
*State*: one `call_events` row per call; the charge of the call; the webhook
event `call.completed`.  *Operations*: `upsertCallEvent` (reports of carriers,
and calls the engine posts), `logCall` (the engine writes the row itself),
`logOutbound` (posts, and falls back to writing), the charge.
*Hard*: two programs write one row with no lock; reports are repeated, late and
out of order; the engine waits for nothing; either side may fail half-way.
*Correct when*: the client hears of a finished call, and not on every report;
no report that reads a finished call reopens it; a finished call is charged
whichever way it was reported.

### Live calls from the website widget - `server/utils/widget-guest.ts`, `channel-limits.ts`, `server/routes/widget/*`
*State*: a session per visitor, guest endpoints and whose session each is leased
to, the page in the browser.  *Operations*: open a session, start the call
(channel limit), get an endpoint (sweep, claim or provision), end, rate
(releases the endpoint), close the tab; the cron that closes what never ended.
*Hard*: every request is several statements; provisioning takes most of a
minute; the page moves on while its requests are answered; a tab closes without
a word.  *Correct when*: no two browsers are on one endpoint, the channels paid
for are kept, endpoints come back, sessions are closed.

### One-time passwords by voice - `server/utils/voice/otp-service.ts`, `control-app/src/otp-call.ts`
*State*: a row per password (status, attempts), the call, the wallet.
*Operations*: send (rate, wallet, row, call, status, debit), report of the
call's end, verify.  *Hard*: no transaction anywhere: the rate is counted before
the row, guesses are compared with a row read earlier, the sender and the report
of the call write one status.  *Correct when*: rate and cap are kept, a password
is used once, what is charged was dialled, the row ends with what the engine
made of the call.

### Outgoing webhooks - `server/utils/webhooks-out.ts`, `server/api/webhook-endpoints/*`
*State*: endpoints (enabled, consecutive failures), queued deliveries (status,
attempts, next attempt).  *Operations*: enqueue, a dispatch run, enable, remove.
*Hard*: nothing claims a delivery; runs may overlap or be cut short, and write
counters back from what they read before the request.  *Correct when*: a
delivery gets its attempts and no more, an endpoint is switched off only for
failures in a row, the queue drains.

### Other components
`PROJECT.json` lists them all with their status.  With state worth a model later:
the engine's configuration cache (`control-app/src/cache.ts`), voice
notifications (`server/utils/voice/notify-service.ts`).  Not worth one: text
generation for Asterisk, audio streams, CRUD, the user interface, permissions.

## 2. Modules

    WalletOps     canSpend, floor, tax, threshold: pure operators
      Wallet      the promise: one wallet, atomic movements        PromiseProofs
        WalletTx  transactions on the row lock, implements Wallet  WalletTxProofs
        AutoTopup attempts, workers, provider; implements Wallet
                  and ChargeOnce                                   AutoTopupProofs
      Billing     recurring charges                                SubscriptionProofs
    ChargeOnce    the promise: one charge, asked, credited once    PromiseProofs
    NumberPool    numbers between the pool and the workspaces      SubscriptionProofs
    Invoicing     invoices, dunning, settlement                    InvoicingProofs
    DeptBridge    ringing a team                                   CallReportProofs
    CallQueue     holding callers until an agent is free           LineProofs
    CallLog       one call's row, its announcement and charge      CallReportProofs
    WidgetCalls   website calls: channels, guest endpoints         LineProofs
    VoiceOtp      one-time passwords by voice                      VoiceOtpProofs
    WebhooksOut   deliveries to clients' servers                   CallReportProofs

`MC*` modules hold the values TLC needs.  A definition whose comment begins
with "Mutant of" is a plausible bug in the definition it names.  Nothing refers
to it; putting it in that definition's place makes a property fail.

### WalletOps, Wallet
`Wallet` says what `debitInTransaction` and `creditInTransaction` promise as
single steps: `Debit`, `Credit`, and `Grant`, which changes the lowest floor the
terms ever allowed (`floor`).  A VAT row is written under the reference of its
credit; the code gives it a derived reference that is unique in the same way.

### WalletTx
A transaction is `Begin`, `LockWallet` (`SELECT ... FOR UPDATE`), `DecideDebit`
or `DecideCredit` (the reads after the lock), and `CommitDebit` or
`CommitCredit`.  `tx[p]` is what handler `p` has read.  `SetTerms`,
`SetSuspended`, `SetVatRate`, `CheckCountry` and `WriteCountry` run beside it
without the lock; `Crash` rolls back.  `ImplementsWallet` is the refinement of
`Wallet`.  The code's unique index on references is a second guard that never
has to act, because the lookup happens under the lock.

### AutoTopup, ChargeOnce
An attempt is named by the debit that triggered it, as its idempotency key is.
Transactions under the wallet lock are one step (`WalletTx` shows that they may
be); everything else is a step per statement or call: `Pick`, `Claim`, `Post`,
`Answer`, `RecoverClaim`, `LookUp`, `Record`, `Mark`, `Webhook`, `Crash`.
Leases and retry delays are one flag, `waiting`, which `Lapse` clears.  The
provider (`Provider`) is external: it may take the money late, never, or after
having reported a failure (Stripe).  Paystack's `reversed` is not modelled.
`ChargeOnce` is the promise; `StageOf` maps the attempt's status to it.

### NumberPool
One `Job` per handler: what a request or a sweep is in the middle of.  Every
statement of the endpoints is an action.  Time is one flag per number: `grace`
is running or over.  `CloseWorkspace` waits until nothing of the workspace is
in progress, because thirty days pass before the sweep looks.

A purchase reads the workspace's mode after its claim (`CheckSubscription`).  In
sandbox it goes on with the same inventory row: it inserts an active
subscription without a debit (`simulated`), then reads wallet and prices and
writes a simulated ledger entry (`Simulate`), all inside the same `try`.
`CatchPurchase` is its catch block, which frees the row by id.  A refused buyer
comes through it with the row already freed, and a sandbox purchase that fails
late with its subscription already written; `loose` remembers the numbers it
frees from under somebody.  The same purchase through the API
(`server/routes/v1/numbers/index.post.ts`) is the same statements, except that
it knows the mode before the claim (52-54) and writes no ledger entry in
sandbox; it too frees a refused row twice (83, 110).  The administrators'
endpoints (inventory, binding a number, deleting a workspace, which takes its
rows along) are left out.

### Invoicing
One workspace.  `StartRun`, `ReadOpen`, `PatchInvoice`, `CountInvoices`,
`IssueInvoice` are `runInvoiceSync`; `ListOpen`, `Chase`, `Suspend`, `Remind`,
`EndRun` are `runDunning`; `Pay`, `LiftSuspension`, `ListToSettle`, `MarkPaid`
are `credit`.  Time is counted in days left to the due date, and what starts on
a day ends on it.  A job's local variables are the fields of `job[j]`; `settled`
remembers which invoices payments have marked since dunning listed the open ones.

### Billing
One workspace with numbers and a plan.  A run lists what is due with the anchor
and the fee it saw (`Entry`), then per entry decides (`Decide`: the reads of
wallet, ledger and tenant, in one step) and writes (`Charge`, `Suspend`,
`Advance`).  `Charge` is `debitInTransaction` together with the anchor, as in
the code.  `Refused` is the catch block.  Usage, top-ups, terms and plan
changes (`Use`, `TopUp`, `SetTerms`, `ChangePlan`) happen between any two steps.

### DeptBridge
`bridgeToDepartment` for one call.  JavaScript runs to the next `await`
without interruption, so a step is a command to Asterisk together with the code
up to the next one.  Three threads of control share the closure: `main` (the
procedure), `taker` (the `StasisStart` handler of the member in `answeredId`)
and `clean` (the teardown; "no" until `cleanedUp` is set).  `starts` and `ends`
are events on their way; `Heard` says which hang-ups have a listener by then,
and the others are lost, as they are in an event emitter.  A command to a
channel that is gone fails: `AnswerLeg` and `JoinLeg` then tear down, and a
failed hang-up is ignored, as the code does.  The statuses "failed" and
"no-answer" are one report, "unanswered": which of the two is chosen has no
effect on the states modelled.  The ringing window is `GuardFires`, which may
come at any time while waiting, so every position of the timer is covered.
People are external and owe nothing: they may answer, decline, let ring, or
hang up at any moment.  `belated` remembers that a winner answered when the
teardown had begun.  When every leg has failed and the teardown is already under
way, the procedure returns without waiting for it (`bridge.ts:396`).

### CallQueue
One workspace.  A call asks (`Ask`, `ReadEndpoint`: one endpoint at a time, the
lookup may fail and then keeps the endpoint), and either goes ahead (`GoAhead`)
or joins (`Join`).  The loop of `holdUntilFree` is `Announced`, `Abandon`,
`GiveUp`, `StayInLine`, `AskAgain`, `Checked`, `Offer`; every action ends at an
await.  `Farewell` is the route's hang-up after a null result, `Leave` the
`finally` block.  What the bridge does with the offer is `Dial`, `Answer`,
`Close`, an outline of DeptBridge: the only coupling is who is in `legs`.  Time
is the number of polls, up to `MaxPolls`.  `joined` remembers who joined, in that
order.

### CallLog
One call, and every report that will ever be made of it.  `Read`, then `Insert`
or `Update` and `AfterUpdate` are `upsertCallEvent`; `Announce` is
`maybeEmitCompleted` with `maybeChargeCall`.  `FindPrefix`, `LogCall`,
`ReadBack`, `AskCharge` are `logCall`, whose upsert is one statement; `Post`,
`Posted`, `GiveUp`, `WriteDirectly` are `logOutbound`.  A call comes in at a
carrier (and may be escalated to the engine), or is placed through the dialplan,
or comes in at the engine: `LogInit` chooses.  Statuses of one rank are told apart
only where the code does; a duration is none, zero or some.  `Crash` restarts
the web app, `Fails` loses a request, a write or a debit.

### WidgetCalls
One workspace.  A visitor's page is `page[v]` and `line[v]`, the endpoint its
call is on; `call[v]`, `lease[v]` and `rating[v]` are the handlers of its three
requests, at most one of each (the page sends no more).  `TokenCheck`,
`SweepList`, `SweepFree`, `Look`, `Claim`, `Count`, `Insert` are
`voice-token.post.ts` with `leaseGuestEndpoint`, a step per statement.
`EnsureCount` and `EnsureInsert` provision in the background.

The answer with an endpoint does not start the call: `starting[v]` is the
endpoint while the page asks for the microphone and loads the library.  Then
`StartCall` puts it on `line[v]`, or `StartFails`.  `Finish` is "End call": it
hangs up what is on the line, and nothing while the call is only starting, as
`hangupCall` returns when there is no call yet.  `hasty` names the visitors
whose session was over before their call began.

Time appears as choice: which leases are five minutes old, and when a call
becomes older than twenty minutes (`Age`, whether it is talking or not; only the
requests themselves take less).  `liveCallCount` counts the others (`Counted`).
That no conversation lasts an hour is the cron's own assumption and is taken
over (`StaleSessions` waits for it); a microphone prompt may be open longer.

### VoiceOtp
One workspace, one number, one hour.  `CheckRate`, `Insert`, `Dial`, `Placed`,
`WriteFailed` or `WriteDelivered`, `Charge` are `sendVoiceOtp`; `Read` and the
three writes are `verifyVoiceOtp`; `End` and `Report` are the engine's.  A
price is 1; `Funds` is the wallet in prices.  The engine knows only how long ago
it dialled: `End` makes the call "long" (fifteen seconds and more, ringing
included) or "short", and `Inferred` is what is reported of it, "delivered" or
not.  The causes of a short call (busy, no answer, rejected, failed) are one,
"unanswered".

### WebhooksOut
`Emit` and `Enqueue` are the two statements of `emitWebhook`; `Start` lists what
is due, and `Take`, `Drop`, `Request`, `Delivered`, `ResetFailures`, `Failed`,
`CountFailure`, `Finish` are the statements of `dispatchWebhooks`.  Up to
`MaxRuns` runs are at work at once.  `had` and `saw` are the counters as a run
read them, `afterRemoval` the requests of a run to an endpoint that is gone.
Backoff is one flag, `resting`.  `Enable` and `Remove` are the
client's requests; `Remove` takes the deliveries with it, as the foreign key
does.

## 3. Runs

| Run | Distinct states | Time | Bounds |
|---|---|---|---|
| WalletTx | 116,360 | 40 s | two handlers; two calls of 30, a top-up of 43, an adjustment of 5; limits {30}; VAT 0 and 7.5 % |
| AutoTopup | 551,344 | 150 s | two crossing debits, two customer top-ups, one worker, two keys, one owner or operator change |
| AutoTopupRace | 176,074 | 180 s | one crossing debit, one top-up, two workers, two keys, one change; with fairness |
| NumberPool | 157,536 | 30 s | one number, two workspaces, two handlers, live and sandbox, one crash; with fairness |
| Invoicing | 333,671 | 80 s | terms of 4 days, limit 2, one job, two payers, two charges, two payments, one crash, four invoices; with fairness |
| Billing | 371,443 | 75 s | one number and one plan, cycle of 2 days, 4 days, two overlapping runs, two moves of money or terms, one crash; with fairness |
| DeptBridge | 357,014 | 52 s | three members; with fairness |
| CallLog | 132,395 | 36 s | four carrier reports of which one never arrives, two of an escalation, one of the dialplan, two of the engine, one fault; with fairness |
| WebhooksOut | 1,087,027 | 200 s | two events for one endpoint, two runs at once, two attempts, switched off after two failures, two troubles; with fairness |
| CallQueue | 87,737 | 12 s | two callers, two agents, two polls, one failed lookup; with fairness |
| WidgetCalls | 578,346 | 140 s | two visitors, two endpoints, one channel, one lost answer or failed provisioning; with fairness |
| VoiceOtp | 3,453,291 | 110 s | two passwords, two guesses, one password an hour, caps of 1 and 2, money for one, one fault |

Deadlock is checked in WalletTx.  The others say `CHECK_DEADLOCK FALSE` because
they are meant to stop: every attempt decided, the last day over, all numbers
held, the call over, everything delivered.  All runs pass.

**Why the bounds are enough to be interesting.**  *WalletTx*: two calls of 30
against 40 of net credit is the smallest burst in which the second call may or
may not fit, and a limit of 30 makes terms decide it; both orders of every pair
of movements, and a repetition of each, are there.  *AutoTopup*: each of two
debits crosses the threshold, so the second may find the first attempt in any
status; a customer's own top-up makes a queued one needless.  *AutoTopupRace*
gives one attempt to two workers, with a crash at every point.  *NumberPool*:
two handlers make every pair of endpoints, sweeps and billing overlap; a second
number would be independent of the first, as no statement reads two numbers.
*Invoicing*: terms of 4 days are the shortest in which both reminders (3 and 1
days before the due date) come on days of their own; two charges make a growing
balance roll the due date.  *Billing*: 4 days with cycles of 2 let a run come
one or two cycles late; two runs overlap at every statement.  *DeptBridge*: with
three members there is a winner, one who answers second and one who is being
cancelled; the safety properties are proved for every number of members.
*CallQueue*: two callers are a front and one behind, or one who holds and a
newcomer who does not; two agents make the lookup and the ringing of several
endpoints interleave; the safety properties are proved for any number.
*CallLog*: of the carrier's four reports any one may be missing, so a call may
finish with or without a repeat, and the repeat or the one that says nothing of
the status may overlap with either.  *WebhooksOut*: two attempts and two failures are the smallest numbers
with a first, a last and one between; two deliveries to one endpoint share its
counter.  *WidgetCalls*: one channel for two visitors makes every limit bite;
two endpoints are one more than may be provisioned, so that two who count at
once (the background and a visitor, or both visitors) make one too many.
*VoiceOtp*: one password an hour and two requests make the count bite; a cap of
1 and one of 2 let the last guess be the first or not.

**Bounds by name.**  `MaxChanges` (AutoTopup) bounds what owners and operators
change; `MaxCrashes` and `MaxDeaths` (Billing) the crashes; `MaxDays`,
`MaxMoves` (Billing) the days and the uses, top-ups and changes; `MaxCharges`,
`MaxPays`, `MaxInvoices` (Invoicing) usage, payments and the invoice numbers;
`MaxPolls` (CallQueue) the polls that fit into the longest wait; `MaxLost`
(CallQueue) and `MaxFaults` (CallLog, WidgetCalls, VoiceOtp) lookups, requests,
answers and reports that are lost; `MaxTroubles` (WebhooksOut) overlaps, cut
runs and the client's requests; `MaxRuns` and `Limit` (WebhooksOut) runs at once
and deliveries per run.  All are guards of the actions they bound.  `SYMMETRY`
is used in runs without liveness only.

### What each property says

A property of a run may be a conjunction of named parts; each part has a comment
of its own in the module.

* WalletTx - `ImplementsWallet` is the refinement; `BalanceIsLedger` and
  `NeverBelowFloor` are what it is for; `PaymentIsBookedOnce` says that a
  reference moves money once (`ReferenceMovesMoneyOnce`) and that the tax split
  adds up whatever rate is in force (`GrossIsNetPlusVat`).
* AutoTopup - `ImplementsChargeOnce` and `KeepsWalletPromise` are refinements;
  `ChargesWhatWasConsented` relates the moment of the claim to the last consent;
  `AttemptsOK` ties attempt, payment row, ledger and provider (`SettledTogether`,
  `UnsentLeavesNoTrace`); `CaptureIsNoticed` is liveness.
* NumberPool - `PoolOK`: types and `RentedIsOutOfPool`, which has the exceptions
  `expired` and `loose`, because the code breaks it after a grace period and by
  the catch block (section 7); `PayerGetsTheNumber`, with `loose`, protects
  buyers; `HeldWasPaid` says that a number is held against a debit or in
  sandbox; `ExpiredIsReturned` is liveness of the sweep.
* Invoicing - `InvoicesOK`: types and `AtMostOneOpen`; `SuspendedOnlyPastDue`,
  where a suspension has behind it an invoice whose days are over and which is
  open, or was until a payment settled it after the list; and the liveness properties `DebtIsCollected`, `DebtIsInvoiced`.
* Billing - `CyclesOK`: types and `ChargedOncePerCycle`; `NoCycleSkipped`; and
  the liveness property `PlanIsCollected`.
* DeptBridge - `OnlyFirstIsConnected`, `ReportsAreOrderly`;
  `UnansweredCallerIsKept`: a caller who did not hang up goes down only after an
  answered call was reported ended, except `belated`; and the liveness property
  `CallerIsNotStranded`:
  ringing ends (`RingingIsDecided`), and a member's hang-up that is listened for
  releases the caller, whatever else the call is doing
  (`ServedCallerIsReleased`).
* CallLog - `EndIsToldOnce`: types, the client is told once (`HeardOnce`), and is
  told (`CompletionIsHeard`); `slipped` says that a report which read the call
  before it finished, or the engine, which does not look, has reopened it.
  `FinishedIsCharged` is liveness over the three ways a call is reported.
* WebhooksOut - `AttemptsAreKept`: types, and the number of requests bounded from
  both sides (`GivenUpOnlyAfterAttempts`, `StopsAfterAttempts`);
  `OneRequestAfterRemoval` and `SwitchedOffAfterFailuresInRow` are about stale
  reads; `QueueDrains` is liveness.  The flags `raced` and `broken` name what
  each does not survive.
* CallQueue - `LineIsInOrder` (`QueueIsHolders`, `AskingIsFront`);
  `TurnsAreInOrder`: whoever is looked up for, offered or connected from the line
  is so after all who joined before have left it; and the liveness property
  `HeldIsDecided`.
* WidgetCalls - `LeaseIsExclusive` (`OneVisitorPerEndpoint`,
  `RatedHoldsNothing`), `WithinChannels`, and the liveness property
  `AbandonedIsClosed`.  `stolen`, `hasty` and `crossed` name the races in which
  the code does not keep them.  `WithinChannels` is about the calls of the last
  twenty minutes, which is what the code limits.
* VoiceOtp - `RateIsKept`; `CodeIsGuarded` (`AcceptedOnce`, `GuessesAreCapped`);
  `PasswordsOK`: types, `PaidWasDialled`, `EngineHasTheLastWord`,
  `CallingIsDecided`.  What the engine says need not be so: a phone that rings
  for fifteen seconds is "delivered" (section 6).  `crossed`, `raced` and `misled` name the races.

The type invariants of WalletTx, DeptBridge, CallQueue and WidgetCalls are not
part of a run: they are theorems (section 5).

Several of these except a race by a history variable.  The exceptions are as
narrow as TLC allows: without them the property fails, and each mutant breaks
the property outside of them.

## 4. Fairness

* AutoTopup: the minutely cron runs its tasks to the end (`Post`, `Answer`,
  `Record`, `Mark`), delays run out, and - strongly - the cron comes back to
  every attempt, gets the lock and a conclusive lookup again and again.
  Strength is needed because another worker, or an inconclusive answer, can
  take a turn away.  Nothing is assumed of webhooks, owners, or the provider's
  decision: `CaptureIsNoticed` is about polling alone.
* NumberPool: a handler that runs goes on, the clock moves, and the two sweeps
  run again and again (the scheduler calls one hourly, the other daily).
  Clients are owed nothing.  The listing is strongly fair: handlers of other
  endpoints may occupy the number in between.
* Invoicing, Billing: days pass, the daily job is called again and again and
  goes on once it runs; a payment that committed runs its settlement unless it
  crashes.  `MaxCrashes` and `MaxDeaths` make crashes finite.  Nobody need use or pay.
* DeptBridge: `WF(Engine)` only.  Commands to Asterisk return and timers fire;
  a call takes finitely many engine steps, so weak fairness of the whole is
  enough.  People are owed nothing.
* CallLog: what the web app and the engine have begun they finish,
  `WF(WebApp)` and `WF(CallEngine)`; each report takes finitely many steps.
  Reports that are lost are faults, and `FinishedIsCharged` excepts them.
* WebhooksOut: time passes, a run goes on to its end, and the scheduler asks for
  runs again (`schema.ts` and `cron/webhooks` leave that to an outside scheduler).
  Troubles are finite, so the runs that overlap are.
* CallQueue: `WF(Engine(c))` for each caller: timers fire, lookups and commands
  return, events arrive.  Callers and agents are owed nothing; in particular no
  agent ever has to hang up for a caller to be decided.
* WidgetCalls: `WF(Handler(v))` and `WF(Age(v))`: requests are handled to their
  end, time passes and the cron comes by.  Pages are owed nothing: a tab may be closed at any moment.
* WalletTx and VoiceOtp have none: all their properties are safety.

## 5. Proofs

Every theorem is checked by tlapm from the constants' named assumptions, one per
module (`WalletAssumption`, `WalletTxAssumption`, `AutoTopupAssumption`,
`NumberPoolAssumption`, `BillingAssumption`, `InvoicingAssumption`,
`DeptBridgeAssumption`, `CallLogAssumption`, `WebhooksOutAssumption`,
`CallQueueAssumption`, `WidgetCallsAssumption`, `VoiceOtpAssumption`), which TLC
evaluates on every run that extends their modules; nothing else is assumed.
Five theorems have a hypothesis of their own and say so.  Before it was proved
each invariant was checked by TLC on the instances of section 3.

**PromiseProofs** - about the two promises, for every set of references,
amounts, floors and debits.  Of `Wallet`: types, `BalanceIsLedger`, references
once, never below the floor.  The invariant adds one fact, `TaxFollowsCredit`: a
tax line has its credit before it, so a reference without a credit has no tax
line that would be written twice.  Of `ChargeOnce`: a credit was captured and
submitted, one charge is open at a time, a credit is for good.  "Asked" implies
"submitted", which is what keeps `Withdraw` harmless.

**WalletTxProofs** - `LocksImplementWallet`: the row-lock protocol implements
`Wallet` for any number of handlers, any operations, limits and tax rates.  The
difficulty is that a handler decides in one step and commits in a later one, so
what it was told must still be true.  The inductive invariant `TxInv` says so:
whoever is past the lock holds it (`LockInv`), the balance it read is the
balance (`ReadInv`), what is about to commit is neither a duplicate nor below
the floor (`ReadyInv`), and terms read without the lock are safe because `floor`
remembers the lowest ever granted (`FloorInv`).  Each commit then maps to
`Debit` or `Credit` of the promise, every grant of a lower floor to `Grant`, and
every other step to a stutter.  `LockedBalanceIsLedger`, `LockedReferenceOnce` and
`LockedNeverBelowFloor` then carry what `PromiseProofs` proves of the wallet over
to the protocol: the module is instantiated with the references, amounts and
floors of WalletTx, which satisfy `WalletAssumption` (`PromiseAssumption`).
`PaymentIsAlwaysBookedOnce` adds that net and tax are what was paid: the split is
right while it waits for its commit (`SplitInv`) and in the ledger (`GrossInv`).
Its hypothesis is that a reference names one amount, as the unique reference of
a payment row does (`schema.ts:1213-1229`).

**AutoTopupProofs** - for any debits, workers' tasks, credentials, plans and
owners' changes.  `TopupInv` says what the status of an attempt implies about its
ledger rows and its payment (`AttemptInv`), that nothing is reported that was not
asked for, and success exactly when the money is there (`ReportInv`), and that a
task which may still post is the only one and nobody has posted yet
(`WorkerInv`).  From it: `AttemptsOK`, `ChargesWhatWasConsented`, and that
AutoTopup implements both promises, step by step (`AttemptsImplementChargeOnce`,
`TopupKeepsWalletPromise`).  `PromiseProofs` is instantiated twice, so that what
it proves of the promises holds of automatic top-up
(`ChargedOnceAndForMoney`, `TopupsKeepTheLedger`).

**SubscriptionProofs** - how a number is sold and how it is paid for later.

For any numbers, workspaces and handlers of NumberPool.  No endpoint
takes a lock; `PoolInv` is the reason why buyers are safe all the same.  A number
without a subscription row belongs to its one claimant, and one that has a row
can be claimed only after its grace period (`ClaimInv`); whoever has read a row
finds it there later, and the sweeps touch expired numbers only (`RowInv`,
`ExpiryInv`); the money is taken before the row is written, or the purchase is
one in sandbox (`PaidInv`).  `ClaimInv` excepts the numbers in `loose`: a catch
block that had no claim to give back is what breaks it.  `PoolOK`,
`PayerGetsTheNumber` and `HeldWasPaid` follow; so does `NumberIsNeverResold`,
which is item 3 of section 6 as a theorem (deleting a workspace deletes its
rows, and is outside the model).

For any subscriptions, fees, periods and runs of Billing: `CyclesOK` and
`NoCycleSkipped`, from one inductive invariant.  A run decides on a due list that
other runs make stale; `EntryInv` says how stale it can be: an entry shows the
anchor as it is, or the item was paid this very day and the anchor is one period
on.  In the second case the reference of the day is in the ledger (`DatesInv`: and
never one of a day to come), so that the debit is a duplicate and the anchor is
written where it already is.  `CycleInv` is the conclusion made inductive: an
anchor is a whole number of periods after the first, the cycles before it have
been charged once and no others; with the arithmetic of remainders (`NextMultiple`,
`MultipleAgain`) a charge adds exactly one.  Both theorems have the hypothesis
`~SpanMidnight`, and need it: section 7 tells what happens over midnight.

**InvoicingProofs** - for any terms, limit, usage, payments, missed days and
crashes: `InvoicesOK` and the action property `SuspendedOnlyPastDue`, both under
the hypothesis `OneJob`: the daily job does not overlap with itself.  Nothing takes
a lock, so the argument is about what a run of the job has read (`Fits`): whoever
is about to count or to issue found no invoice open and none has opened since,
because payments only close them; the list that dunning works from still says
how many days each invoice has left, because only the sync of the same job gives
fresh terms and no day passes while a job is at work; a listed invoice stays
open unless a payment marks it, which `settled` remembers (`Behind`); and
therefore an invoice with a verdict of "suspend" is past due, and open or paid
only since, when the verdict is carried out.  That the
balance stays under what the payments can have brought is linear only for a given
limit; two lemmas on products carry it.  With two overlapping jobs both theorems
are false (section 7).

**CallReportProofs** - what is said of a call: three modules, one after the
other.

For a team of any size: types, `OnlyFirstIsConnected`, `ReportsAreOrderly`,
`UnansweredCallerIsKept`.  The invariant `BridgeInv` adds that a handler exists
only for a winner and that only a handler past the join has answered
(`TakerInv`), and that the reports are one of five stories fixed by how far
handler and teardown have come (`StoryInv`).  The last is what makes "once"
inductive: the teardown passes its report once because `cleanedUp` is set before
the first await, and the handler passes its own once because `answeredId` is
never given back.  `CallerInv` carries `UnansweredCallerIsKept`: when the
teardown may drop the caller it has reported the end of an answered call, unless
the answer was belated (`TakenInv`, `CrossedInv`), and a caller whose hang-up is
on its way is down already (`GoneInv`).

For any reports of one call: `EndIsToldOnce`.  `LogInv` adds that a report
announces only an end (`AnnouncedInv`), that unless somebody has written an
older state over it a call that was announced stays finished and whoever reads
it later knows (`OverInv`), and that an end which was written is announced or
about to be (`ToldInv`).

For any events, endpoints and runs: `AttemptsAreKept`, `OneRequestAfterRemoval`
and the action property `SwitchedOffAfterFailuresInRow`.  `HooksInv` has two
halves.  One holds however runs overlap: the counter in the row, and every copy
a run has of it, is at most the requests made (`DeliveryInv`, `RunInv`), and a
run that has made its request to a removed endpoint is not about to send
another there (`RemovalInv`).  The other, `CountInv`, holds while no two are at
work on the same rows and none was cut short: then whoever is at work is alone
(`SoleInv`), the copies are exact, and failures are counted no higher than they
came.  The proof found a flaw in an earlier form of the model, which counted the
requests after a removal per run and not per endpoint: with two endpoints a run
may make one to each.

**LineProofs** - what callers share.

The line, for any callers and agents: types, `LineIsInOrder`,
`TurnsAreInOrder`.  The lemmas about `Without` say what leaving
does to a line without repetitions: it keeps everybody else, in order, and the
front unless the front left.  `QueueInv` is the conjunction of these
properties: that the line has exactly the holders, once each, is what makes
"the front is still the front" survive somebody else's leaving.  `JoinedInv`
ties the line to the history: everybody in it has joined once and stands behind
those who joined earlier; so the front is the earliest who still holds, and what
starts at the front starts in turn.

The channels and endpoints of the website, for any visitors, endpoints and channels: types,
`LeaseIsExclusive`, `WithinChannels`.  `GuestInv` adds
where a page can be (`PagesInv`), that the endpoint a browser is on, or about to
start a call on, is leased to its session unless it was stolen or the visitor
was hasty (`TableInv`), and that those between count and act, with what is made
or counted, fit into the channels until two are (`MadeInv`, `CountedInv`).  A
call that comes of age only lowers the count.  The cardinalities are those of the
library's theorems on finite sets.

**VoiceOtpProofs** - for any requests, guesses, caps and limits: `RateIsKept`,
`CodeIsGuarded`, `PasswordsOK`.  `OtpInv` says that a guess between its read and
its write is alone with its row, so that what it read still stands, unless the
password is in `raced` (`AloneInv`); that what the engine made of a call stands
once it is reported, unless the password is in `misled` (`LastWordInv`); and that at most one request
has counted and not written, and its place is kept, unless `crossed` (`RateInv`).

**Only model-checked**: all liveness.  Every safety property of a run is a theorem.
Liveness under fairness and ENABLED are out of the prover's reach.  So is
induction over data: that `floor` and the ledger's running total describe any
ledger is an invariant of the steps, not a fact about all sequences.  No module
declares a RECURSIVE operator.

## 6. Where code and comments part

Places where the model does what the code does and a comment of the repository
says otherwise.  TLC showed each as a counterexample while the models were
written; no run is kept for them, and the properties that are checked except
these cases and say so.

1. *A hang-up that nobody hears.*  The member answers, is joined, and hangs up
   while the engine is still hanging up the other legs one `await` at a time.
   The listener for this hang-up is registered after that loop
   (`bridge.ts:338`), so it is missed; the ring guard does nothing once
   `answeredId` is set.  The caller stays in a bridge with nobody, which
   `bridge.ts:298-300` sets out to avoid.
2. *A refill that does not clear the threshold.*  `auto-topup.ts:40-43` requires
   the refill to clear the threshold so that one trigger converges, and compares
   the gross.  In naira VAT is withheld: a refill of 23 is 21 net under a
   threshold of 22.  As only a crossing debit queues work, the wallet then runs
   dry without a refill.
3. *A number that cannot be bought again.*  The grace sweep frees a number "so
   anyone can rebuy it" (`numbers-grace.post.ts:4-5`); the purchase refuses any
   number that has a subscription row (`purchase.post.ts:88`), and the released
   row stays.
4. *Numbers of a closed workspace.*  The sweep stamps `cancelledAt` and
   `graceEndsAt` for the grace sweep (`closed-workspaces.post.ts:30-34`), which
   lists by `status = 'cancelled'`; the stamped rows are still `active` and are
   never returned.
5. *Paid and suspended.*  Dunning lists an overdue invoice; the customer pays,
   the settlement lifts the suspension and marks the invoice; dunning suspends
   (`invoicing.ts:171`).  The wallet is clear and nothing lifts the suspension
   (`wallet.ts:283-284`).
6. *An escalated call that is not charged.*  When a carrier's call is handed to
   an agent, the bridge logs "completed" on its row through `logCall`
   (`control-app/src/index.ts:660-663`).  The duration is not yet known, so the
   engine charges nothing; the carrier's own hang-up then finds the row already
   finished and charges nothing either (`server/utils/call-log.ts:169-171`),
   though "every carrier's completion passes through this function"
   (`:161-163`).
7. *Delivered to a phone that nobody answered.*  A very short call "never
   delivered a code, so it is reported as unanswered" (`otp-call.ts:76-86`), and
   the check is a duration of fifteen seconds (`:87-97`).  The clock starts when
   `originate` returns, before it rings; a phone that rings out for the default
   forty-five seconds is reported "delivered".
8. *A ghost in the line.*  A caller who has hung up is removed "at once, so the
   front of the line never becomes a ghost" (`queue.ts:77-78`).  The event only
   clears `alive`; the caller leaves the line at its next poll, and one who
   hangs up while the endpoints are looked up, when nobody listens yet
   (`queue.ts:98`), at the end of the longest wait.  Until then nobody behind it
   is offered an agent.
9. *A belated answer.*  A caller nobody answered "is deliberately kept alive to
   hear the unavailable message" (`bridge.ts:301-302`).  A member who answers
   while the teardown hangs up the other legs is taken and connected
   (`bridge.ts:324-333`), `wasAnswered` becomes true, and the teardown, which
   reported that nobody answered, hangs up on the caller (`303`).
10. *An end that does not end the call.*  A lease is never "taken mid-call and
    handed to someone else" (`widget-guest.ts:30-32`, `66-67`).  "End call" during
    the microphone prompt finds no call (`v1.js.get.ts:313`), the rating gives the
    endpoint back, another visitor claims it, and the first one's call starts
    (`217-269`): two browsers on one endpoint.  A prompt left open past the cron's
    hour does the same.
11. *Long conversations.*  The channels are "a real limit"
    (`channel-limits.ts:5-7`); a session that started over twenty minutes ago is
    not counted (`:31-37`), so one more call is let in beside it.

## 7. Observations

Seen while modelling.  Where a property would fail, its statement excludes the
case and says so.

* *Country change.*  `country.post.ts:4-6` checks an empty balance and writes the
  currency later; a credit in between changes currency by name only.  WalletTx
  has both steps.
* *VAT rate.*  A top-up webhook repeated after the rate changed finds its credit
  and throws instead of reporting a duplicate (`wallet.ts:175`, `218`).  No money
  moves, but the provider keeps retrying.
* *Simulated, then live.*  A purchase in sandbox takes the real number out of the
  pool and leaves an active subscription that nobody paid for, also after the
  workspace has gone live (`purchase.post.ts:79-124`); billing charges it from
  the next month on.  If it fails after its insert, the number is for sale again
  under that subscription (`125-127`).
* *Freed twice.*  A live purchase that is refused frees the number (`147`, `154`),
  throws into its own catch block and frees it again (`194`).  Another buyer may
  have claimed it in between and is left without it in the inventory.  The API
  does the same.  `loose` names both cases.
* *A released number.*  `release` accepts a row that is already released, and
  `reclaim` then makes it active while the inventory row is for sale or sold.
  `RentedIsOutOfPool` excludes numbers whose grace ended once.
* *Billed after release.*  Billing lists a number, its owner releases it, billing
  charges, or suspends, the entry it listed.
* *Free bridge legs.*  `bridge.ts:381` does not look at `cleanedUp` before
  originating, so legs may start to ring for a call that has been torn down.
* *Unanswered, then answered.*  If the caller leaves while the winner is being
  added, the teardown reports that nobody answered and the handler then reports
  an answer.  `ReportsAreOrderly` allows exactly this.
* *Overlapping daily jobs.*  With `Jobs = {j1, j2}` Invoicing breaks
  `AtMostOneOpen`: both count, both issue.  `SuspendedOnlyPastDue` breaks too:
  one lists a past-due invoice, the other gives it fresh terms, the first suspends.
* *Runs over midnight.*  With `SpanMidnight = TRUE` Billing breaks
  `ChargedOncePerCycle`: a run that started yesterday and one of today use
  different references for the same cycle.
* *Custom plans.*  A run that listed a plan when it was free writes the anchor it
  computed then (`billing.ts:164`) and may move it back over a cycle already
  charged.
* *Suspended by the fallback.*  The catch block of a number's charge suspends
  without reading again (`billing.ts:118`): also the number of a workspace that
  has topped up since, or that is postpaid (`billing.ts:72-73`).  No later run
  lists a suspended number and no payment reactivates it.
* *Reminders.*  They depend on exact day counts.  With terms of 2 days the
  workspace is warned once; with terms of 3 the first warning comes on the day of
  issue, when the job that issued the invoice goes on to chase it.
* *Uncertain for good.*  A worker that dies between claim and POST leaves an
  attempt no lookup finds.  Recovery never charges, so it stays open for an
  operator and blocks further refills; ChargeOnce has no step that ends it.
* *Newcomers and the line.*  A call that arrives when an agent has just become
  free is offered that agent without a look at the queue (`index.ts:390`, `938`);
  those who hold find out at their next poll.
* *Offered after hanging up.*  After the free agents were read nothing looks at
  `alive` again (`queue.ts:142-147`); dialling then fails, which is harmless.
* *Late endpoint.*  A page whose visitor ends the call while `/widget/voice-token`
  is being answered starts the call all the same (`v1.js.get.ts:193-195`), as in
  item 10 of section 6.  `hasty` names both.
* *Rated, then calling.*  If the answer of `/widget/call` is lost, the page shows
  the rating; a rating handled before the session is marked gives it an end, the
  mark makes it "calling" again (`call.post.ts:135-137`, which does not look at
  the status), and the cron passes over sessions with an end.
* *Placed but failed.*  The gateway's answer is waited for fifteen seconds
  (`otp-gateway.ts:67`); when it is lost the row says "failed" and the call goes
  on, uncharged.  A password in "failed" is still accepted by `verifyVoiceOtp`.
* *Dead branch.*  `control-app/src/index.ts:266` uses `chId` before its
  declaration; no caller of `originate` passes the argument that leads there.
* *Overlapping dispatch.*  Nothing claims a delivery, so two runs send it twice,
  and a slow run may write an older count over a newer one
  (`webhooks-out.ts:97-130`).

## 8. What is not modelled

Prices and currencies are small integers; integers are unbounded (PostgreSQL
rejects an overflow and rolls back, so no wrong balance is stored).  The
provider, Asterisk and people are external.  `bridgeToEndpoint` (one leg) and
the whisper, seats, sandbox ledger entries, wallet creation, the administrators'
number endpoints and Paystack's `reversed` are left out.  Of
the queue, the reaper of dead channels; of the widget, a second token request of
one page (which finds its own lease) and the limits on request rates; of the
passwords, codes supplied by the client and sandboxes.  Voice notifications are
not modelled: one row, one call, one report.  A delivery that waits thirty days
is pruned like any other; that none but a decided one is that old is not
assumed.  The whole of `server/api` that only reads, or writes one row from one
request, has no model, and so have the pages: they are most of the lines.
Components without a model, and the reason for each, are in `PROJECT.json`.

## 9. Plan

Done: WalletOps, Wallet, WalletTx, ChargeOnce, AutoTopup, NumberPool, Invoicing,
Billing, DeptBridge, CallQueue, CallLog, WidgetCalls, VoiceOtp, WebhooksOut, and
the proofs of section 5.  Order of what is left:

1. Models: seats in Billing; `bridgeToEndpoint` in DeptBridge; the engine's
   configuration cache; voice notifications.

The set of runs is kept small enough to be repeated on every change of the code.
