----------------------------- MODULE AutoTopup -----------------------------
(***************************************************************************)
(* Automatic wallet top-up: server/utils/auto-topup*.ts together with the  *)
(* wallet transactions that queue and withdraw its attempts.  A debit that *)
(* crosses the threshold queues an attempt in its own transaction.  A cron *)
(* worker claims a due attempt, asks the card provider once, and records   *)
(* the answer; recovery workers only ever look the charge up.  Webhooks    *)
(* repeat and reorder the provider's answers, processes crash between any  *)
(* two steps, leases lapse, and owners and operators change the terms.     *)
(*                                                                         *)
(* Transactions that take the wallet lock are one step here; WalletTx      *)
(* shows why they may be.  An attempt is named by the debit that triggered *)
(* it, as its idempotency key is (autoTopupAttemptKey).                    *)
(***************************************************************************)
EXTENDS Wallet, FiniteSets

CONSTANTS
  Triggers,    \* references of debits; each may trigger one attempt
  TopupRefs,   \* references of the customer's own top-ups
  TopupSizes,  \* gross amounts of those top-ups
  Plans,       \* settings an owner may ask for: [threshold, amount]
  Limit,       \* the credit limit an operator grants with postpaid
  VatRate,     \* thousandths
  Keys,        \* provider credentials, by fingerprint
  Workers,     \* concurrent tasks of the auto-topup cron endpoint
  None,
  MaxChanges   \* bound on owner and operator changes and on crashes

ASSUME AutoTopupAssumption ==
  /\ Triggers \cap TopupRefs = {} /\ Triggers \cup TopupRefs \subseteq Refs
  /\ TopupSizes \subseteq Nat \ {0}
  /\ Plans \subseteq [threshold : Nat \ {0}, amount : Nat \ {0}]
  /\ Limit \in Nat /\ VatRate \in Nat /\ MaxChanges \in Nat
  /\ None \notin Workers /\ None \notin Keys /\ None \notin Plans
  /\ {0, -Limit} \subseteq Floors
  /\ \A gross \in TopupSizes \cup {plan.amount : plan \in Plans},
        cur \in Currencies :
       LET vat == WalletCreditVat(cur, TRUE, gross, VatRate) IN
       [net |-> gross - vat, vat |-> vat] \in Credits

VARIABLES
  currency,    \* wallets.currency
  tenant,      \* postpaid, limit, suspended, and sandbox (a closed workspace)
  settings,    \* auto_topup_settings: enabled, plan, and the plan consented to
  card,        \* provider of the saved card
  apiKey,      \* the provider credentials in force
  status,      \* auto_topup_attempts.status, "none" before the row exists
  terms,       \* the attempt's amount and currency
  cardChanged, \* the card was replaced after the attempt was created
  sentKey,     \* credentialFingerprint, written with dispatchedAt
  token,       \* claimToken: the task that holds the claim
  waiting,     \* nextAttemptAt or leaseExpiresAt lies in the future
  payment,     \* payments.status of the attempt's payment row
  asked,       \* how often the provider was sent the charge (external)
  charge,      \* what became of it there (external)
  reported,    \* the outcomes the provider has ever reported (external)
  worker,      \* the tasks
  country,     \* the country handler: "idle", or "checked" before its write
  changes      \* owner and operator changes and crashes so far

ownerVars == <<currency, tenant, settings, card, apiKey, country>>
attemptVars == <<status, terms, cardChanged, sentKey, token, waiting, payment>>
providerVars == <<asked, charge, reported>>
vars == <<walletVars, ownerVars, attemptVars, providerVars, worker, changes>>

Unsent(r) == status[r] = "pending"
InFlight(r) == status[r] \in {"dispatching", "uncertain"}
Active(r) == Unsent(r) \/ InFlight(r) \/ status[r] = "needs_review"
Sent(r) == InFlight(r) \/ status[r] \in {"needs_review", "succeeded", "failed"}
Due(r) == Unsent(r) /\ ~waiting[r]

Task(pc, ref, key, seen) == [pc |-> pc, ref |-> ref, key |-> key, seen |-> seen]
Resting == Task("idle", None, None, "unknown")
Becomes(w, pc, seen) ==
  worker' = [worker EXCEPT ![w] = Task(pc, worker[w].ref, worker[w].key, seen)]
Rests(w) == worker' = [worker EXCEPT ![w] = Resting]

Init ==
  /\ WalletInit
  /\ currency \in Currencies
  /\ card = IF currency = "NGN" THEN "paystack" ELSE "stripe"
  /\ tenant = [postpaid |-> FALSE, limit |-> 0, suspended |-> FALSE,
               sandbox |-> FALSE]
  /\ \E plan \in Plans :
       /\ plan.amount > plan.threshold
       /\ settings = [enabled |-> TRUE, plan |-> plan, consent |-> plan]
  /\ apiKey \in Keys
  /\ status = [r \in Triggers |-> "none"]
  /\ terms = [r \in Triggers |-> [amount |-> 0, currency |-> "NGN"]]
  /\ cardChanged = [r \in Triggers |-> FALSE]
  /\ sentKey = [r \in Triggers |-> None]
  /\ token = [r \in Triggers |-> None]
  /\ waiting = [r \in Triggers |-> FALSE]
  /\ payment = [r \in Triggers |-> "none"]
  /\ asked = [r \in Triggers |-> 0]
  /\ charge = [r \in Triggers |-> "none"]
  /\ reported = [r \in Triggers |-> {}]
  /\ worker = [w \in Workers |-> Resting]
  /\ country = "idle"
  /\ changes = 0

-----------------------------------------------------------------------------
\* Mutant of Enqueues: an attempt that is already active is overlooked.
EnqueuesAnother(after) ==
  /\ ~tenant.postpaid /\ ~tenant.sandbox
  /\ settings.enabled /\ settings.plan.amount > settings.plan.threshold
  /\ CrossedThreshold(balance, after, settings.plan.threshold)
  /\ ProviderSupports(card, currency)

\* Does this debit queue an attempt?  Any active attempt already covers it.
Enqueues(after) ==
  /\ ~tenant.postpaid /\ ~tenant.sandbox
  /\ settings.enabled /\ settings.plan.amount > settings.plan.threshold
  /\ CrossedThreshold(balance, after, settings.plan.threshold)
  /\ ProviderSupports(card, currency)
  /\ \A q \in Triggers : ~Active(q)

\* Mutant of Spend: the debit commits whatever the balance is.
SpendAnyway(r, amount) ==
  /\ ~HasRow("debit", r)
  /\ balance' = balance - amount
  /\ ledger' = Append(ledger, Row("debit", amount, balance - amount, r))
  /\ UNCHANGED <<floor, ownerVars, attemptVars, providerVars, worker, changes>>

\* debitInTransaction: the wallet, its ledger row and the attempt, or nothing.
Spend(r, amount) ==
  LET after == balance - amount IN
  /\ ~HasRow("debit", r)
  /\ CanSpend(tenant, balance, amount)
  /\ balance' = after
  /\ ledger' = Append(ledger, Row("debit", amount, after, r))
  /\ IF Enqueues(after)
     THEN /\ status' = [status EXCEPT ![r] = "pending"]
          /\ terms' = [terms EXCEPT ![r] = [amount |-> settings.plan.amount,
                                            currency |-> currency]]
     ELSE UNCHANGED <<status, terms>>
  /\ UNCHANGED <<floor, ownerVars, cardChanged, sentKey, token, waiting,
                 payment, providerVars, worker, changes>>

\* cancelUnsentAutoTopups leaves an attempt with evidence of a dispatch alone.
Cancelled(r) == Unsent(r) /\ sentKey[r] = None /\ payment[r] \in {"none", "pending"}
WithdrawUnsent ==
  [q \in Triggers |-> IF Cancelled(q) THEN "cancelled" ELSE status[q]]

\* creditInTransaction's share: the split, the rows, and what they withdraw.
Receive(r, gross, statusIfLow, statusIfRecovered) ==
  LET vat == WalletCreditVat(currency, TRUE, gross, VatRate) IN
  /\ Credit(gross - vat, vat, r)
  /\ status' = IF balance + gross - vat >= settings.plan.threshold
               THEN statusIfRecovered ELSE statusIfLow
  /\ UNCHANGED floor

\* The customer tops the wallet up.
TopUp(r, gross) ==
  /\ Receive(r, gross, status, WithdrawUnsent)
  /\ UNCHANGED <<ownerVars, terms, cardChanged, sentKey, token, waiting,
                 payment, providerVars, worker, changes>>

-----------------------------------------------------------------------------
\* Owners and operators.  Each change counts against MaxChanges.
Changes == changes < MaxChanges /\ changes' = changes + 1

\* Mutant of SaveSettings: changed terms need no new consent.
SaveSettingsUnasked(plan, enabled, accepted) ==
  LET changed == plan # settings.plan
      needsConsent == enabled /\ (~settings.enabled \/ settings.consent = None)
  IN
  /\ Changes
  /\ plan.amount > plan.threshold
  /\ enabled => /\ ~tenant.sandbox /\ ~tenant.postpaid
                /\ ProviderSupports(card, currency)
  /\ needsConsent => accepted
  /\ settings' = [enabled |-> enabled, plan |-> plan,
                  consent |-> IF needsConsent THEN plan ELSE settings.consent]
  /\ status' = IF ~enabled \/ changed THEN WithdrawUnsent ELSE status
  /\ UNCHANGED <<walletVars, currency, tenant, card, apiKey, country, terms,
                 cardChanged, sentKey, token, waiting, payment, providerVars,
                 worker>>

\* saveAutoTopupSettings, with accepted = consentAccepted.
SaveSettings(plan, enabled, accepted) ==
  LET changed == plan # settings.plan
      needsConsent == enabled /\ (~settings.enabled \/ changed
                                    \/ settings.consent = None)
  IN
  /\ Changes
  /\ plan.amount > plan.threshold
  /\ enabled => /\ ~tenant.sandbox /\ ~tenant.postpaid
                /\ ProviderSupports(card, currency)
  /\ needsConsent => accepted
  /\ settings' = [enabled |-> enabled, plan |-> plan,
                  consent |-> IF needsConsent THEN plan ELSE settings.consent]
  /\ status' = IF ~enabled \/ changed THEN WithdrawUnsent ELSE status
  /\ UNCHANGED <<walletVars, currency, tenant, card, apiKey, country, terms,
                 cardChanged, sentKey, token, waiting, payment, providerVars,
                 worker>>

\* DELETE /api/wallet/auto-topup
Disable ==
  /\ Changes
  /\ settings' = [settings EXCEPT !.enabled = FALSE]
  /\ status' = WithdrawUnsent
  /\ UNCHANGED <<walletVars, currency, tenant, card, apiKey, country, terms,
                 cardChanged, sentKey, token, waiting, payment, providerVars,
                 worker>>

\* saveVerifiedPaymentMethod replaces the one card in place.
ReplaceCard(provider) ==
  /\ Changes
  /\ card' = provider
  /\ cardChanged' = [r \in Triggers |-> status[r] # "none"]
  /\ UNCHANGED <<walletVars, currency, tenant, settings, apiKey, country,
                 status, terms, sentKey, token, waiting, payment, providerVars,
                 worker>>

\* Operators change the terms, dunning suspends, the last member closes.
SetTenant(postpaid, suspended, sandbox) ==
  /\ Changes
  /\ tenant' = [postpaid |-> postpaid, limit |-> IF postpaid THEN Limit ELSE 0,
                suspended |-> suspended, sandbox |-> sandbox]
  /\ tenant' # tenant
  /\ Grant(Floor(tenant'))
  /\ UNCHANGED <<currency, settings, card, apiKey, country, attemptVars,
                 providerVars, worker>>

\* The platform's provider credentials are rotated.
RotateKey(key) ==
  /\ Changes
  /\ key # apiKey /\ apiKey' = key
  /\ UNCHANGED <<walletVars, currency, tenant, settings, card, country,
                 attemptVars, providerVars, worker>>

\* POST country: the balance is checked, and the currency written later.
CheckCountry ==
  /\ Changes
  /\ country = "idle" /\ balance <= 0 /\ country' = "checked"
  /\ UNCHANGED <<walletVars, currency, tenant, settings, card, apiKey,
                 attemptVars, providerVars, worker>>
WriteCountry ==
  /\ country = "checked" /\ country' = "idle"
  /\ currency' = IF currency = "NGN" THEN "USD" ELSE "NGN"
  /\ UNCHANGED <<walletVars, tenant, settings, card, apiKey, attemptVars,
                 providerVars, worker, changes>>

OwnerOrOperator ==
  \/ \E plan \in Plans, enabled, accepted \in BOOLEAN :
       SaveSettings(plan, enabled, accepted)
  \/ Disable
  \/ \E provider \in {"paystack", "stripe"} : ReplaceCard(provider)
  \/ \E postpaid, suspended, sandbox \in BOOLEAN :
       SetTenant(postpaid, suspended, sandbox)
  \/ \E key \in Keys : RotateKey(key)
  \/ CheckCountry \/ WriteCountry

-----------------------------------------------------------------------------
\* The charge phase of executeAutoTopups: a due row is listed and the
\* credentials are read, both before the claim.
Pick(w, r) ==
  /\ worker[w].pc = "idle" /\ Due(r)
  /\ worker' = [worker EXCEPT ![w] = Task("picked", r, apiKey, "unknown")]
  /\ UNCHANGED <<walletVars, ownerVars, attemptVars, providerVars, changes>>

\* The wallet row is locked (skipLocked), or preparing the charge failed,
\* which puts a row that is still due off.
GiveUp(w, failed) ==
  LET r == worker[w].ref IN
  /\ worker[w].pc = "picked"
  /\ waiting' = IF failed /\ Due(r) THEN [waiting EXCEPT ![r] = TRUE] ELSE waiting
  /\ Rests(w)
  /\ UNCHANGED <<walletVars, ownerVars, status, terms, cardChanged, sentKey,
                 token, payment, providerVars, changes>>

\* No reason to cancel: autoTopupCancellationReason and the claim's own ones.
Wanted(r) ==
  /\ settings.enabled /\ settings.consent # None
  /\ ~tenant.sandbox /\ ~tenant.postpaid /\ ~tenant.suspended
  /\ settings.plan.amount > settings.plan.threshold
  /\ settings.plan.amount = terms[r].amount
  /\ currency = terms[r].currency
  /\ balance < settings.plan.threshold
  /\ ProviderSupports(card, currency) /\ ~cardChanged[r]

\* A row that already carries evidence of a dispatch is not dispatched again.
Evidence(r) == sentKey[r] # None \/ payment[r] \in {"succeeded", "failed"}

\* Mutant of Claim: the row is not read again under the lock.
ClaimUnread(w) ==
  LET r == worker[w].ref IN
  /\ worker[w].pc = "picked" /\ Wanted(r)
  /\ status' = [status EXCEPT ![r] = "dispatching"]
  /\ payment' = [payment EXCEPT ![r] = "pending"]
  /\ sentKey' = [sentKey EXCEPT ![r] = worker[w].key]
  /\ token' = [token EXCEPT ![r] = w]
  /\ waiting' = [waiting EXCEPT ![r] = TRUE]
  /\ Becomes(w, "claimed", "unknown")
  /\ UNCHANGED <<walletVars, ownerVars, terms, cardChanged, providerVars, changes>>

\* claimAutoTopupForCharge
Claim(w) ==
  LET r == worker[w].ref
      dispatches == Due(r) /\ ~Evidence(r) /\ Wanted(r) IN
  /\ worker[w].pc = "picked"
  /\ status' = IF ~Due(r) THEN status
               ELSE [status EXCEPT ![r] = IF Evidence(r) THEN "needs_review"
                                          ELSE IF Wanted(r) THEN "dispatching"
                                          ELSE "cancelled"]
  /\ IF dispatches
     THEN /\ payment' = [payment EXCEPT ![r] = "pending"]
          /\ sentKey' = [sentKey EXCEPT ![r] = worker[w].key]
          /\ token' = [token EXCEPT ![r] = w]
          /\ waiting' = [waiting EXCEPT ![r] = TRUE]
          /\ Becomes(w, "claimed", "unknown")
     ELSE /\ UNCHANGED <<payment, sentKey, token, waiting>>
          /\ Rests(w)
  /\ UNCHANGED <<walletVars, ownerVars, terms, cardChanged, providerVars, changes>>

\* dispatchProviderCharge: the POST leaves, and the answer or a timeout comes.
Post(w) ==
  /\ worker[w].pc = "claimed"
  /\ asked' = [asked EXCEPT ![worker[w].ref] = @ + 1]
  /\ Becomes(w, "posted", "unknown")
  /\ UNCHANGED <<walletVars, ownerVars, attemptVars, charge, reported, changes>>

Answer(w, outcome) ==
  /\ worker[w].pc = "posted"
  /\ outcome \in reported[worker[w].ref] \cup {"unknown"}
  /\ Becomes(w, "answered", outcome)
  /\ UNCHANGED <<walletVars, ownerVars, attemptVars, providerVars, changes>>

\* Mutant of RecoverClaim: a claim whose worker died before it answered is
\* never taken over.
RecoverUncertain(w, r) ==
  /\ worker[w].pc = "idle"
  /\ status[r] = "uncertain" /\ ~waiting[r]
  /\ token' = [token EXCEPT ![r] = w]
  /\ waiting' = [waiting EXCEPT ![r] = TRUE]
  /\ worker' = [worker EXCEPT ![w] = Task("looking", r, None, "unknown")]
  /\ UNCHANGED <<walletVars, ownerVars, status, terms, cardChanged, sentKey,
                 payment, providerVars, changes>>

\* claimAutoTopupRecovery: a lapsed claim is taken over, for looking only.
RecoverClaim(w, r) ==
  /\ worker[w].pc = "idle"
  /\ InFlight(r) /\ ~waiting[r]
  /\ token' = [token EXCEPT ![r] = w]
  /\ waiting' = [waiting EXCEPT ![r] = TRUE]
  /\ worker' = [worker EXCEPT ![w] = Task("looking", r, None, "unknown")]
  /\ UNCHANGED <<walletVars, ownerVars, status, terms, cardChanged, sentKey,
                 payment, providerVars, changes>>

\* verifyProviderCharge: the last report, or nothing conclusive.  The charge
\* is looked up only in the account that was asked for it.
Outcome(r) ==
  CASE charge[r] = "none" -> "unknown"
    [] charge[r] = "processing" -> "pending"
    [] charge[r] = "declined" -> "failed"
    [] charge[r] = "captured" -> "succeeded"

LookUp(w, outcome) ==
  LET r == worker[w].ref IN
  /\ worker[w].pc = "looking"
  /\ outcome \in {Outcome(r), "unknown"}
  /\ IF apiKey = sentKey[r] THEN Becomes(w, "answered", outcome)
     ELSE Becomes(w, "marking", "unknown")
  /\ UNCHANGED <<walletVars, ownerVars, attemptVars, providerVars, changes>>

\* settleAutoTopupObservation.  It throws, changing nothing, for an attempt
\* that was not dispatched or when the wallet's currency is another one.
Settles(r) == Sent(r) /\ currency = terms[r].currency
Ignores(r, outcome) ==
  \/ outcome # "succeeded" /\ "succeeded" \in {status[r], payment[r]}
  \/ outcome = "pending" /\ status[r] = "failed"

\* Mutant of SettleSuccess: the payment row is forgotten.
SettleSuccessUnpaid(r) ==
  /\ IF HasRow("credit", r)
     THEN /\ status' = [status EXCEPT ![r] = "succeeded"]
          /\ UNCHANGED walletVars
     ELSE Receive(r, terms[r].amount,
                  [status EXCEPT ![r] = "succeeded"],
                  [WithdrawUnsent EXCEPT ![r] = "succeeded"])
  /\ waiting' = [waiting EXCEPT ![r] = FALSE]
  /\ UNCHANGED payment

SettleSuccess(r) ==
  /\ IF HasRow("credit", r)
     THEN /\ status' = [status EXCEPT ![r] = "succeeded"]
          /\ UNCHANGED walletVars
     ELSE Receive(r, terms[r].amount,
                  [status EXCEPT ![r] = "succeeded"],
                  [WithdrawUnsent EXCEPT ![r] = "succeeded"])
  /\ payment' = [payment EXCEPT ![r] = "succeeded"]
  /\ waiting' = [waiting EXCEPT ![r] = FALSE]

SettleFailure(r) ==
  /\ status' = [status EXCEPT ![r] = "failed"]
  /\ payment' = [payment EXCEPT ![r] = "failed"]
  /\ waiting' = [waiting EXCEPT ![r] = FALSE]
  /\ UNCHANGED walletVars

SettlePending(r) ==
  /\ status' = [status EXCEPT ![r] = "uncertain"]
  /\ waiting' = [waiting EXCEPT ![r] = TRUE]
  /\ UNCHANGED <<walletVars, payment>>

Settle(r, outcome) ==
  /\ \/ outcome = "succeeded" /\ SettleSuccess(r)
     \/ outcome = "failed" /\ SettleFailure(r)
     \/ outcome = "pending" /\ SettlePending(r)
  /\ token' = [token EXCEPT ![r] = None]
  /\ UNCHANGED <<ownerVars, terms, cardChanged, sentKey, providerVars, changes>>

\* recordResult: settle, or go on to mark the attempt uncertain.
Record(w) ==
  LET r == worker[w].ref
      outcome == worker[w].seen IN
  /\ worker[w].pc = "answered"
  /\ IF outcome = "unknown" \/ ~Settles(r) \/ Ignores(r, outcome)
     THEN /\ Becomes(w, "marking", "unknown")
          /\ UNCHANGED <<walletVars, ownerVars, attemptVars, providerVars, changes>>
     ELSE Settle(r, outcome) /\ Rests(w)

\* markAutoTopupUncertain: only the holder of the claim may write.
Mark(w) ==
  LET r == worker[w].ref IN
  /\ worker[w].pc = "marking"
  /\ IF token[r] = w /\ InFlight(r)
     THEN /\ status' = [status EXCEPT ![r] = "uncertain"]
          /\ token' = [token EXCEPT ![r] = None]
          /\ waiting' = [waiting EXCEPT ![r] = TRUE]
     ELSE UNCHANGED <<status, token, waiting>>
  /\ Rests(w)
  /\ UNCHANGED <<walletVars, ownerVars, terms, cardChanged, sentKey, payment,
                 providerVars, changes>>

\* reconcileAutoTopupWebhook: any outcome ever reported, any number of times.
\* Paystack's endpoint listens to successes only.
Webhook(r, outcome) ==
  /\ outcome \in reported[r]
  /\ terms[r].currency = "NGN" => outcome = "succeeded"
  /\ Settles(r) /\ ~Ignores(r, outcome)
  /\ Settle(r, outcome)
  /\ UNCHANGED worker

Crash(w) ==
  /\ Changes
  /\ worker[w].pc # "idle" /\ Rests(w)
  /\ UNCHANGED <<walletVars, ownerVars, attemptVars, providerVars>>

\* A lease or a retry delay runs out.
Lapse(r) ==
  /\ waiting[r] /\ waiting' = [waiting EXCEPT ![r] = FALSE]
  /\ UNCHANGED <<walletVars, ownerVars, status, terms, cardChanged, sentKey,
                 token, payment, providerVars, worker, changes>>

-----------------------------------------------------------------------------
\* The provider (external).  A charge it was asked for may arrive late or
\* never; a Stripe intent reported as failed may still be completed.
Moves(r, to) ==
  \/ charge[r] = "none" /\ asked[r] > 0 /\ to = "processing"
  \/ charge[r] = "processing" /\ to \in {"captured", "declined"}
  \/ charge[r] = "declined" /\ to = "captured" /\ terms[r].currency = "USD"

Provider(r, to) ==
  /\ Moves(r, to)
  /\ charge' = [charge EXCEPT ![r] = to]
  /\ reported' = [reported EXCEPT ![r] = @ \cup
       {IF to = "processing" THEN "pending"
        ELSE IF to = "declined" THEN "failed" ELSE "succeeded"}]
  /\ UNCHANGED <<walletVars, ownerVars, attemptVars, asked, worker, changes>>

Outcomes == {"pending", "failed", "succeeded"}

Next ==
  \/ \E r \in Triggers, amount \in Debits : Spend(r, amount)
  \/ \E r \in TopupRefs, gross \in TopupSizes : TopUp(r, gross)
  \/ OwnerOrOperator
  \/ \E w \in Workers :
       \/ \E r \in Triggers : Pick(w, r) \/ RecoverClaim(w, r)
       \/ \E failed \in BOOLEAN : GiveUp(w, failed)
       \/ Claim(w) \/ Post(w) \/ Record(w) \/ Mark(w) \/ Crash(w)
       \/ \E outcome \in Outcomes \cup {"unknown"} :
            Answer(w, outcome) \/ LookUp(w, outcome)
  \/ \E r \in Triggers :
       \/ \E outcome \in Outcomes : Webhook(r, outcome)
       \/ \E to \in {"processing", "captured", "declined"} : Provider(r, to)
       \/ Lapse(r)

Spec == Init /\ [][Next]_vars

(* The cron fires every minute and its tasks run to their end; retry delays
   run out; the provider answers a lookup conclusively again and again, and
   the wallet lock is free again and again when a worker wants it.  Nothing
   is assumed of webhooks, owners or the provider's decision. *)
FairSpec ==
  /\ Spec
  /\ \A r \in Triggers :
       /\ WF_vars(Lapse(r))
       /\ SF_vars(\E w \in Workers : RecoverClaim(w, r))
       /\ SF_vars(\E w \in Workers : Pick(w, r))
       /\ SF_vars(\E w \in Workers :
                    worker[w].ref = r /\ LookUp(w, Outcome(r)))
       /\ SF_vars(\E w \in Workers :
                    worker[w].ref = r /\ Due(r) /\ Claim(w))
  /\ \A w \in Workers :
       /\ WF_vars(Post(w)) /\ WF_vars(Answer(w, "unknown"))
       /\ WF_vars(Record(w)) /\ WF_vars(Mark(w))

-----------------------------------------------------------------------------
AttemptStatus == {"none", "pending", "dispatching", "uncertain",
                  "needs_review", "succeeded", "failed", "cancelled"}
Tasks == [pc : {"idle", "picked", "claimed", "posted", "answered", "looking",
                "marking"},
          ref : Triggers \cup {None}, key : Keys \cup {None},
          seen : Outcomes \cup {"unknown"}]

AutoTopupTypeOK ==
  /\ WalletTypeOK
  /\ currency \in Currencies
  /\ tenant \in [postpaid : BOOLEAN, limit : Nat, suspended : BOOLEAN,
                 sandbox : BOOLEAN]
  /\ settings \in [enabled : BOOLEAN, plan : Plans, consent : Plans \cup {None}]
  /\ card \in {"paystack", "stripe"}
  /\ apiKey \in Keys
  /\ status \in [Triggers -> AttemptStatus]
  /\ terms \in [Triggers -> [amount : Nat, currency : Currencies]]
  /\ cardChanged \in [Triggers -> BOOLEAN]
  /\ sentKey \in [Triggers -> Keys \cup {None}]
  /\ token \in [Triggers -> Workers \cup {None}]
  /\ waiting \in [Triggers -> BOOLEAN]
  /\ payment \in [Triggers -> {"none", "pending", "succeeded", "failed"}]
  /\ asked \in [Triggers -> Nat]
  /\ charge \in [Triggers -> {"none", "processing", "captured", "declined"}]
  /\ reported \in [Triggers -> SUBSET Outcomes]
  /\ worker \in [Workers -> Tasks]
  /\ country \in {"idle", "checked"}
  /\ changes \in 0 .. MaxChanges

(* The workers, leases and webhooks implement the promise of ChargeOnce: one
   open charge, one POST, a credit only for captured money and only once, and
   no charge that was withdrawn. *)
StageOf(r) ==
  CASE status[r] = "none" -> "none"
    [] status[r] = "pending" -> "queued"
    [] status[r] = "cancelled" -> "withdrawn"
    [] status[r] = "failed" -> "refused"
    [] status[r] = "succeeded" -> "settled"
    [] OTHER -> "submitted"
Promise == INSTANCE ChargeOnce
  WITH stage <- [r \in Triggers |-> StageOf(r)],
       posts <- asked,
       captured <- {r \in Triggers : charge[r] = "captured"},
       credited <- {r \in Triggers : HasRow("credit", r)}
ImplementsChargeOnce == Promise!ChargeSpec

(* Every committed step, whoever takes it, is one movement of the wallet that
   Wallet promises: queueing and withdrawing attempts never bends the ledger. *)
KeepsWalletPromise == WalletSpec

(* The wallet credit, the payment row and the attempt close together
   (auto-topup-executor.ts:71): no crash, webhook or late answer separates
   them. *)
SettledTogether ==
  \A r \in Triggers :
    /\ status[r] = "succeeded" <=> payment[r] = "succeeded"
    /\ status[r] = "succeeded" <=> HasRow("credit", r)
    /\ status[r] = "failed" <=> payment[r] = "failed"

(* The claim's own evidence checks never find anything: no attempt that is
   still unsent carries a trace of a dispatch, so none goes to review. *)
UnsentLeavesNoTrace ==
  \A r \in Triggers :
    /\ status[r] # "needs_review"
    /\ Unsent(r) \/ status[r] = "cancelled" =>
         sentKey[r] = None /\ payment[r] = "none" /\ asked[r] = 0

(* Attempt, payment row, ledger and provider never disagree about what has
   happened to a charge (auto-topup-executor.ts:71). *)
AttemptsOK == AutoTopupTypeOK /\ SettledTogether /\ UnsentLeavesNoTrace

(* When a charge is let go, the owner's last consent is to this very amount
   and to the threshold the wallet is below at that moment, whatever was
   changed between the trigger and the claim. *)
ChargesWhatWasConsented ==
  [][\A r \in Triggers :
       status[r] = "pending" /\ status'[r] = "dispatching" =>
         /\ settings.enabled /\ settings.consent = settings.plan
         /\ settings.plan.amount = terms[r].amount
         /\ balance < settings.plan.threshold]_vars

(* Polling alone notices every capture: the money reaches the wallet although
   every webhook is lost, unless the attempt had been closed by a failure the
   provider took back, or the workspace's currency or the platform's
   credentials are no longer those of the charge. *)
CaptureIsNoticed ==
  \A r \in Triggers :
    charge[r] = "captured" ~>
      \/ HasRow("credit", r) \/ status[r] = "failed"
      \/ currency # terms[r].currency \/ apiKey # sentKey[r]
=============================================================================
