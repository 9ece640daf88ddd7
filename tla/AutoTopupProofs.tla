--------------------------- MODULE AutoTopupProofs ---------------------------
(***************************************************************************)
(* The attempts, workers, leases and webhooks implement both promises: the *)
(* one of ChargeOnce about the card and the one of Wallet about the money, *)
(* for any number of debits, tasks, credentials, plans and owner changes.  *)
(*                                                                         *)
(* The argument.  Evidence of a dispatch (the credentials, the payment     *)
(* row) is written in the transaction that leaves "pending" and never      *)
(* before, so an unsent attempt was never asked for and may be withdrawn.  *)
(* Only the task that made this transition posts, once, and until it does  *)
(* there is no report that anybody could settle on.  A report of success   *)
(* means that the provider has the money, for good.                        *)
(***************************************************************************)
EXTENDS AutoTopup, TLAPS

USE DEF AttemptStatus, Tasks

\* One attempt: its row, its payment, its ledger rows and the provider.
AttemptInv(r) ==
  /\ status[r] # "needs_review"
  /\ status[r] # "none" =>
       HasRow("debit", r) /\ \E plan \in Plans : terms[r].amount = plan.amount
  /\ status[r] \in {"none", "pending", "cancelled"} =>
       sentKey[r] = None /\ payment[r] = "none" /\ asked[r] = 0
  /\ status[r] = "succeeded" <=> payment[r] = "succeeded"
  /\ status[r] = "succeeded" <=> HasRow("credit", r)
  /\ status[r] = "failed" <=> payment[r] = "failed"

\* The provider's side of it: nothing is reported that was not asked for, and
\* success is reported exactly when the money is there.
ReportInv(r) ==
  /\ asked[r] \in {0, 1}
  /\ asked[r] = 0 => charge[r] = "none"
  /\ charge[r] = "none" => reported[r] = {}
  /\ charge[r] # "none" => Outcome(r) \in reported[r]
  /\ "succeeded" \in reported[r] <=> charge[r] = "captured"
  /\ HasRow("credit", r) => charge[r] = "captured"

OneActive == \A q, r \in Triggers : Active(q) /\ Active(r) => q = r

\* A task that may still post is the only one, and nobody has posted yet; a
\* task that got an answer got one that was given.
WorkerInv ==
  \A w \in Workers :
    LET r == worker[w].ref IN
    /\ worker[w].pc # "idle" => r \in Triggers
    /\ worker[w].pc = "claimed" =>
         /\ InFlight(r) /\ asked[r] = 0
         /\ \A v \in Workers : worker[v].pc = "claimed" /\ worker[v].ref = r => v = w
    /\ worker[w].pc = "answered" =>
         worker[w].seen \in reported[r] \cup {"unknown"}

\* Settings that are on carry a consent to what they say.
ConsentInv == settings.enabled => settings.consent = settings.plan

\* The terms in force allow no less than the lowest floor remembered.
FloorInv == floor <= Floor(tenant)

TopupInv ==
  /\ AutoTopupTypeOK
  /\ \A r \in Triggers : AttemptInv(r) /\ ReportInv(r)
  /\ OneActive /\ WorkerInv /\ ConsentInv /\ FloorInv

\* What a step of the model is, seen through the two promises.
Implements == [Promise!ChargeNext]_(Promise!chargeVars) /\ [WalletNext]_walletVars

LEMMA InitTopup == Init => TopupInv
<1> SUFFICES ASSUME Init PROVE TopupInv
  OBVIOUS
<1> USE AutoTopupAssumption DEF Init
<1>1. WalletTypeOK
  BY DEF WalletInit, WalletTypeOK
<1>2. AutoTopupTypeOK
  BY <1>1 DEF AutoTopupTypeOK, Resting, Task, Currencies, Outcomes
<1>3. ASSUME NEW r \in Triggers PROVE AttemptInv(r) /\ ReportInv(r)
  BY DEF AttemptInv, ReportInv, HasRow, WalletInit
<1>4. OneActive /\ WorkerInv /\ ConsentInv /\ FloorInv
  BY DEF OneActive, Active, Unsent, InFlight, WorkerInv, Resting, Task,
         ConsentInv, FloorInv, Floor, WalletInit
<1>5. QED BY <1>2, <1>3, <1>4 DEF TopupInv

LEMMA InitPromises == Init => Promise!ChargeInit /\ WalletInit
<1> SUFFICES ASSUME Init PROVE Promise!ChargeInit
  BY DEF Init
<1>1. /\ \A r \in Triggers : StageOf(r) = "none" /\ ~HasRow("credit", r)
      /\ \A r \in Triggers : charge[r] # "captured"
      /\ asked = [r \in Triggers |-> 0]
  BY DEF Init, StageOf, HasRow, WalletInit
<1>2. QED BY <1>1 DEF Promise!ChargeInit

-----------------------------------------------------------------------------
\* Lemmas about the wallet: its types, and who has a row after a step.
LEMMA WalletTypeNext ==
  ASSUME TopupInv, [WalletNext]_walletVars PROVE WalletTypeOK'
<1> USE WalletAssumption DEF TopupInv, AutoTopupTypeOK, WalletTypeOK
<1>1. ASSUME NEW amount \in Debits, NEW ref \in Refs, Debit(amount, ref),
             UNCHANGED floor
      PROVE  WalletTypeOK'
  <2>1. Row("debit", amount, balance - amount, ref) \in Rows
    BY DEF Row, Rows, Kinds
  <2>2. QED BY <1>1, <2>1 DEF Debit
<1>2. ASSUME NEW c \in Credits, NEW ref \in Refs, Credit(c.net, c.vat, ref),
             UNCHANGED floor
      PROVE  WalletTypeOK'
  <2>1. c.net \in Nat /\ c.vat \in Nat
    OBVIOUS
  <2>2. /\ Row("credit", c.net, balance + c.net, ref) \in Rows
        /\ Row("vat", c.vat, balance + c.net, ref) \in Rows
    BY <2>1 DEF Row, Rows, Kinds
  <2>3. CreditRows(c.net, c.vat, ref) \in Seq(Rows)
    BY <2>2 DEF CreditRows
  <2>4. QED BY <1>2, <2>1, <2>3 DEF Credit
<1>3. ASSUME NEW low \in Floors, Grant(low) PROVE WalletTypeOK'
  BY <1>3 DEF Grant
<1>4. CASE UNCHANGED walletVars
  BY <1>4 DEF walletVars
<1>5. QED BY <1>1, <1>2, <1>3, <1>4 DEF WalletNext

LEMMA DebitRows ==
  ASSUME WalletTypeOK, NEW row \in Rows, row.kind = "debit",
         ledger' = Append(ledger, row)
  PROVE  \A x : /\ HasRow("credit", x)' <=> HasRow("credit", x)
                /\ HasRow("debit", x)' <=> HasRow("debit", x) \/ x = row.ref
<1>1. /\ Len(ledger') = Len(ledger) + 1 /\ Len(ledger) \in Nat
      /\ ledger'[Len(ledger) + 1] = row
      /\ \A i \in 1 .. Len(ledger) : ledger'[i] = ledger[i]
  BY DEF WalletTypeOK
<1>2. QED BY <1>1 DEF HasRow

LEMMA CreditedRows ==
  ASSUME WalletTypeOK, NEW net \in Nat, NEW vat \in Nat, NEW r \in Refs,
         Credit(net, vat, r)
  PROVE  \A x : /\ HasRow("credit", x)' <=> HasRow("credit", x) \/ x = r
                /\ HasRow("debit", x)' <=> HasRow("debit", x)
<1> DEFINE credit == Row("credit", net, balance + net, r)
           tax == Row("vat", vat, balance + net, r)
<1>1. /\ credit \in Rows /\ tax \in Rows
      /\ credit.kind = "credit" /\ credit.ref = r /\ tax.kind = "vat"
      /\ ledger' = ledger \o IF vat > 0 THEN <<credit, tax>> ELSE <<credit>>
  BY DEF Row, Rows, Kinds, WalletTypeOK, Credit, CreditRows
<1> HIDE DEF credit, tax
<1>2. CASE vat > 0
  <2>1. /\ Len(ledger') = Len(ledger) + 2 /\ Len(ledger) \in Nat
        /\ ledger'[Len(ledger) + 1] = credit /\ ledger'[Len(ledger) + 2] = tax
        /\ \A i \in 1 .. Len(ledger) : ledger'[i] = ledger[i]
    BY <1>1, <1>2 DEF WalletTypeOK
  <2>2. \A i \in 1 .. Len(ledger') :
          \/ i \in 1 .. Len(ledger) /\ ledger'[i] = ledger[i]
          \/ ledger'[i] \in {credit, tax}
    BY <2>1
  <2>3. /\ Len(ledger) + 1 \in 1 .. Len(ledger')
        /\ 1 .. Len(ledger) \subseteq 1 .. Len(ledger')
    BY <2>1
  <2>4. \A x : HasRow("credit", x)' <=> HasRow("credit", x) \/ x = r
    BY <1>1, <2>1, <2>2, <2>3 DEF HasRow
  <2>5. \A x : HasRow("debit", x)' <=> HasRow("debit", x)
    BY <1>1, <2>1, <2>2, <2>3 DEF HasRow
  <2>6. QED BY <2>4, <2>5
<1>3. CASE ~(vat > 0)
  <2>1. /\ Len(ledger') = Len(ledger) + 1 /\ Len(ledger) \in Nat
        /\ ledger'[Len(ledger) + 1] = credit
        /\ \A i \in 1 .. Len(ledger) : ledger'[i] = ledger[i]
    BY <1>1, <1>3 DEF WalletTypeOK
  <2>2. \A i \in 1 .. Len(ledger') :
          \/ i \in 1 .. Len(ledger) /\ ledger'[i] = ledger[i]
          \/ ledger'[i] = credit
    BY <2>1
  <2>3. /\ Len(ledger) + 1 \in 1 .. Len(ledger')
        /\ 1 .. Len(ledger) \subseteq 1 .. Len(ledger')
    BY <2>1
  <2>4. \A x : HasRow("credit", x)' <=> HasRow("credit", x) \/ x = r
    BY <1>1, <2>1, <2>2, <2>3 DEF HasRow
  <2>5. \A x : HasRow("debit", x)' <=> HasRow("debit", x)
    BY <1>1, <2>1, <2>2, <2>3 DEF HasRow
  <2>6. QED BY <2>4, <2>5
<1>4. QED BY <1>2, <1>3

-----------------------------------------------------------------------------
\* Lemmas about the mapping.  A step is a stutter of ChargeOnce when every
\* attempt stays in its stage and nothing is asked, captured or credited.
LEMMA SameStage ==
  ASSUME \A r \in Triggers : StageOf(r)' = StageOf(r),
         \A r \in Triggers : HasRow("credit", r)' <=> HasRow("credit", r),
         \A r \in Triggers : charge'[r] = "captured" <=> charge[r] = "captured",
         UNCHANGED asked
  PROVE  UNCHANGED Promise!chargeVars
<1>1. [r \in Triggers |-> StageOf(r)]' = [r \in Triggers |-> StageOf(r)]
  OBVIOUS
<1>2. /\ {r \in Triggers : charge[r] = "captured"}'
           = {r \in Triggers : charge[r] = "captured"}
      /\ {r \in Triggers : HasRow("credit", r)}'
           = {r \in Triggers : HasRow("credit", r)}
  OBVIOUS
<1>3. QED BY <1>1, <1>2 DEF Promise!chargeVars

\* One attempt moves to another stage, and nothing else happens.
LEMMA StageMoves ==
  ASSUME NEW r \in Triggers, NEW to,
         StageOf(r)' = to,
         \A q \in Triggers \ {r} : StageOf(q)' = StageOf(q),
         \A q \in Triggers : HasRow("credit", q)' <=> HasRow("credit", q),
         UNCHANGED <<asked, charge>>,
         \/ StageOf(r) = "none" /\ to = "queued"
              /\ \A q \in Triggers : StageOf(q) \notin {"queued", "submitted"}
         \/ StageOf(r) = "queued" /\ to \in {"withdrawn", "submitted"}
         \/ StageOf(r) = "submitted" /\ to = "refused" /\ asked[r] = 1
  PROVE  Promise!ChargeNext
<1> DEFINE Stage == [q \in Triggers |-> StageOf(q)]
<1>1. /\ Stage' = [Stage EXCEPT ![r] = to] /\ Stage[r] = StageOf(r)
      /\ {q \in Triggers : charge[q] = "captured"}'
           = {q \in Triggers : charge[q] = "captured"}
      /\ {q \in Triggers : HasRow("credit", q)}'
           = {q \in Triggers : HasRow("credit", q)}
  OBVIOUS
<1>2. \/ Promise!Queue(r) \/ Promise!Withdraw(r) \/ Promise!Submit(r)
      \/ Promise!Refuse(r)
  BY <1>1 DEF Promise!Queue, Promise!Withdraw, Promise!Submit, Promise!Refuse,
              Promise!Open
<1>3. QED BY <1>2 DEF Promise!ChargeNext

-----------------------------------------------------------------------------
\* Steps that leave the ledger, the attempts' rows and the provider alone.
LEMMA ObserverStep ==
  ASSUME TopupInv,
         UNCHANGED <<ledger, status, terms, sentKey, payment, asked, charge,
                     reported>>
  PROVE  /\ \A r \in Triggers : AttemptInv(r)' /\ ReportInv(r)'
         /\ OneActive'
         /\ UNCHANGED Promise!chargeVars
<1>1. \A k, x : HasRow(k, x)' <=> HasRow(k, x)
  BY DEF HasRow
<1>2. ASSUME NEW r \in Triggers PROVE AttemptInv(r)' /\ ReportInv(r)'
  BY <1>1 DEF TopupInv, AttemptInv, ReportInv, Outcome
<1>3. OneActive'
  BY DEF TopupInv, OneActive, Active, Unsent, InFlight
<1>4. UNCHANGED Promise!chargeVars
  <2>1. \A r \in Triggers : StageOf(r)' = StageOf(r)
    BY DEF StageOf
  <2>2. QED BY <1>1, <2>1, SameStage
<1>5. QED BY <1>2, <1>3, <1>4

\* Owners and operators: the card, the terms, the credentials, the country.
LEMMA OperatorInv ==
  ASSUME TopupInv,
         \/ \E provider \in {"paystack", "stripe"} : ReplaceCard(provider)
         \/ \E postpaid, suspended, sandbox \in BOOLEAN :
              SetTenant(postpaid, suspended, sandbox)
         \/ \E key \in Keys : RotateKey(key)
         \/ CheckCountry \/ WriteCountry
  PROVE  TopupInv' /\ Implements
<1> USE AutoTopupAssumption, WalletAssumption
    DEF ReplaceCard, SetTenant, RotateKey, CheckCountry, WriteCountry, Changes,
        attemptVars, providerVars
<1>1. UNCHANGED <<ledger, status, terms, sentKey, payment, asked, charge,
                  reported, worker, settings>>
  BY DEF walletVars, Grant
<1>2. [WalletNext]_walletVars /\ FloorInv'
  <2>1. ASSUME NEW postpaid \in BOOLEAN, NEW suspended \in BOOLEAN,
               NEW sandbox \in BOOLEAN, SetTenant(postpaid, suspended, sandbox)
        PROVE  WalletNext /\ FloorInv'
    <3>1. Floor(tenant') \in {0, -Limit}
      BY <2>1 DEF Floor
    <3>2. Floor(tenant') \in Floors /\ Grant(Floor(tenant'))
      BY <2>1, <3>1
    <3>3. floor' <= Floor(tenant')
      BY <3>1, <3>2 DEF Grant, TopupInv, AutoTopupTypeOK, WalletTypeOK
    <3>4. QED BY <3>2, <3>3 DEF WalletNext, FloorInv, Floor
  <2>2. CASE UNCHANGED walletVars /\ UNCHANGED tenant
    BY <2>2 DEF walletVars, TopupInv, FloorInv, Floor
  <2>3. QED BY <2>1, <2>2
<1>3. WalletTypeOK'
  BY <1>2, WalletTypeNext
<1>4. AutoTopupTypeOK'
  <2> USE DEF TopupInv, AutoTopupTypeOK
  <2>1. ASSUME NEW postpaid \in BOOLEAN, NEW suspended \in BOOLEAN,
               NEW sandbox \in BOOLEAN, SetTenant(postpaid, suspended, sandbox)
        PROVE  AutoTopupTypeOK'
    BY <1>3, <2>1
  <2>2. ASSUME NEW provider \in {"paystack", "stripe"}, ReplaceCard(provider)
        PROVE  AutoTopupTypeOK'
    BY <1>3, <2>2
  <2>3. CASE \/ \E key \in Keys : RotateKey(key)
             \/ CheckCountry \/ WriteCountry
    BY <1>3, <2>3 DEF Currencies
  <2>4. QED BY <2>1, <2>2, <2>3
<1>5. WorkerInv' /\ ConsentInv'
  BY <1>1 DEF TopupInv, WorkerInv, ConsentInv, InFlight
<1>6. QED BY <1>1, <1>2, <1>3, <1>4, <1>5, ObserverStep DEF TopupInv, Implements

\* Tasks that look, wait or die, and leases that run out.
LEMMA WorkerSteps ==
  ASSUME TopupInv,
         \/ \E w \in Workers :
              \/ \E r \in Triggers : Pick(w, r) \/ RecoverClaim(w, r)
              \/ \E failed \in BOOLEAN : GiveUp(w, failed)
              \/ \E outcome \in Outcomes \cup {"unknown"} :
                   Answer(w, outcome) \/ LookUp(w, outcome)
              \/ Crash(w)
         \/ \E r \in Triggers : Lapse(r)
  PROVE  TopupInv' /\ Implements
<1>1. /\ UNCHANGED <<walletVars, currency, tenant, settings, card, apiKey,
                     status, terms, cardChanged, sentKey, payment, asked,
                     charge, reported, country>>
      /\ token' \in [Triggers -> Workers \cup {None}]
      /\ waiting' \in [Triggers -> BOOLEAN]
      /\ changes' \in 0 .. MaxChanges
      /\ \/ UNCHANGED worker
         \/ \E w \in Workers, t \in [pc : {"idle", "picked", "looking", "marking"},
                                     ref : Triggers \cup {None},
                                     key : Keys \cup {None}, seen : {"unknown"}] :
              /\ t.pc # "idle" => t.ref \in Triggers
              /\ worker' = [worker EXCEPT ![w] = t]
         \/ \E w \in Workers, t \in [pc : {"answered"}, ref : Triggers,
                                     key : Keys \cup {None},
                                     seen : Outcomes \cup {"unknown"}] :
              /\ t.seen \in reported[t.ref] \cup {"unknown"}
              /\ worker' = [worker EXCEPT ![w] = t]
  <2> USE AutoTopupAssumption
      DEF TopupInv, AutoTopupTypeOK, ownerVars, attemptVars, providerVars,
          Task, Resting, Rests, Becomes
  <2>1. ASSUME NEW w \in Workers, NEW r \in Triggers, Pick(w, r) PROVE <1>1!:
    <3>1. Task("picked", r, apiKey, "unknown") \in
            [pc : {"idle", "picked", "looking", "marking"},
             ref : Triggers \cup {None}, key : Keys \cup {None}, seen : {"unknown"}]
      OBVIOUS
    <3>2. QED BY <2>1, <3>1 DEF Pick
  <2>2. ASSUME NEW w \in Workers, NEW r \in Triggers, RecoverClaim(w, r)
        PROVE <1>1!:
    <3>1. Task("looking", r, None, "unknown") \in
            [pc : {"idle", "picked", "looking", "marking"},
             ref : Triggers \cup {None}, key : Keys \cup {None}, seen : {"unknown"}]
      OBVIOUS
    <3>2. QED BY <2>2, <3>1 DEF RecoverClaim
  <2>3. ASSUME NEW w \in Workers, NEW failed \in BOOLEAN, GiveUp(w, failed)
        PROVE <1>1!:
    <3>1. Resting \in
            [pc : {"idle", "picked", "looking", "marking"},
             ref : Triggers \cup {None}, key : Keys \cup {None}, seen : {"unknown"}]
      OBVIOUS
    <3>2. QED BY <2>3, <3>1 DEF GiveUp
  <2>4. ASSUME NEW w \in Workers, NEW outcome \in Outcomes \cup {"unknown"},
               Answer(w, outcome)
        PROVE <1>1!:
    <3>1. worker[w].ref \in Triggers
      BY <2>4 DEF Answer, WorkerInv
    <3>2. Task("answered", worker[w].ref, worker[w].key, outcome) \in
            [pc : {"answered"}, ref : Triggers, key : Keys \cup {None},
             seen : Outcomes \cup {"unknown"}]
      BY <3>1
    <3>3. QED BY <2>4, <3>2 DEF Answer
  <2>5. ASSUME NEW w \in Workers, NEW outcome \in Outcomes \cup {"unknown"},
               LookUp(w, outcome)
        PROVE <1>1!:
    <3>1. worker[w].ref \in Triggers
      BY <2>5 DEF LookUp, WorkerInv
    <3>2. /\ Task("answered", worker[w].ref, worker[w].key, outcome) \in
               [pc : {"answered"}, ref : Triggers, key : Keys \cup {None},
                seen : Outcomes \cup {"unknown"}]
          /\ Task("marking", worker[w].ref, worker[w].key, "unknown") \in
               [pc : {"idle", "picked", "looking", "marking"},
                ref : Triggers \cup {None}, key : Keys \cup {None},
                seen : {"unknown"}]
      BY <3>1
    <3>3. outcome \in reported[worker[w].ref] \cup {"unknown"}
      <4>1. charge[worker[w].ref] \in {"none", "processing", "captured", "declined"}
            /\ ReportInv(worker[w].ref)
        BY <3>1
      <4>2. Outcome(worker[w].ref) \in reported[worker[w].ref] \cup {"unknown"}
        BY <4>1 DEF ReportInv, Outcome
      <4>3. QED BY <2>5, <4>2 DEF LookUp
    <3>4. QED BY <2>5, <3>1, <3>2, <3>3 DEF LookUp
  <2>6. ASSUME NEW w \in Workers, Crash(w) PROVE <1>1!:
    <3>1. Resting \in
            [pc : {"idle", "picked", "looking", "marking"},
             ref : Triggers \cup {None}, key : Keys \cup {None}, seen : {"unknown"}]
      OBVIOUS
    <3>2. changes' \in 0 .. MaxChanges
      BY <2>6 DEF Crash, Changes
    <3>3. QED BY <2>6, <3>1, <3>2 DEF Crash
  <2>7. ASSUME NEW r \in Triggers, Lapse(r) PROVE <1>1!:
    BY <2>7 DEF Lapse
  <2> HIDE DEF TopupInv, AutoTopupTypeOK
  <2>8. QED BY <2>1, <2>2, <2>3, <2>4, <2>5, <2>6, <2>7
<1>2. [WalletNext]_walletVars
  BY <1>1
<1>3. WalletTypeOK'
  BY <1>2, WalletTypeNext
<1>4. AutoTopupTypeOK'
  <2>1. worker' \in [Workers -> Tasks]
    BY <1>1 DEF TopupInv, AutoTopupTypeOK
  <2>2. QED BY <1>1, <1>3, <2>1 DEF TopupInv, AutoTopupTypeOK
<1>5. WorkerInv'
  <2>1. \A v \in Workers :
          \/ worker'[v] = worker[v]
          \/ /\ worker'[v].pc \notin {"claimed", "answered"}
             /\ worker'[v].pc # "idle" => worker'[v].ref \in Triggers
          \/ /\ worker'[v].pc = "answered" /\ worker'[v].ref \in Triggers
             /\ worker'[v].seen \in reported[worker'[v].ref] \cup {"unknown"}
    BY <1>1 DEF TopupInv, AutoTopupTypeOK
  <2>2. QED BY <1>1, <2>1 DEF TopupInv, WorkerInv, InFlight
<1>6. ConsentInv' /\ FloorInv'
  BY <1>1 DEF TopupInv, ConsentInv, FloorInv, Floor, walletVars
<1>7. QED BY <1>1, <1>2, <1>3, <1>4, <1>5, <1>6, ObserverStep
          DEF TopupInv, Implements, walletVars

-----------------------------------------------------------------------------
\* A step that withdraws the unsent attempt, if there is one, or none at all.
LEMMA WithdrawStep ==
  ASSUME TopupInv, status' = status \/ status' = WithdrawUnsent,
         \A k \in {"debit", "credit"}, r \in Triggers :
            HasRow(k, r)' <=> HasRow(k, r),
         UNCHANGED <<terms, sentKey, payment, asked, charge, reported>>
  PROVE  /\ \A r \in Triggers : AttemptInv(r)' /\ ReportInv(r)'
         /\ OneActive'
         /\ [Promise!ChargeNext]_(Promise!chargeVars)
         /\ \A r \in Triggers : InFlight(r) => InFlight(r)'
         /\ status' \in [Triggers -> AttemptStatus]
<1>1. \A r \in Triggers :
        \/ status'[r] = status[r]
        \/ status[r] = "pending" /\ status'[r] = "cancelled"
  BY DEF WithdrawUnsent, Cancelled, Unsent
<1>2. status' \in [Triggers -> AttemptStatus]
  BY DEF TopupInv, AutoTopupTypeOK, WithdrawUnsent
<1>3. ASSUME NEW r \in Triggers PROVE AttemptInv(r)' /\ ReportInv(r)'
  <2>1. /\ HasRow("debit", r)' <=> HasRow("debit", r)
        /\ HasRow("credit", r)' <=> HasRow("credit", r)
    OBVIOUS
  <2>2. AttemptInv(r) /\ ReportInv(r)
    BY DEF TopupInv
  <2>3. AttemptInv(r)'
    BY <1>1, <2>1, <2>2 DEF AttemptInv
  <2>4. ReportInv(r)'
    BY <2>1, <2>2 DEF ReportInv, Outcome
  <2>5. QED BY <2>3, <2>4
<1>4. OneActive' /\ \A r \in Triggers : InFlight(r) => InFlight(r)'
  BY <1>1 DEF TopupInv, OneActive, Active, Unsent, InFlight
<1>5. [Promise!ChargeNext]_(Promise!chargeVars)
  <2>1. CASE \E r \in Triggers : status'[r] # status[r]
    <3>1. PICK r \in Triggers : status[r] = "pending" /\ status'[r] = "cancelled"
      BY <1>1, <2>1
    <3>2. \A q \in Triggers \ {r} : status'[q] = status[q]
      BY <1>1, <3>1 DEF TopupInv, OneActive, Active, Unsent
    <3>3. /\ StageOf(r) = "queued" /\ StageOf(r)' = "withdrawn"
          /\ \A q \in Triggers \ {r} : StageOf(q)' = StageOf(q)
      BY <3>1, <3>2 DEF StageOf
    <3>4. QED BY <3>3, StageMoves
  <2>2. CASE \A r \in Triggers : status'[r] = status[r]
    BY <2>2, SameStage DEF StageOf
  <2>3. QED BY <2>1, <2>2
<1>6. QED BY <1>2, <1>3, <1>4, <1>5

\* Workers keep what they know when the provider is not asked and no attempt
\* leaves its flight before it is.
LEMMA WorkersKeep ==
  ASSUME WorkerInv, UNCHANGED <<asked, reported>>,
         \A r \in Triggers : InFlight(r) /\ asked[r] = 0 => InFlight(r)',
         \A v \in Workers :
            \/ worker'[v] = worker[v]
            \/ /\ worker'[v].pc \notin {"claimed", "answered"}
               /\ worker'[v].pc # "idle" => worker'[v].ref \in Triggers
  PROVE  WorkerInv'
BY DEF WorkerInv

LEMMA SettingsInv ==
  ASSUME TopupInv,
         \/ \E plan \in Plans, enabled, accepted \in BOOLEAN :
              SaveSettings(plan, enabled, accepted)
         \/ Disable
  PROVE  TopupInv' /\ Implements
<1> USE AutoTopupAssumption
<1>1. /\ UNCHANGED <<walletVars, currency, tenant, card, apiKey, country, terms,
                     cardChanged, sentKey, token, waiting, payment, asked,
                     charge, reported, worker>>
      /\ status' = status \/ status' = WithdrawUnsent
      /\ changes' \in 0 .. MaxChanges
  BY DEF SaveSettings, Disable, Changes, providerVars, TopupInv, AutoTopupTypeOK
<1>2. /\ settings' \in [enabled : BOOLEAN, plan : Plans, consent : Plans \cup {None}]
      /\ ConsentInv'
  <2>1. ASSUME NEW plan \in Plans, NEW enabled \in BOOLEAN,
               NEW accepted \in BOOLEAN, SaveSettings(plan, enabled, accepted)
        PROVE  <1>2!:
    BY <2>1 DEF SaveSettings, TopupInv, AutoTopupTypeOK, ConsentInv
  <2>2. CASE Disable
    BY <2>2 DEF Disable, TopupInv, AutoTopupTypeOK, ConsentInv
  <2>3. QED BY <2>1, <2>2
<1>3. [WalletNext]_walletVars /\ WalletTypeOK'
  BY <1>1, WalletTypeNext
<1>4. \A k, x : HasRow(k, x)' <=> HasRow(k, x)
  BY <1>1 DEF HasRow, walletVars
<1>5. /\ \A r \in Triggers : AttemptInv(r)' /\ ReportInv(r)'
      /\ OneActive'
      /\ [Promise!ChargeNext]_(Promise!chargeVars)
      /\ \A r \in Triggers : InFlight(r) => InFlight(r)'
      /\ status' \in [Triggers -> AttemptStatus]
  BY <1>1, <1>4, WithdrawStep
<1>6. AutoTopupTypeOK'
  BY <1>1, <1>2, <1>3, <1>5 DEF TopupInv, AutoTopupTypeOK
<1>7. WorkerInv'
  BY <1>1, <1>5, WorkersKeep DEF TopupInv
<1>8. FloorInv'
  BY <1>1 DEF TopupInv, FloorInv, Floor, walletVars
<1>9. QED BY <1>2, <1>3, <1>5, <1>6, <1>7, <1>8 DEF TopupInv, Implements

\* A credit with its tax, as creditInTransaction writes it, is a movement that
\* the wallet allows.
LEMMA ReceiveStep ==
  ASSUME TopupInv, NEW r \in Refs, NEW gross,
         gross \in TopupSizes \cup {plan.amount : plan \in Plans},
         NEW low, NEW recovered, Receive(r, gross, low, recovered)
  PROVE  /\ WalletNext /\ WalletTypeOK'
         /\ \A x : /\ HasRow("credit", x)' <=> HasRow("credit", x) \/ x = r
                   /\ HasRow("debit", x)' <=> HasRow("debit", x)
<1> DEFINE vat == WalletCreditVat(currency, TRUE, gross, VatRate)
           c == [net |-> gross - vat, vat |-> vat]
<1>1. c \in Credits
  BY AutoTopupAssumption DEF TopupInv, AutoTopupTypeOK
<1>2. Credit(c.net, c.vat, r) /\ UNCHANGED floor
  BY DEF Receive
<1> HIDE DEF c, vat
<1>3. WalletNext
  BY <1>1, <1>2 DEF WalletNext
<1>4. c.net \in Nat /\ c.vat \in Nat
  BY <1>1, WalletAssumption
<1>5. QED BY <1>2, <1>3, <1>4, WalletTypeNext, CreditedRows
          DEF TopupInv, AutoTopupTypeOK

LEMMA TopUpInv ==
  ASSUME TopupInv, NEW r \in TopupRefs, NEW gross \in TopupSizes, TopUp(r, gross)
  PROVE  TopupInv' /\ Implements
<1>1. r \in Refs /\ r \notin Triggers
  BY AutoTopupAssumption
<1>2. /\ Receive(r, gross, status, WithdrawUnsent)
      /\ UNCHANGED <<floor, currency, tenant, settings, card, apiKey, country,
                     terms, cardChanged, sentKey, token, waiting, payment,
                     asked, charge, reported, worker, changes>>
      /\ status' = status \/ status' = WithdrawUnsent
  BY DEF TopUp, Receive, ownerVars, providerVars
<1>3. /\ WalletNext /\ WalletTypeOK'
      /\ \A k \in {"debit", "credit"}, q \in Triggers :
           HasRow(k, q)' <=> HasRow(k, q)
  BY <1>1, <1>2, ReceiveStep
<1>4. /\ \A q \in Triggers : AttemptInv(q)' /\ ReportInv(q)'
      /\ OneActive'
      /\ [Promise!ChargeNext]_(Promise!chargeVars)
      /\ \A q \in Triggers : InFlight(q) => InFlight(q)'
      /\ status' \in [Triggers -> AttemptStatus]
  BY <1>2, <1>3, WithdrawStep
<1>5. AutoTopupTypeOK'
  BY <1>2, <1>3, <1>4 DEF TopupInv, AutoTopupTypeOK
<1>6. WorkerInv'
  BY <1>2, <1>4, WorkersKeep DEF TopupInv
<1>7. ConsentInv' /\ FloorInv'
  BY <1>2 DEF TopupInv, ConsentInv, FloorInv, Floor
<1>8. QED BY <1>3, <1>4, <1>5, <1>6, <1>7 DEF TopupInv, Implements

\* The debit, and the attempt that it queues when no other is active.
LEMMA SpendInv ==
  ASSUME TopupInv, NEW r \in Triggers, NEW amount \in Debits, Spend(r, amount)
  PROVE  TopupInv' /\ Implements
<1> DEFINE row == Row("debit", amount, balance - amount, r)
           queues == Enqueues(balance - amount)
<1>1. /\ r \in Refs /\ amount \in Nat /\ balance \in Int /\ floor \in Int
      /\ row \in Rows /\ row.kind = "debit" /\ row.ref = r
  BY AutoTopupAssumption, WalletAssumption
  DEF TopupInv, AutoTopupTypeOK, WalletTypeOK, Row, Rows, Kinds
<1>2. /\ ~HasRow("debit", r) /\ ledger' = Append(ledger, row)
      /\ UNCHANGED <<floor, currency, tenant, settings, card, apiKey, country,
                     cardChanged, sentKey, token, waiting, payment,
                     asked, charge, reported, worker, changes>>
  BY DEF Spend, ownerVars, providerVars
<1>3. WalletNext /\ WalletTypeOK'
  <2>1. Floor(tenant) \in Int
    BY AutoTopupAssumption DEF Floor, TopupInv, AutoTopupTypeOK
  <2>2. balance - amount >= floor
    BY <1>1, <2>1 DEF Spend, CanSpend, TopupInv, FloorInv
  <2>3. Debit(amount, r) /\ UNCHANGED floor
    BY <2>2 DEF Spend, Debit
  <2>4. QED BY <1>1, <2>3, WalletTypeNext DEF WalletNext
<1>4. \A x : /\ HasRow("credit", x)' <=> HasRow("credit", x)
             /\ HasRow("debit", x)' <=> HasRow("debit", x) \/ x = r
  <2> HIDE DEF row
  <2>1. QED BY <1>1, <1>2, DebitRows DEF TopupInv, AutoTopupTypeOK
<1>5. status[r] = "none"
  BY <1>2 DEF TopupInv, AttemptInv
<1>6. /\ status' \in [Triggers -> AttemptStatus]
      /\ terms' \in [Triggers -> [amount : Nat, currency : Currencies]]
      /\ \A q \in Triggers \ {r} : status'[q] = status[q] /\ terms'[q] = terms[q]
      /\ queues => status'[r] = "pending"
                   /\ \E plan \in Plans : terms'[r].amount = plan.amount
      /\ ~queues => status'[r] = status[r]
  <2>1. settings.plan \in Plans /\ settings.plan.amount \in Nat
    BY AutoTopupAssumption DEF TopupInv, AutoTopupTypeOK
  <2>2. [amount |-> settings.plan.amount, currency |-> currency]
          \in [amount : Nat, currency : Currencies]
    BY <2>1 DEF TopupInv, AutoTopupTypeOK
  <2>3. CASE queues
    <3>1. /\ status' = [status EXCEPT ![r] = "pending"]
          /\ terms' = [terms EXCEPT ![r] = [amount |-> settings.plan.amount,
                                            currency |-> currency]]
      BY <2>3 DEF Spend
    <3> HIDE DEF queues
    <3>2. QED BY <2>1, <2>2, <2>3, <3>1 DEF TopupInv, AutoTopupTypeOK
  <2>4. CASE ~queues
    <3>1. UNCHANGED <<status, terms>>
      BY <2>4 DEF Spend
    <3> HIDE DEF queues
    <3>2. QED BY <2>4, <3>1 DEF TopupInv, AutoTopupTypeOK
  <2>5. QED BY <2>3, <2>4
<1>7. queues => \A q \in Triggers : ~Active(q)
  BY DEF Enqueues
<1> HIDE DEF queues, row
<1>8. AutoTopupTypeOK'
  BY <1>2, <1>3, <1>6 DEF TopupInv, AutoTopupTypeOK
<1>9. ASSUME NEW q \in Triggers PROVE AttemptInv(q)' /\ ReportInv(q)'
  <2>1. CASE q = r
    BY <1>2, <1>4, <1>5, <1>6, <2>1
    DEF TopupInv, AttemptInv, ReportInv, Outcome
  <2>2. CASE q # r
    <3>1. AttemptInv(q) /\ ReportInv(q)
      BY DEF TopupInv
    <3>2. AttemptInv(q)'
      BY <1>2, <1>4, <1>6, <2>2, <3>1 DEF AttemptInv
    <3>3. ReportInv(q)'
      BY <1>2, <1>4, <3>1 DEF ReportInv, Outcome
    <3>4. QED BY <3>2, <3>3
  <2>3. QED BY <2>1, <2>2
<1>10. OneActive'
  BY <1>5, <1>6, <1>7 DEF TopupInv, OneActive, Active, Unsent, InFlight
<1>11. WorkerInv'
  <2>1. \A q \in Triggers : InFlight(q) => InFlight(q)'
    BY <1>5, <1>6 DEF InFlight
  <2>2. QED BY <1>2, <2>1, WorkersKeep DEF TopupInv
<1>12. ConsentInv' /\ FloorInv'
  BY <1>2 DEF TopupInv, ConsentInv, FloorInv, Floor
<1>13. [Promise!ChargeNext]_(Promise!chargeVars)
  <2>1. \A q \in Triggers \ {r} : StageOf(q)' = StageOf(q)
    BY <1>6 DEF StageOf
  <2>2. CASE queues
    <3>1. StageOf(r) = "none" /\ StageOf(r)' = "queued"
      BY <1>5, <1>6, <2>2 DEF StageOf
    <3>2. \A q \in Triggers : StageOf(q) \notin {"queued", "submitted"}
      BY <1>7, <2>2
      DEF StageOf, Active, Unsent, InFlight, TopupInv, AutoTopupTypeOK
    <3>3. QED BY <1>2, <1>4, <2>1, <3>1, <3>2, StageMoves
  <2>3. CASE ~queues
    BY <1>2, <1>4, <1>6, <2>1, <2>3, SameStage DEF StageOf
  <2>4. QED BY <2>2, <2>3
<1>14. QED BY <1>3, <1>8, <1>9, <1>10, <1>11, <1>12, <1>13
           DEF TopupInv, Implements

-----------------------------------------------------------------------------
\* The claim: the only step that lets a charge go.
LEMMA ClaimInv ==
  ASSUME TopupInv, NEW w \in Workers, NEW r \in Triggers, worker[w].ref = r,
         Claim(w)
  PROVE  TopupInv' /\ Implements
<1> DEFINE lets == Due(r) /\ Wanted(r)
<1>1. worker[w].pc = "picked"
  BY DEF Claim
<1>2. /\ UNCHANGED <<walletVars, currency, tenant, settings, card, apiKey,
                     country, terms, cardChanged, asked, charge, reported,
                     changes>>
      /\ \A k, x : HasRow(k, x)' <=> HasRow(k, x)
  BY DEF Claim, ownerVars, providerVars, walletVars, HasRow
<1>3. Due(r) => ~Evidence(r) /\ asked[r] = 0 /\ payment[r] = "none"
  BY <1>1 DEF Due, Unsent, Evidence, TopupInv, AttemptInv
<1>4. /\ status' = IF ~Due(r) THEN status
                   ELSE [status EXCEPT ![r] = IF Wanted(r) THEN "dispatching"
                                              ELSE "cancelled"]
      /\ lets => /\ payment' = [payment EXCEPT ![r] = "pending"]
                 /\ sentKey' = [sentKey EXCEPT ![r] = worker[w].key]
                 /\ token' = [token EXCEPT ![r] = w]
                 /\ waiting' = [waiting EXCEPT ![r] = TRUE]
                 /\ worker' = [worker EXCEPT ![w] =
                      Task("claimed", r, worker[w].key, "unknown")]
      /\ ~lets => /\ UNCHANGED <<payment, sentKey, token, waiting>>
                  /\ worker' = [worker EXCEPT ![w] = Resting]
  BY <1>3 DEF Claim, Becomes, Rests
<1>5. WalletTypeOK' /\ [WalletNext]_walletVars
  BY <1>2, WalletTypeNext
<1>6. AutoTopupTypeOK'
  <2>1. /\ Task("claimed", r, worker[w].key, "unknown") \in Tasks
        /\ Resting \in Tasks
    BY <1>1 DEF Task, Resting, TopupInv, AutoTopupTypeOK
  <2>2. /\ status' \in [Triggers -> AttemptStatus]
        /\ payment' \in [Triggers -> {"none", "pending", "succeeded", "failed"}]
        /\ sentKey' \in [Triggers -> Keys \cup {None}]
        /\ token' \in [Triggers -> Workers \cup {None}]
        /\ waiting' \in [Triggers -> BOOLEAN]
        /\ worker' \in [Workers -> Tasks]
    <3>1. worker[w].key \in Keys \cup {None}
      BY DEF TopupInv, AutoTopupTypeOK
    <3>2. CASE lets
      <4>1. /\ status' = [status EXCEPT ![r] = "dispatching"]
            /\ payment' = [payment EXCEPT ![r] = "pending"]
            /\ sentKey' = [sentKey EXCEPT ![r] = worker[w].key]
            /\ token' = [token EXCEPT ![r] = w]
            /\ waiting' = [waiting EXCEPT ![r] = TRUE]
            /\ worker' = [worker EXCEPT ![w] =
                            Task("claimed", r, worker[w].key, "unknown")]
        BY <1>4, <3>2
      <4>2. QED BY <2>1, <3>1, <4>1 DEF TopupInv, AutoTopupTypeOK
    <3>3. CASE ~lets
      BY <1>4, <2>1, <3>3 DEF TopupInv, AutoTopupTypeOK
    <3>4. QED BY <3>2, <3>3
  <2>3. QED BY <1>2, <1>5, <2>2 DEF TopupInv, AutoTopupTypeOK
<1>7. /\ \A q \in Triggers \ {r} : /\ status'[q] = status[q]
                                   /\ payment'[q] = payment[q]
                                   /\ sentKey'[q] = sentKey[q]
      /\ lets => /\ status[r] = "pending" /\ status'[r] = "dispatching"
                 /\ payment'[r] = "pending"
      /\ ~lets => /\ UNCHANGED <<payment, sentKey>>
                  /\ \/ status'[r] = status[r]
                     \/ status[r] = "pending" /\ status'[r] = "cancelled"
  BY <1>1, <1>4 DEF TopupInv, AutoTopupTypeOK, Due, Unsent
<1>8. ASSUME NEW q \in Triggers PROVE AttemptInv(q)' /\ ReportInv(q)'
  <2>1. AttemptInv(q) /\ ReportInv(q)
    BY DEF TopupInv
  <2>2. AttemptInv(q)'
    BY <1>2, <1>7, <2>1 DEF AttemptInv
  <2>3. ReportInv(q)'
    BY <1>2, <2>1 DEF ReportInv, Outcome
  <2>4. QED BY <2>2, <2>3
<1>9. OneActive'
  BY <1>7 DEF TopupInv, OneActive, Active, Unsent, InFlight
<1>10. WorkerInv'
  <2>1. \A q \in Triggers : InFlight(q) => InFlight(q)'
    BY <1>7 DEF InFlight
  <2>2. CASE lets
    <3>1. ~InFlight(r)
      BY <1>7, <2>2 DEF InFlight
    <3>2. \A v \in Workers \ {w} :
            worker'[v] = worker[v]
            /\ ~(worker[v].pc = "claimed" /\ worker[v].ref = r)
      BY <1>4, <2>2, <3>1 DEF TopupInv, AutoTopupTypeOK, WorkerInv
    <3>3. /\ worker'[w].pc = "claimed" /\ worker'[w].ref = r
          /\ InFlight(r)' /\ asked'[r] = 0
      BY <1>1, <1>2, <1>3, <1>4, <1>7, <2>2
      DEF TopupInv, AutoTopupTypeOK, Task, InFlight
    <3>4. QED BY <1>1, <1>2, <2>1, <3>2, <3>3 DEF TopupInv, WorkerInv
  <2>3. CASE ~lets
    <3>1. \A v \in Workers : worker'[v] = worker[v] \/ worker'[v].pc = "idle"
      BY <1>4, <2>3 DEF TopupInv, AutoTopupTypeOK, Resting, Task
    <3>2. QED BY <1>2, <2>1, <3>1, WorkersKeep DEF TopupInv
  <2>4. QED BY <2>2, <2>3
<1>11. ConsentInv' /\ FloorInv'
  BY <1>2 DEF TopupInv, ConsentInv, FloorInv, Floor, walletVars
<1>12. [Promise!ChargeNext]_(Promise!chargeVars)
  <2>1. \A q \in Triggers \ {r} : StageOf(q)' = StageOf(q)
    BY <1>7 DEF StageOf
  <2>2. \/ StageOf(r)' = StageOf(r)
        \/ StageOf(r) = "queued" /\ StageOf(r)' \in {"withdrawn", "submitted"}
    BY <1>7 DEF StageOf
  <2>3. QED BY <1>1, <1>2, <2>1, <2>2, SameStage, StageMoves
<1>13. QED BY <1>5, <1>6, <1>8, <1>9, <1>10, <1>11, <1>12
           DEF TopupInv, Implements

\* The POST: the task that claimed is the only one that may still send it.
LEMMA PostInv ==
  ASSUME TopupInv, NEW w \in Workers, Post(w)
  PROVE  TopupInv' /\ Implements
<1> DEFINE r == worker[w].ref
<1>1. /\ r \in Triggers /\ worker[w].pc = "claimed"
      /\ InFlight(r) /\ asked[r] = 0
      /\ \A v \in Workers :
           worker[v].pc = "claimed" /\ worker[v].ref = r => v = w
  BY DEF Post, TopupInv, WorkerInv
<1>2. /\ UNCHANGED <<walletVars, ownerVars, attemptVars, charge, reported, changes>>
      /\ asked' = [asked EXCEPT ![r] = 1]
      /\ worker' = [worker EXCEPT ![w] =
                      Task("posted", r, worker[w].key, "unknown")]
      /\ \A k, x : HasRow(k, x)' <=> HasRow(k, x)
  BY <1>1 DEF Post, Becomes, TopupInv, AutoTopupTypeOK, walletVars, HasRow
<1>3. WalletTypeOK' /\ [WalletNext]_walletVars
  BY <1>2, WalletTypeNext
<1>4. /\ asked' \in [Triggers -> Nat]
      /\ \A q \in Triggers : asked'[q] = IF q = r THEN 1 ELSE asked[q]
      /\ \A v \in Workers : worker'[v] = worker[v] \/ v = w
      /\ worker'[w].pc = "posted" /\ worker'[w].ref = r
      /\ worker' \in [Workers -> Tasks]
  BY <1>1, <1>2 DEF TopupInv, AutoTopupTypeOK, Task
<1>5. AutoTopupTypeOK'
  BY <1>2, <1>3, <1>4
  DEF TopupInv, AutoTopupTypeOK, ownerVars, attemptVars
<1>6. ASSUME NEW q \in Triggers PROVE AttemptInv(q)' /\ ReportInv(q)'
  <2>1. AttemptInv(q) /\ ReportInv(q)
    BY DEF TopupInv
  <2>2. AttemptInv(q)'
    BY <1>1, <1>2, <1>4, <2>1 DEF AttemptInv, InFlight, attemptVars
  <2>3. ReportInv(q)'
    BY <1>2, <1>4, <2>1 DEF ReportInv, Outcome
  <2>4. QED BY <2>2, <2>3
<1>7. OneActive'
  BY <1>2 DEF TopupInv, OneActive, Active, Unsent, InFlight, attemptVars
<1>8. WorkerInv'
  <2>1. \A q \in Triggers : InFlight(q)' <=> InFlight(q)
    BY <1>2 DEF InFlight, attemptVars
  <2>2. QED BY <1>1, <1>2, <1>4, <2>1 DEF TopupInv, WorkerInv
<1>9. ConsentInv' /\ FloorInv'
  BY <1>2 DEF TopupInv, ConsentInv, FloorInv, Floor, ownerVars, walletVars
<1>10. Promise!ChargeNext
  <2>1. StageOf(r) = "submitted"
    BY <1>1 DEF StageOf, InFlight
  <2>2. \A q \in Triggers : StageOf(q)' = StageOf(q)
    BY <1>2 DEF StageOf, attemptVars
  <2>3. /\ [q \in Triggers |-> StageOf(q)]' = [q \in Triggers |-> StageOf(q)]
        /\ {q \in Triggers : charge[q] = "captured"}'
             = {q \in Triggers : charge[q] = "captured"}
        /\ {q \in Triggers : HasRow("credit", q)}'
             = {q \in Triggers : HasRow("credit", q)}
    BY <1>2, <2>2
  <2>4. Promise!Ask(r)
    BY <1>1, <1>2, <2>1, <2>3 DEF Promise!Ask
  <2>5. QED BY <1>1, <2>4 DEF Promise!ChargeNext
<1>11. QED BY <1>3, <1>5, <1>6, <1>7, <1>8, <1>9, <1>10
           DEF TopupInv, Implements

-----------------------------------------------------------------------------
\* Settling: what the step does to everything but the tasks.
Settled(r) ==
  /\ WalletTypeOK' /\ [WalletNext]_walletVars
  /\ \A q \in Triggers : AttemptInv(q)' /\ ReportInv(q)'
  /\ OneActive'
  /\ [Promise!ChargeNext]_(Promise!chargeVars)
  /\ \A q \in Triggers \ {r} : InFlight(q) => InFlight(q)'
  /\ floor' = floor
  /\ status' \in [Triggers -> AttemptStatus]
  /\ payment' \in [Triggers -> {"none", "pending", "succeeded", "failed"}]
  /\ waiting' \in [Triggers -> BOOLEAN]
  /\ token' \in [Triggers -> Workers \cup {None}]

\* An attempt that an answer exists for was asked for, and is not unsent.
LEMMA ReportedWasSent ==
  ASSUME TopupInv, NEW r \in Triggers, NEW outcome \in reported[r]
  PROVE  /\ asked[r] = 1
         /\ InFlight(r) \/ status[r] \in {"succeeded", "failed"}
         /\ outcome = "succeeded" => charge[r] = "captured"
<1>1. AttemptInv(r) /\ ReportInv(r)
  BY DEF TopupInv
<1>2. asked[r] = 1 /\ (outcome = "succeeded" => charge[r] = "captured")
  BY <1>1 DEF ReportInv
<1>3. status[r] \in AttemptStatus
  BY DEF TopupInv, AutoTopupTypeOK
<1>4. QED BY <1>1, <1>2, <1>3 DEF AttemptInv, InFlight

\* A pending or failed outcome moves the attempt and its payment row only.
LEMMA SettleUnpaid ==
  ASSUME TopupInv, NEW r \in Triggers, NEW outcome \in reported[r],
         ~Ignores(r, outcome), Settle(r, outcome), outcome # "succeeded"
  PROVE  Settled(r)
<1>1. /\ UNCHANGED <<walletVars, ownerVars, terms, cardChanged, sentKey,
                     providerVars, changes>>
      /\ token' = [token EXCEPT ![r] = None]
      /\ waiting' \in [Triggers -> BOOLEAN]
      /\ \/ /\ status' = [status EXCEPT ![r] = "uncertain"]
            /\ payment' = payment /\ status[r] # "failed"
         \/ /\ status' = [status EXCEPT ![r] = "failed"]
            /\ payment' = [payment EXCEPT ![r] = "failed"]
  <2>1. CASE outcome = "pending" /\ SettlePending(r)
    BY <2>1 DEF Settle, SettlePending, Ignores, TopupInv, AutoTopupTypeOK
  <2>2. CASE outcome = "failed" /\ SettleFailure(r)
    BY <2>2 DEF Settle, SettleFailure, TopupInv, AutoTopupTypeOK
  <2>3. QED BY <2>1, <2>2 DEF Settle
<1>2. /\ asked[r] = 1 /\ status[r] # "succeeded"
      /\ InFlight(r) \/ status[r] = "failed"
  BY ReportedWasSent DEF Ignores
<1>3. \A k, x : HasRow(k, x)' <=> HasRow(k, x)
  BY <1>1 DEF HasRow, walletVars
<1>4. WalletTypeOK' /\ [WalletNext]_walletVars /\ floor' = floor
  BY <1>1, WalletTypeNext DEF walletVars
<1>5. /\ status' \in [Triggers -> AttemptStatus]
      /\ payment' \in [Triggers -> {"none", "pending", "succeeded", "failed"}]
      /\ token' \in [Triggers -> Workers \cup {None}]
      /\ \A q \in Triggers \ {r} :
           status'[q] = status[q] /\ payment'[q] = payment[q]
      /\ \/ InFlight(r) /\ status'[r] = "uncertain" /\ payment'[r] = payment[r]
         \/ status'[r] = "failed" /\ payment'[r] = "failed"
  <2>1. CASE /\ status' = [status EXCEPT ![r] = "uncertain"]
             /\ payment' = payment /\ status[r] # "failed"
    BY <1>1, <1>2, <2>1 DEF TopupInv, AutoTopupTypeOK
  <2>2. CASE /\ status' = [status EXCEPT ![r] = "failed"]
             /\ payment' = [payment EXCEPT ![r] = "failed"]
    BY <1>1, <1>2, <2>2 DEF TopupInv, AutoTopupTypeOK
  <2>3. QED BY <1>1, <2>1, <2>2
<1>6. ASSUME NEW q \in Triggers PROVE AttemptInv(q)' /\ ReportInv(q)'
  <2>1. AttemptInv(q) /\ ReportInv(q)
    BY DEF TopupInv
  <2>2. AttemptInv(q)'
    BY <1>1, <1>2, <1>3, <1>5, <2>1 DEF AttemptInv, InFlight, providerVars
  <2>3. ReportInv(q)'
    BY <1>1, <1>3, <2>1 DEF ReportInv, Outcome, providerVars
  <2>4. QED BY <2>2, <2>3
<1>7. OneActive' /\ \A q \in Triggers \ {r} : InFlight(q) => InFlight(q)'
  BY <1>2, <1>5 DEF TopupInv, OneActive, Active, Unsent, InFlight
<1>8. [Promise!ChargeNext]_(Promise!chargeVars)
  <2>1. \A q \in Triggers \ {r} : StageOf(q)' = StageOf(q)
    BY <1>5 DEF StageOf
  <2>2. \/ StageOf(r)' = StageOf(r)
        \/ StageOf(r) = "submitted" /\ StageOf(r)' = "refused"
    BY <1>2, <1>5 DEF StageOf, InFlight
  <2>3. QED BY <1>1, <1>2, <1>3, <2>1, <2>2, SameStage, StageMoves
            DEF providerVars
<1>9. QED BY <1>1, <1>4, <1>5, <1>6, <1>7, <1>8 DEF Settled

\* Success that was booked already changes nothing that anybody promised.
LEMMA SettleAgain ==
  ASSUME TopupInv, NEW r \in Triggers, NEW outcome \in reported[r],
         Settle(r, outcome), outcome = "succeeded", HasRow("credit", r)
  PROVE  Settled(r)
<1>1. status[r] = "succeeded" /\ payment[r] = "succeeded"
  BY DEF TopupInv, AttemptInv
<1>2. /\ UNCHANGED <<walletVars, ownerVars, terms, cardChanged, sentKey,
                     providerVars, changes>>
      /\ token' = [token EXCEPT ![r] = None]
      /\ waiting' = [waiting EXCEPT ![r] = FALSE]
      /\ status' = status /\ payment' = payment
  <2>1. SettleSuccess(r) /\ token' = [token EXCEPT ![r] = None]
        /\ UNCHANGED <<ownerVars, terms, cardChanged, sentKey, providerVars,
                       changes>>
    BY DEF Settle
  <2>2. /\ status' = [status EXCEPT ![r] = "succeeded"]
        /\ payment' = [payment EXCEPT ![r] = "succeeded"]
        /\ waiting' = [waiting EXCEPT ![r] = FALSE]
        /\ UNCHANGED walletVars
    BY <2>1 DEF SettleSuccess
  <2>3. status' = status /\ payment' = payment
    BY <1>1, <2>2 DEF TopupInv, AutoTopupTypeOK
  <2>4. QED BY <2>1, <2>2, <2>3
<1>3. WalletTypeOK' /\ [WalletNext]_walletVars /\ floor' = floor
  BY <1>2, WalletTypeNext DEF walletVars
<1>4. /\ \A q \in Triggers : AttemptInv(q)' /\ ReportInv(q)'
      /\ OneActive' /\ UNCHANGED Promise!chargeVars
  BY <1>2, ObserverStep DEF walletVars, providerVars
<1>5. QED BY <1>2, <1>3, <1>4 DEF Settled, InFlight, TopupInv, AutoTopupTypeOK

\* Success that is booked now: money that the provider has reaches the wallet,
\* and the attempt that it makes needless is withdrawn with it.
LEMMA SettlePaid ==
  ASSUME TopupInv, NEW r \in Triggers, NEW outcome \in reported[r],
         Settle(r, outcome), outcome = "succeeded", ~HasRow("credit", r)
  PROVE  Settled(r)
<1>1. /\ charge[r] = "captured" /\ asked[r] = 1
      /\ status[r] # "succeeded"
      /\ InFlight(r) \/ status[r] = "failed"
  BY ReportedWasSent DEF TopupInv, AttemptInv
<1>2. /\ Receive(r, terms[r].amount, [status EXCEPT ![r] = "succeeded"],
                 [WithdrawUnsent EXCEPT ![r] = "succeeded"])
      /\ payment' = [payment EXCEPT ![r] = "succeeded"]
      /\ waiting' = [waiting EXCEPT ![r] = FALSE]
      /\ token' = [token EXCEPT ![r] = None]
      /\ UNCHANGED <<ownerVars, terms, cardChanged, sentKey, providerVars, changes>>
  BY DEF Settle, SettleSuccess
<1>3. /\ WalletNext /\ WalletTypeOK'
      /\ \A x : /\ HasRow("credit", x)' <=> HasRow("credit", x) \/ x = r
                /\ HasRow("debit", x)' <=> HasRow("debit", x)
  <2>1. r \in Refs
    BY AutoTopupAssumption
  <2>2. terms[r].amount \in {plan.amount : plan \in Plans}
    BY <1>1 DEF TopupInv, AttemptInv, InFlight
  <2>3. QED BY <1>2, <2>1, <2>2, ReceiveStep
<1>4. /\ status'[r] = "succeeded"
      /\ \/ \A q \in Triggers \ {r} : status'[q] = status[q]
         \/ \A q \in Triggers \ {r} :
              status'[q] = IF Cancelled(q) THEN "cancelled" ELSE status[q]
      /\ status' \in [Triggers -> AttemptStatus]
  BY <1>2 DEF Receive, WithdrawUnsent, TopupInv, AutoTopupTypeOK
<1>5. \A q \in Triggers \ {r} :
        \/ status'[q] = status[q]
        \/ status[q] = "pending" /\ status'[q] = "cancelled"
  BY <1>4 DEF Cancelled, Unsent
<1>6. /\ payment' \in [Triggers -> {"none", "pending", "succeeded", "failed"}]
      /\ payment'[r] = "succeeded"
      /\ \A q \in Triggers \ {r} : payment'[q] = payment[q]
      /\ waiting' \in [Triggers -> BOOLEAN]
      /\ token' \in [Triggers -> Workers \cup {None}]
  BY <1>2 DEF TopupInv, AutoTopupTypeOK
<1>7. ASSUME NEW q \in Triggers PROVE AttemptInv(q)' /\ ReportInv(q)'
  <2>1. AttemptInv(q) /\ ReportInv(q)
    BY DEF TopupInv
  <2>2. AttemptInv(q)'
    <3>1. CASE q = r
      BY <1>1, <1>2, <1>3, <1>4, <1>6, <2>1, <3>1
      DEF AttemptInv, InFlight, providerVars
    <3>2. CASE q # r
      BY <1>2, <1>3, <1>5, <1>6, <2>1, <3>2 DEF AttemptInv, providerVars
    <3>3. QED BY <3>1, <3>2
  <2>3. ReportInv(q)'
    BY <1>1, <1>2, <1>3, <2>1 DEF ReportInv, Outcome, providerVars
  <2>4. QED BY <2>2, <2>3
<1>8. OneActive' /\ \A q \in Triggers \ {r} : InFlight(q) => InFlight(q)'
  BY <1>4, <1>5 DEF TopupInv, OneActive, Active, Unsent, InFlight
<1>9. Promise!ChargeNext
  <2> DEFINE needless == {q \in Triggers \ {r} : status'[q] # status[q]}
  <2>1. \A q \in Triggers :
          StageOf(q)' = IF q = r THEN "settled"
                        ELSE IF q \in needless THEN "withdrawn" ELSE StageOf(q)
    BY <1>4, <1>5 DEF StageOf
  <2>2. /\ \A q \in needless : StageOf(q) = "queued"
        /\ StageOf(r) \in {"submitted", "refused"}
    BY <1>1, <1>5 DEF StageOf, InFlight
  <2>3. /\ [q \in Triggers |-> StageOf(q)]'
             = [q \in Triggers |-> IF q = r THEN "settled"
                                   ELSE IF q \in needless THEN "withdrawn"
                                   ELSE [p \in Triggers |-> StageOf(p)][q]]
    BY <2>1
  <2>4. /\ {q \in Triggers : HasRow("credit", q)}'
             = {q \in Triggers : HasRow("credit", q)} \cup {r}
        /\ {q \in Triggers : charge[q] = "captured"}'
             = {q \in Triggers : charge[q] = "captured"}
        /\ asked' = asked
    BY <1>2, <1>3 DEF providerVars
  <2>5. needless \in SUBSET Triggers
    OBVIOUS
  <2> HIDE DEF needless
  <2>6. Promise!Settle(r, needless)
    BY <1>1, <2>2, <2>3, <2>4, <2>5 DEF Promise!Settle
  <2>7. QED BY <2>5, <2>6 DEF Promise!ChargeNext
<1>10. floor' = floor
  BY <1>2 DEF Receive
<1>11. QED BY <1>3, <1>4, <1>6, <1>7, <1>8, <1>9, <1>10 DEF Settled

LEMMA SettleStep ==
  ASSUME TopupInv, NEW r \in Triggers, NEW outcome \in reported[r],
         ~Ignores(r, outcome), Settle(r, outcome)
  PROVE  Settled(r)
<1>1. CASE outcome # "succeeded"
  BY <1>1, SettleUnpaid
<1>2. CASE outcome = "succeeded" /\ HasRow("credit", r)
  BY <1>2, SettleAgain
<1>3. CASE outcome = "succeeded" /\ ~HasRow("credit", r)
  BY <1>3, SettlePaid
<1>4. QED BY <1>1, <1>2, <1>3

LEMMA SettledInv ==
  ASSUME TopupInv, NEW r \in Triggers, asked[r] = 1, Settled(r),
         UNCHANGED <<ownerVars, terms, cardChanged, sentKey, providerVars, changes>>,
         worker' \in [Workers -> Tasks],
         \A v \in Workers : worker'[v] = worker[v] \/ worker'[v].pc = "idle"
  PROVE  TopupInv' /\ Implements
<1> USE DEF Settled
<1>1. AutoTopupTypeOK'
  BY DEF TopupInv, AutoTopupTypeOK, ownerVars, providerVars
<1>2. WorkerInv'
  <2>1. \A q \in Triggers : InFlight(q) /\ asked[q] = 0 => InFlight(q)'
    OBVIOUS
  <2>2. QED BY <2>1, WorkersKeep DEF TopupInv, providerVars
<1>3. ConsentInv' /\ FloorInv'
  BY DEF TopupInv, ConsentInv, FloorInv, Floor, ownerVars
<1>4. QED BY <1>1, <1>2, <1>3 DEF TopupInv, Implements

LEMMA RecordInv ==
  ASSUME TopupInv, NEW w \in Workers, Record(w)
  PROVE  TopupInv' /\ Implements
<1> PICK r \in Triggers : worker[w].ref = r
  BY DEF Record, TopupInv, WorkerInv
<1>1. worker[w].pc = "answered" /\ worker[w].seen \in reported[r] \cup {"unknown"}
  BY DEF Record, TopupInv, WorkerInv
<1>2. CASE worker[w].seen = "unknown" \/ ~Settles(r) \/ Ignores(r, worker[w].seen)
  <2>1. /\ UNCHANGED <<walletVars, ownerVars, attemptVars, providerVars, changes>>
        /\ worker' = [worker EXCEPT ![w] =
                        Task("marking", r, worker[w].key, "unknown")]
    BY <1>2 DEF Record, Becomes
  <2>2. WalletTypeOK' /\ [WalletNext]_walletVars
    BY <2>1, WalletTypeNext
  <2>3. Task("marking", r, worker[w].key, "unknown") \in Tasks
    BY DEF Task, TopupInv, AutoTopupTypeOK
  <2>4. AutoTopupTypeOK'
    BY <2>1, <2>2, <2>3
    DEF TopupInv, AutoTopupTypeOK, ownerVars, attemptVars, providerVars
  <2>5. WorkerInv'
    <3>1. \A v \in Workers : worker'[v] = worker[v]
             \/ (worker'[v].pc = "marking" /\ worker'[v].ref \in Triggers)
      BY <2>1 DEF TopupInv, AutoTopupTypeOK, Task
    <3>2. \A q \in Triggers : InFlight(q) => InFlight(q)'
      BY <2>1 DEF InFlight, attemptVars
    <3>3. QED BY <2>1, <3>1, <3>2, WorkersKeep DEF TopupInv, providerVars
  <2>6. ConsentInv' /\ FloorInv'
    BY <2>1 DEF TopupInv, ConsentInv, FloorInv, Floor, ownerVars, walletVars
  <2>7. QED BY <2>1, <2>2, <2>4, <2>5, <2>6, ObserverStep
            DEF TopupInv, Implements, walletVars, attemptVars, providerVars
<1>3. CASE ~(worker[w].seen = "unknown" \/ ~Settles(r)
               \/ Ignores(r, worker[w].seen))
  <2>1. /\ Settle(r, worker[w].seen) /\ worker[w].seen \in reported[r]
        /\ worker' = [worker EXCEPT ![w] = Resting]
    BY <1>1, <1>3 DEF Record, Rests
  <2>2. Settled(r) /\ asked[r] = 1
    BY <1>3, <2>1, SettleStep, ReportedWasSent
  <2>3. \A v \in Workers : worker'[v] = worker[v] \/ worker'[v].pc = "idle"
    BY <2>1 DEF TopupInv, AutoTopupTypeOK, Resting, Task
  <2>4. worker' \in [Workers -> Tasks]
    BY <2>1 DEF TopupInv, AutoTopupTypeOK, Resting, Task
  <2>5. QED BY <2>1, <2>2, <2>3, <2>4, SettledInv DEF Settle
<1>4. QED BY <1>2, <1>3

LEMMA WebhookInv ==
  ASSUME TopupInv, NEW r \in Triggers, NEW outcome \in Outcomes, Webhook(r, outcome)
  PROVE  TopupInv' /\ Implements
<1>1. /\ outcome \in reported[r] /\ ~Ignores(r, outcome) /\ Settle(r, outcome)
      /\ worker' = worker
  BY DEF Webhook
<1>2. Settled(r) /\ asked[r] = 1
  BY <1>1, SettleStep, ReportedWasSent
<1>3. QED BY <1>1, <1>2, SettledInv DEF TopupInv, AutoTopupTypeOK, Settle

\* Marking an attempt uncertain keeps it in flight.
LEMMA MarkInv ==
  ASSUME TopupInv, NEW w \in Workers, Mark(w)
  PROVE  TopupInv' /\ Implements
<1> PICK r \in Triggers : worker[w].ref = r
  BY DEF Mark, TopupInv, WorkerInv
<1>1. /\ UNCHANGED <<walletVars, ownerVars, terms, cardChanged, sentKey, payment,
                     providerVars, changes>>
      /\ worker' = [worker EXCEPT ![w] = Resting]
      /\ \A k, x : HasRow(k, x)' <=> HasRow(k, x)
  BY DEF Mark, Rests, walletVars, HasRow
<1>2. /\ status' \in [Triggers -> AttemptStatus]
      /\ token' \in [Triggers -> Workers \cup {None}]
      /\ waiting' \in [Triggers -> BOOLEAN]
      /\ \A q \in Triggers :
           \/ status'[q] = status[q]
           \/ InFlight(q) /\ status'[q] = "uncertain"
  <2>1. CASE token[r] = w /\ InFlight(r)
    <3>1. /\ status' = [status EXCEPT ![r] = "uncertain"]
          /\ token' = [token EXCEPT ![r] = None]
          /\ waiting' = [waiting EXCEPT ![r] = TRUE]
      BY <2>1 DEF Mark
    <3>2. QED BY <2>1, <3>1 DEF TopupInv, AutoTopupTypeOK
  <2>2. CASE ~(token[r] = w /\ InFlight(r))
    BY <2>2 DEF Mark, TopupInv, AutoTopupTypeOK
  <2>3. QED BY <2>1, <2>2
<1>3. WalletTypeOK' /\ [WalletNext]_walletVars
  BY <1>1, WalletTypeNext
<1>4. AutoTopupTypeOK'
  <2>1. worker' \in [Workers -> Tasks]
    BY <1>1 DEF TopupInv, AutoTopupTypeOK, Resting, Task
  <2>2. QED BY <1>1, <1>2, <1>3, <2>1
            DEF TopupInv, AutoTopupTypeOK, ownerVars, providerVars
<1>5. ASSUME NEW q \in Triggers PROVE AttemptInv(q)' /\ ReportInv(q)'
  <2>1. AttemptInv(q) /\ ReportInv(q)
    BY DEF TopupInv
  <2>2. AttemptInv(q)'
    BY <1>1, <1>2, <2>1 DEF AttemptInv, InFlight, providerVars
  <2>3. ReportInv(q)'
    BY <1>1, <2>1 DEF ReportInv, Outcome, providerVars
  <2>4. QED BY <2>2, <2>3
<1>6. OneActive' /\ \A q \in Triggers : InFlight(q) => InFlight(q)'
  BY <1>2 DEF TopupInv, OneActive, Active, Unsent, InFlight
<1>7. WorkerInv'
  <2>1. \A v \in Workers : worker'[v] = worker[v] \/ worker'[v].pc = "idle"
    BY <1>1 DEF TopupInv, AutoTopupTypeOK, Resting, Task
  <2>2. QED BY <1>1, <1>6, <2>1, WorkersKeep DEF TopupInv, providerVars
<1>8. ConsentInv' /\ FloorInv'
  BY <1>1 DEF TopupInv, ConsentInv, FloorInv, Floor, ownerVars, walletVars
<1>9. UNCHANGED Promise!chargeVars
  <2>1. \A q \in Triggers : StageOf(q)' = StageOf(q)
    BY <1>2 DEF StageOf, InFlight
  <2>2. QED BY <1>1, <2>1, SameStage DEF providerVars
<1>10. QED BY <1>3, <1>4, <1>5, <1>6, <1>7, <1>8, <1>9 DEF TopupInv, Implements

-----------------------------------------------------------------------------
\* The provider: it moves a charge it was asked for, and reports it.
LEMMA ProviderInv ==
  ASSUME TopupInv, NEW r \in Triggers,
         NEW to \in {"processing", "captured", "declined"}, Provider(r, to)
  PROVE  TopupInv' /\ Implements
<1> DEFINE news == IF to = "processing" THEN "pending"
                   ELSE IF to = "declined" THEN "failed" ELSE "succeeded"
<1>1. /\ UNCHANGED <<walletVars, ownerVars, attemptVars, asked, worker, changes>>
      /\ charge' = [charge EXCEPT ![r] = to]
      /\ reported' = [reported EXCEPT ![r] = @ \cup {news}]
      /\ \A k, x : HasRow(k, x)' <=> HasRow(k, x)
  BY DEF Provider, walletVars, HasRow
<1>2. /\ charge' \in [Triggers -> {"none", "processing", "captured", "declined"}]
      /\ reported' \in [Triggers -> SUBSET Outcomes]
      /\ charge'[r] = to /\ reported'[r] = reported[r] \cup {news}
      /\ \A q \in Triggers \ {r} :
           charge'[q] = charge[q] /\ reported'[q] = reported[q]
  BY <1>1 DEF TopupInv, AutoTopupTypeOK, Outcomes
<1>3. charge[r] # "captured" /\ asked[r] = 1
  BY DEF Provider, Moves, TopupInv, ReportInv
<1>4. WalletTypeOK' /\ [WalletNext]_walletVars
  BY <1>1, WalletTypeNext
<1>5. AutoTopupTypeOK'
  BY <1>1, <1>2, <1>4
  DEF TopupInv, AutoTopupTypeOK, ownerVars, attemptVars
<1>6. ASSUME NEW q \in Triggers PROVE AttemptInv(q)' /\ ReportInv(q)'
  <2>1. AttemptInv(q) /\ ReportInv(q)
    BY DEF TopupInv
  <2>2. AttemptInv(q)'
    BY <1>1, <2>1 DEF AttemptInv, attemptVars
  <2>3. ReportInv(q)'
    <3>1. CASE q = r
      BY <1>1, <1>2, <1>3, <2>1, <3>1 DEF ReportInv, Outcome
    <3>2. CASE q # r
      BY <1>1, <1>2, <2>1, <3>2 DEF ReportInv, Outcome
    <3>3. QED BY <3>1, <3>2
  <2>4. QED BY <2>2, <2>3
<1>7. OneActive'
  BY <1>1 DEF TopupInv, OneActive, Active, Unsent, InFlight, attemptVars
<1>8. WorkerInv'
  <2>1. \A q \in Triggers : /\ InFlight(q)' <=> InFlight(q)
                            /\ reported[q] \subseteq reported'[q]
    BY <1>1, <1>2 DEF InFlight, attemptVars
  <2>2. QED BY <1>1, <2>1 DEF TopupInv, WorkerInv
<1>9. ConsentInv' /\ FloorInv'
  BY <1>1 DEF TopupInv, ConsentInv, FloorInv, Floor, ownerVars, walletVars
<1>10. [Promise!ChargeNext]_(Promise!chargeVars)
  <2>1. \A q \in Triggers : StageOf(q)' = StageOf(q)
    BY <1>1 DEF StageOf, attemptVars
  <2>2. CASE to = "captured"
    <3>1. /\ [q \in Triggers |-> StageOf(q)]' = [q \in Triggers |-> StageOf(q)]
          /\ {q \in Triggers : charge[q] = "captured"}'
               = {q \in Triggers : charge[q] = "captured"} \cup {r}
          /\ {q \in Triggers : HasRow("credit", q)}'
               = {q \in Triggers : HasRow("credit", q)}
      BY <1>1, <1>2, <2>1, <2>2
    <3>2. Promise!Capture(r)
      BY <1>1, <1>3, <3>1 DEF Promise!Capture
    <3>3. QED BY <3>2 DEF Promise!ChargeNext
  <2>3. CASE to # "captured"
    <3>1. \A q \in Triggers : charge'[q] = "captured" <=> charge[q] = "captured"
      BY <1>2, <1>3, <2>3
    <3>2. QED BY <1>1, <2>1, <3>1, SameStage
  <2>4. QED BY <2>2, <2>3
<1>11. QED BY <1>4, <1>5, <1>6, <1>7, <1>8, <1>9, <1>10
           DEF TopupInv, Implements

-----------------------------------------------------------------------------
LEMMA NextTopup == TopupInv /\ [Next]_vars => TopupInv' /\ Implements
<1> SUFFICES ASSUME TopupInv, [Next]_vars PROVE TopupInv' /\ Implements
  OBVIOUS
<1>1. ASSUME NEW r \in Triggers, NEW amount \in Debits, Spend(r, amount)
      PROVE  TopupInv' /\ Implements
  BY <1>1, SpendInv
<1>2. ASSUME NEW r \in TopupRefs, NEW gross \in TopupSizes, TopUp(r, gross)
      PROVE  TopupInv' /\ Implements
  BY <1>2, TopUpInv
<1>3. CASE OwnerOrOperator
  BY <1>3, SettingsInv, OperatorInv DEF OwnerOrOperator
<1>4. CASE \/ \E w \in Workers :
                \/ \E r \in Triggers : Pick(w, r) \/ RecoverClaim(w, r)
                \/ \E failed \in BOOLEAN : GiveUp(w, failed)
                \/ \E outcome \in Outcomes \cup {"unknown"} :
                     Answer(w, outcome) \/ LookUp(w, outcome)
                \/ Crash(w)
           \/ \E r \in Triggers : Lapse(r)
  BY <1>4, WorkerSteps
<1>5. ASSUME NEW w \in Workers, Claim(w) PROVE TopupInv' /\ Implements
  <2>1. worker[w].ref \in Triggers
    BY <1>5 DEF Claim, TopupInv, WorkerInv
  <2>2. QED BY <1>5, <2>1, ClaimInv
<1>6. ASSUME NEW w \in Workers, Post(w) \/ Record(w) \/ Mark(w)
      PROVE  TopupInv' /\ Implements
  BY <1>6, PostInv, RecordInv, MarkInv
<1>7. ASSUME NEW r \in Triggers,
             \/ \E outcome \in Outcomes : Webhook(r, outcome)
             \/ \E to \in {"processing", "captured", "declined"} : Provider(r, to)
      PROVE  TopupInv' /\ Implements
  BY <1>7, WebhookInv, ProviderInv
<1>8. CASE UNCHANGED vars
  <2>1. UNCHANGED <<walletVars, ownerVars, attemptVars, providerVars, worker, changes>>
    BY <1>8 DEF vars
  <2>2. WalletTypeOK' /\ [WalletNext]_walletVars
    BY <2>1, WalletTypeNext
  <2>3. AutoTopupTypeOK' /\ WorkerInv' /\ ConsentInv' /\ FloorInv'
    BY <2>1, <2>2
    DEF TopupInv, AutoTopupTypeOK, WorkerInv, InFlight, ConsentInv,
        FloorInv, Floor, ownerVars, attemptVars, providerVars, walletVars
  <2>4. QED BY <2>1, <2>2, <2>3, ObserverStep
            DEF TopupInv, Implements, walletVars, attemptVars, providerVars
<1>9. QED BY <1>1, <1>2, <1>3, <1>4, <1>5, <1>6, <1>7, <1>8 DEF Next


-----------------------------------------------------------------------------
(* Attempt, payment row, ledger and provider never disagree about what became
   of a charge, and no unsent attempt carries a trace of a dispatch, whatever
   crashes, repeats or arrives late (auto-topup-executor.ts:71). *)
THEOREM AttemptsAreAlwaysOK == Spec => []AttemptsOK
<1>1. TopupInv => AttemptsOK
  <2> SUFFICES ASSUME TopupInv PROVE AttemptsOK
    OBVIOUS
  <2>1. SettledTogether
    BY DEF TopupInv, AttemptInv, SettledTogether
  <2>2. UnsentLeavesNoTrace
    BY DEF TopupInv, AttemptInv, UnsentLeavesNoTrace, Unsent
  <2>3. QED BY <2>1, <2>2 DEF TopupInv, AttemptsOK
<1>2. QED BY InitTopup, NextTopup, <1>1, PTL DEF Spec

(* Workers, leases, webhooks and crashes implement the promise about the card:
   one charge open, one POST, nothing withdrawn that was asked for. *)
THEOREM AttemptsImplementChargeOnce == Spec => ImplementsChargeOnce
<1>1. TopupInv /\ [Next]_vars => [Promise!ChargeNext]_(Promise!chargeVars)
  BY NextTopup DEF Implements
<1>2. QED BY InitTopup, InitPromises, NextTopup, <1>1, PTL
          DEF Spec, ImplementsChargeOnce, Promise!ChargeSpec

(* Queueing and withdrawing attempts inside the wallet's transactions never
   bends the wallet: every step is one movement that Wallet promises. *)
THEOREM TopupKeepsWalletPromise == Spec => KeepsWalletPromise
<1>1. TopupInv /\ [Next]_vars => [WalletNext]_walletVars
  BY NextTopup DEF Implements
<1>2. QED BY InitTopup, InitPromises, NextTopup, <1>1, PTL
          DEF Spec, KeepsWalletPromise, WalletSpec

(* When a charge is let go, the owner's last consent is to this very amount
   and to the threshold the wallet is below at that moment, whatever changed
   between the trigger and the claim (auto-topup-attempts.ts). *)
THEOREM OnlyConsentedIsCharged == Spec => ChargesWhatWasConsented
<1> DEFINE Consented == \A r \in Triggers :
       status[r] = "pending" /\ status'[r] = "dispatching" =>
         /\ settings.enabled /\ settings.consent = settings.plan
         /\ settings.plan.amount = terms[r].amount
         /\ balance < settings.plan.threshold
<1>1. TopupInv /\ [Next]_vars => [Consented]_vars
  <2> SUFFICES ASSUME TopupInv, Next, NEW r \in Triggers,
                      status[r] = "pending", status'[r] = "dispatching"
               PROVE  /\ settings.enabled /\ settings.consent = settings.plan
                      /\ settings.plan.amount = terms[r].amount
                      /\ balance < settings.plan.threshold
    OBVIOUS
  <2>1. status \in [Triggers -> AttemptStatus]
    BY DEF TopupInv, AutoTopupTypeOK
  <2>2. status'[r] # status[r] /\ WithdrawUnsent[r] # "dispatching"
    BY DEF WithdrawUnsent
  <2>3. ASSUME NEW q \in Triggers, NEW amount \in Debits, Spend(q, amount)
        PROVE  FALSE
    BY <2>1, <2>2, <2>3 DEF Spend
  <2>4. ASSUME NEW q \in TopupRefs, NEW gross \in TopupSizes, TopUp(q, gross)
        PROVE  FALSE
    BY <2>2, <2>4 DEF TopUp, Receive
  <2>5. ASSUME OwnerOrOperator PROVE FALSE
    BY <2>2, <2>5 DEF OwnerOrOperator, SaveSettings, Disable, ReplaceCard,
                      SetTenant, RotateKey, CheckCountry, WriteCountry, attemptVars
  <2>6. ASSUME NEW q \in Triggers, NEW outcome, Settle(q, outcome) PROVE FALSE
    <3>1. status'[r] \in {status[r], WithdrawUnsent[r], "succeeded", "failed",
                          "uncertain"}
      BY <2>1, <2>6 DEF Settle, SettleSuccess, SettleFailure, SettlePending,
                        Receive, WithdrawUnsent
    <3>2. QED BY <2>2, <3>1
  <2>7. ASSUME NEW w \in Workers, ~Claim(w),
               \/ \E q \in Triggers : Pick(w, q) \/ RecoverClaim(w, q)
               \/ \E failed \in BOOLEAN : GiveUp(w, failed)
               \/ Claim(w) \/ Post(w) \/ Record(w) \/ Mark(w) \/ Crash(w)
               \/ \E outcome \in Outcomes \cup {"unknown"} :
                    Answer(w, outcome) \/ LookUp(w, outcome)
        PROVE  FALSE
    <3>1. CASE Record(w) \/ Mark(w)
      <4>1. worker[w].ref \in Triggers
        BY <3>1 DEF Record, Mark, TopupInv, WorkerInv
      <4>2. QED BY <2>1, <2>2, <2>6, <3>1, <4>1 DEF Record, Mark, attemptVars
    <3>2. QED BY <2>2, <2>7, <3>1
              DEF Pick, RecoverClaim, GiveUp, Post, Crash, Answer, LookUp,
                  attemptVars
  <2>8. ASSUME NEW q \in Triggers,
               \/ \E outcome \in Outcomes : Webhook(q, outcome)
               \/ \E to \in {"processing", "captured", "declined"} : Provider(q, to)
               \/ Lapse(q)
        PROVE  FALSE
    BY <2>2, <2>6, <2>8 DEF Webhook, Provider, Lapse, attemptVars
  <2>9. PICK w \in Workers : Claim(w)
    BY <2>3, <2>4, <2>5, <2>7, <2>8 DEF Next
  <2>10. QED BY <2>9 DEF Claim, Wanted, TopupInv, ConsentInv, AutoTopupTypeOK
<1>2. QED BY InitTopup, NextTopup, <1>1, PTL DEF Spec, ChargesWhatWasConsented

-----------------------------------------------------------------------------
(* What PromiseProofs proves of both promises, inherited. *)
Proved == INSTANCE PromiseProofs
  WITH stage <- [r \in Triggers |-> StageOf(r)],
       posts <- asked,
       captured <- {r \in Triggers : charge[r] = "captured"},
       credited <- {r \in Triggers : HasRow("credit", r)}

LEMMA SameCharge == ImplementsChargeOnce => Proved!ChargeSpec
<1> USE DEF Promise!Open, Proved!Open
<1>1. Promise!ChargeInit => Proved!ChargeInit
  BY DEF Promise!ChargeInit, Proved!ChargeInit
<1>2. ASSUME NEW r \in Triggers
      PROVE  /\ Promise!Queue(r) => Proved!Queue(r)
             /\ Promise!Withdraw(r) => Proved!Withdraw(r)
             /\ Promise!Submit(r) => Proved!Submit(r)
             /\ Promise!Ask(r) => Proved!Ask(r)
             /\ Promise!Capture(r) => Proved!Capture(r)
             /\ Promise!Refuse(r) => Proved!Refuse(r)
  BY DEF Promise!Queue, Proved!Queue, Promise!Withdraw, Proved!Withdraw,
         Promise!Submit, Proved!Submit, Promise!Ask, Proved!Ask,
         Promise!Capture, Proved!Capture, Promise!Refuse, Proved!Refuse
<1>3. ASSUME NEW r \in Triggers, NEW needless \in SUBSET Triggers,
             Promise!Settle(r, needless)
      PROVE  Proved!Settle(r, needless)
  BY <1>3 DEF Promise!Settle, Proved!Settle
<1>4. Promise!ChargeNext => Proved!ChargeNext
  BY <1>2, <1>3 DEF Promise!ChargeNext, Proved!ChargeNext
<1>5. [Promise!ChargeNext]_(Promise!chargeVars)
        => [Proved!ChargeNext]_(Proved!chargeVars)
  BY <1>4 DEF Promise!chargeVars, Proved!chargeVars
<1>6. QED BY <1>1, <1>5, PTL
          DEF ImplementsChargeOnce, Promise!ChargeSpec, Proved!ChargeSpec

LEMMA SameWallet == KeepsWalletPromise => Proved!WalletSpec
<1>1. WalletInit => Proved!WalletInit
  BY DEF WalletInit, Proved!WalletInit
<1>2. ASSUME NEW amount, NEW ref, Debit(amount, ref)
      PROVE  Proved!Debit(amount, ref)
  BY <1>2 DEF Debit, Proved!Debit, HasRow, Proved!HasRow, Row, Proved!Row
<1>3. ASSUME NEW net, NEW vat, NEW ref, Credit(net, vat, ref)
      PROVE  Proved!Credit(net, vat, ref)
  BY <1>3 DEF Credit, Proved!Credit, CreditRows, Proved!CreditRows, HasRow,
              Proved!HasRow, Row, Proved!Row
<1>4. ASSUME NEW low, Grant(low) PROVE Proved!Grant(low)
  BY <1>4 DEF Grant, Proved!Grant
<1>5. [WalletNext]_walletVars => [Proved!WalletNext]_(Proved!walletVars)
  BY <1>2, <1>3, <1>4 DEF WalletNext, Proved!WalletNext, walletVars,
                          Proved!walletVars
<1>6. QED BY <1>1, <1>5, PTL DEF KeepsWalletPromise, WalletSpec, Proved!WalletSpec

(* Inherited from the card's promise: the wallet is credited only for money
   that the provider took and was asked for once, by a charge nobody withdrew,
   and one attempt is open at a time. *)
THEOREM ChargedOnceAndForMoney ==
  Spec => [](Promise!CreditedWasCaptured /\ Promise!OneOpenCharge)
<1>1. Proved!CreditedWasCaptured => Promise!CreditedWasCaptured
  BY DEF Proved!CreditedWasCaptured, Promise!CreditedWasCaptured
<1>2. Proved!OneOpenCharge => Promise!OneOpenCharge
  BY DEF Proved!OneOpenCharge, Promise!OneOpenCharge, Proved!Open, Promise!Open
<1>3. /\ Proved!ChargeSpec => []Proved!CreditedWasCaptured
      /\ Proved!ChargeSpec => []Proved!OneOpenCharge
  BY WalletAssumption, Proved!CreditedWasAlwaysCaptured,
     Proved!AlwaysOneOpenCharge
<1>4. QED BY AttemptsImplementChargeOnce, SameCharge, <1>1, <1>2, <1>3, PTL

(* Inherited from the wallet's: with attempts queued, settled and withdrawn
   inside its transactions, its balance stays the running total of the ledger,
   no reference moves money twice and no debit passes the floor. *)
THEOREM TopupsKeepTheLedger ==
  Spec => [](BalanceIsLedger /\ ReferenceMovesMoneyOnce /\ NeverBelowFloor)
<1>1. Proved!BalanceIsLedger => BalanceIsLedger
  BY DEF Proved!BalanceIsLedger, BalanceIsLedger, Proved!BalanceBefore,
         BalanceBefore, Proved!Effect, Effect
<1>2. /\ Proved!ReferenceMovesMoneyOnce => ReferenceMovesMoneyOnce
      /\ Proved!NeverBelowFloor => NeverBelowFloor
  BY DEF Proved!ReferenceMovesMoneyOnce, ReferenceMovesMoneyOnce,
         Proved!NeverBelowFloor, NeverBelowFloor
<1>3. /\ Proved!WalletSpec => []Proved!BalanceIsLedger
      /\ Proved!WalletSpec => []Proved!ReferenceMovesMoneyOnce
      /\ Proved!WalletSpec => []Proved!NeverBelowFloor
  BY WalletAssumption, Proved!BalanceIsAlwaysLedger,
     Proved!ReferenceAlwaysOnce, Proved!AlwaysAboveFloor
<1>4. QED BY TopupKeepsWalletPromise, SameWallet, <1>1, <1>2, <1>3, PTL
=============================================================================
