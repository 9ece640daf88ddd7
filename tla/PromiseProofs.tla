---------------------------- MODULE PromiseProofs ----------------------------
(***************************************************************************)
(* The two promises about money, for every value of their constants: what  *)
(* a wallet promises, and what automatic top-up promises about the card.   *)
(* Whatever implements them inherits these facts: WalletTxProofs and       *)
(* AutoTopupProofs instantiate this module.                                *)
(*                                                                         *)
(* The wallet's inductive invariant is the conjunction of its type         *)
(* invariant and its three promises.  A step is looked at through the rows *)
(* it appends, one at a time: AppendRow says what one row preserves of a   *)
(* ledger, wherever that ledger comes from.                                *)
(*                                                                         *)
(* The argument for the card: a charge can be withdrawn only while nobody  *)
(* has asked for its money, so money that was asked for belongs to a       *)
(* charge that was submitted, and only such a charge settles.              *)
(***************************************************************************)
EXTENDS Wallet, ChargeOnce, TLAPS

-----------------------------------------------------------------------------
\* The wallet.

\* A tax line is written with its credit, so a reference that has no credit
\* yet has no tax line either.
TaxFollowsCredit ==
  \A i \in 1 .. Len(ledger) :
     ledger[i].kind = "vat" => HasRow("credit", ledger[i].ref)

WalletInv ==
  /\ WalletTypeOK
  /\ BalanceIsLedger
  /\ ReferenceMovesMoneyOnce
  /\ NeverBelowFloor
  /\ TaxFollowsCredit

\* The ledger's part of the invariant, of any ledger rows and balance.
Before(rows, i) == IF i = 1 THEN 0 ELSE rows[i - 1].after
Chains(rows, total) ==
  /\ \A i \in 1 .. Len(rows) : rows[i].after = Before(rows, i) + Effect(rows[i])
  /\ total = Before(rows, Len(rows) + 1)
Once(rows) ==
  \A i, j \in 1 .. Len(rows) :
     rows[i].kind = rows[j].kind /\ rows[i].ref = rows[j].ref => i = j
Absent(rows, row) ==
  \A i \in 1 .. Len(rows) : rows[i].kind = row.kind => rows[i].ref # row.ref

LEMMA AppendRow ==
  ASSUME NEW rows \in Seq(Rows), NEW total \in Int, NEW row \in Rows,
         Chains(rows, total), Once(rows), Absent(rows, row),
         row.after = total + Effect(row)
  PROVE  /\ Append(rows, row) \in Seq(Rows)
         /\ Chains(Append(rows, row), row.after)
         /\ Once(Append(rows, row))
<1> DEFINE longer == Append(rows, row)
<1>1. /\ longer \in Seq(Rows)
      /\ Len(rows) \in Nat
      /\ Len(longer) = Len(rows) + 1
      /\ longer[Len(rows) + 1] = row
      /\ \A i \in 1 .. Len(rows) : longer[i] = rows[i]
  OBVIOUS
<1> HIDE DEF longer
<1>2. Chains(longer, row.after)
  <2>1. ASSUME NEW i \in 1 .. Len(longer)
        PROVE  longer[i].after = Before(longer, i) + Effect(longer[i])
    <3>1. Before(longer, i) = Before(rows, i)
      BY <1>1 DEF Before
    <3>2. CASE i = Len(rows) + 1
      BY <1>1, <3>1, <3>2 DEF Chains
    <3>3. CASE i # Len(rows) + 1
      BY <1>1, <3>1, <3>3 DEF Chains
    <3>4. QED BY <3>2, <3>3
  <2>2. row.after = Before(longer, Len(longer) + 1)
    BY <1>1 DEF Before
  <2>3. QED BY <2>1, <2>2 DEF Chains
<1>3. Once(longer)
  BY <1>1 DEF Once, Absent
<1>4. QED BY <1>1, <1>2, <1>3 DEF longer

LEMMA LedgerPart ==
  /\ BalanceIsLedger <=> Chains(ledger, balance)
  /\ ReferenceMovesMoneyOnce <=> Once(ledger)
  BY DEF BalanceIsLedger, BalanceBefore, Chains, Before,
         ReferenceMovesMoneyOnce, Once

LEMMA LedgerPartNext ==
  /\ BalanceIsLedger' <=> Chains(ledger', balance')
  /\ ReferenceMovesMoneyOnce' <=> Once(ledger')
  BY DEF BalanceIsLedger, BalanceBefore, Chains, Before,
         ReferenceMovesMoneyOnce, Once

LEMMA WalletInitInv == WalletInit => WalletInv
  BY DEF WalletInit, WalletInv, WalletTypeOK, BalanceIsLedger,
         ReferenceMovesMoneyOnce, NeverBelowFloor, BalanceBefore,
         TaxFollowsCredit

LEMMA DebitKeepsInv ==
  ASSUME WalletInv, NEW amount \in Nat, NEW ref \in Refs,
         Debit(amount, ref), UNCHANGED floor
  PROVE  WalletInv'
<1> DEFINE row == Row("debit", amount, balance - amount, ref)
<1>1. row \in Rows /\ row.after = balance + Effect(row)
  BY DEF Row, Rows, Kinds, Effect, WalletInv, WalletTypeOK
<1>2. Absent(ledger, row)
  BY DEF Debit, HasRow, Absent, Row
<1>3. ledger' = Append(ledger, row) /\ balance' = row.after
  BY DEF Debit, Row
<1>4. WalletTypeOK' /\ BalanceIsLedger' /\ ReferenceMovesMoneyOnce'
  <2> HIDE DEF row
  <2>1. ledger' \in Seq(Rows) /\ Chains(ledger', balance') /\ Once(ledger')
    BY <1>1, <1>2, <1>3, AppendRow, LedgerPart DEF WalletInv, WalletTypeOK
  <2>2. QED BY <1>1, <1>3, <2>1, LedgerPartNext
            DEF WalletInv, WalletTypeOK, Rows
<1>5. NeverBelowFloor'
  BY DEF Debit, NeverBelowFloor, WalletInv, WalletTypeOK
<1>6. TaxFollowsCredit'
  <2>1. /\ ledger \in Seq(Rows) /\ row \in Rows /\ row.kind = "debit"
        /\ ledger' = Append(ledger, row)
    BY <1>1, <1>3 DEF WalletInv, WalletTypeOK, Row
  <2> HIDE DEF row
  <2>2. QED BY <2>1 DEF WalletInv, TaxFollowsCredit, HasRow
<1>7. QED BY <1>4, <1>5, <1>6 DEF WalletInv

LEMMA CreditKeepsInv ==
  ASSUME WalletInv, NEW net \in Nat, NEW vat \in Nat, NEW ref \in Refs,
         Credit(net, vat, ref), UNCHANGED floor
  PROVE  WalletInv'
<1> DEFINE credit == Row("credit", net, balance + net, ref)
           tax == Row("vat", vat, balance + net, ref)
           once == Append(ledger, credit)
           twice == Append(once, tax)
<1>1. /\ credit \in Rows /\ credit.after = balance + Effect(credit)
      /\ tax \in Rows /\ tax.after = credit.after + Effect(tax)
      /\ credit.kind = "credit" /\ credit.ref = ref
      /\ tax.kind = "vat" /\ tax.ref = ref
      /\ credit.after = balance + net /\ tax.after = balance + net
  BY DEF Row, Rows, Kinds, Effect, WalletInv, WalletTypeOK
<1>2. Absent(ledger, credit) /\ Absent(ledger, tax)
  <2>1. \A i \in 1 .. Len(ledger) :
          ledger[i].kind = "credit" => ledger[i].ref # ref
    BY DEF Credit, HasRow
  <2>2. \A i \in 1 .. Len(ledger) :
          ledger[i].kind = "vat" => ledger[i].ref # ref
    BY <2>1 DEF WalletInv, TaxFollowsCredit, HasRow
  <2>3. QED BY <1>1, <2>1, <2>2 DEF Absent
<1>3. /\ balance' = balance + net
      /\ ledger' = IF vat > 0 THEN twice ELSE once
  <2>1. /\ ledger \o <<credit>> = Append(ledger, credit)
        /\ ledger \o <<credit, tax>> = Append(Append(ledger, credit), tax)
    <3> HIDE DEF credit, tax
    <3>1. ledger \in Seq(Rows) /\ credit \in Rows /\ tax \in Rows
      BY <1>1 DEF WalletInv, WalletTypeOK
    <3>2. QED BY <3>1
  <2>2. QED BY <2>1 DEF Credit, CreditRows
<1> HIDE DEF credit, tax
<1>4. /\ balance \in Int /\ ledger \in Seq(Rows)
      /\ Chains(ledger, balance) /\ Once(ledger)
  BY LedgerPart DEF WalletInv, WalletTypeOK
<1>5. once \in Seq(Rows) /\ Chains(once, balance + net) /\ Once(once)
  BY <1>1, <1>2, <1>4, AppendRow
<1>6. Absent(once, tax)
  BY <1>1, <1>2, <1>4 DEF Absent
<1>7. twice \in Seq(Rows) /\ Chains(twice, balance + net) /\ Once(twice)
  <2>1. balance + net \in Int
    BY <1>4
  <2> HIDE DEF once
  <2>2. QED BY <1>1, <1>5, <1>6, <2>1, AppendRow
<1>8. WalletTypeOK' /\ BalanceIsLedger' /\ ReferenceMovesMoneyOnce'
  BY <1>3, <1>4, <1>5, <1>7, LedgerPartNext DEF WalletInv, WalletTypeOK
<1>9. NeverBelowFloor'
  BY <1>3, <1>4 DEF NeverBelowFloor, WalletInv, WalletTypeOK
<1>10. TaxFollowsCredit'
  <2>1. /\ Len(once) = Len(ledger) + 1 /\ Len(twice) = Len(ledger) + 2
        /\ Len(ledger) \in Nat
        /\ \A i \in 1 .. Len(ledger) : once[i] = ledger[i] /\ twice[i] = ledger[i]
        /\ once[Len(ledger) + 1] = credit /\ twice[Len(ledger) + 1] = credit
        /\ twice[Len(ledger) + 2] = tax
    BY <1>1, <1>4
  <2> HIDE DEF once, twice
  <2>2. CASE vat > 0
    BY <1>1, <1>3, <2>1, <2>2 DEF WalletInv, TaxFollowsCredit, HasRow
  <2>3. CASE ~(vat > 0)
    BY <1>1, <1>3, <2>1, <2>3 DEF WalletInv, TaxFollowsCredit, HasRow
  <2>4. QED BY <2>2, <2>3
<1>11. QED BY <1>8, <1>9, <1>10 DEF WalletInv

LEMMA GrantKeepsInv ==
  ASSUME WalletInv, NEW low \in Int, Grant(low)
  PROVE  WalletInv'
<1>1. UNCHANGED <<balance, ledger>>
  BY DEF Grant
<1>2. WalletTypeOK' /\ NeverBelowFloor'
  BY <1>1 DEF Grant, WalletInv, WalletTypeOK, NeverBelowFloor
<1>3. BalanceIsLedger' /\ ReferenceMovesMoneyOnce'
  BY <1>1, LedgerPart, LedgerPartNext DEF WalletInv
<1>4. TaxFollowsCredit'
  BY <1>1 DEF WalletInv, TaxFollowsCredit, HasRow
<1>5. QED BY <1>2, <1>3, <1>4 DEF WalletInv

LEMMA WalletNextInv == WalletInv /\ [WalletNext]_walletVars => WalletInv'
<1> SUFFICES ASSUME WalletInv, [WalletNext]_walletVars PROVE WalletInv'
  OBVIOUS
<1>1. ASSUME NEW amount \in Debits, NEW ref \in Refs,
             Debit(amount, ref) /\ UNCHANGED floor
      PROVE  WalletInv'
  BY <1>1, DebitKeepsInv, WalletAssumption
<1>2. ASSUME NEW c \in Credits, NEW ref \in Refs,
             Credit(c.net, c.vat, ref) /\ UNCHANGED floor
      PROVE  WalletInv'
  <2>1. c.net \in Nat /\ c.vat \in Nat
    BY WalletAssumption
  <2>2. QED BY <1>2, <2>1, CreditKeepsInv
<1>3. ASSUME NEW low \in Floors, Grant(low) PROVE WalletInv'
  BY <1>3, GrantKeepsInv, WalletAssumption
<1>4. CASE UNCHANGED walletVars
  <2>1. UNCHANGED <<balance, ledger, floor>>
    BY <1>4 DEF walletVars
  <2>2. QED BY <2>1 DEF WalletInv, WalletTypeOK, BalanceIsLedger, BalanceBefore,
               ReferenceMovesMoneyOnce, NeverBelowFloor, TaxFollowsCredit, HasRow
<1>5. QED BY <1>1, <1>2, <1>3, <1>4 DEF WalletNext

-----------------------------------------------------------------------------
(* The wallet's state always has its type (wallet.ts writes integers only). *)
THEOREM WalletTypeCorrect == WalletSpec => []WalletTypeOK
<1>1. WalletInv => WalletTypeOK
  BY DEF WalletInv
<1>2. QED BY WalletInitInv, WalletNextInv, <1>1, PTL DEF WalletSpec

(* The balance is reconstructable from the ledger after any history of
   movements (db/schema.ts:1104, wallet.ts:6). *)
THEOREM BalanceIsAlwaysLedger == WalletSpec => []BalanceIsLedger
<1>1. WalletInv => BalanceIsLedger
  BY DEF WalletInv
<1>2. QED BY WalletInitInv, WalletNextInv, <1>1, PTL DEF WalletSpec

(* No reference ever moves money twice in one direction (wallet.ts:85-90,
   212-219). *)
THEOREM ReferenceAlwaysOnce == WalletSpec => []ReferenceMovesMoneyOnce
<1>1. WalletInv => ReferenceMovesMoneyOnce
  BY DEF WalletInv
<1>2. QED BY WalletInitInv, WalletNextInv, <1>1, PTL DEF WalletSpec

(* A wallet never owes more than the workspace was ever allowed to owe
   (wallet.ts:65-72). *)
THEOREM AlwaysAboveFloor == WalletSpec => []NeverBelowFloor
<1>1. WalletInv => NeverBelowFloor
  BY DEF WalletInv
<1>2. QED BY WalletInitInv, WalletNextInv, <1>1, PTL DEF WalletSpec

-----------------------------------------------------------------------------
\* The card.

ChargeInv == ChargeTypeOK /\ CreditedWasCaptured /\ OneOpenCharge

LEMMA InitChargeInv == ChargeInit => ChargeInv
BY DEF ChargeInit, ChargeInv, ChargeTypeOK, CreditedWasCaptured, OneOpenCharge,
       Open, Stages

LEMMA QueueInv ==
  ASSUME ChargeInv, NEW r \in Triggers, Queue(r) PROVE ChargeInv'
<1> USE DEF ChargeInv, Queue
<1>1. ChargeTypeOK'
  BY DEF ChargeTypeOK, Stages
<1>2. CreditedWasCaptured'
  BY DEF ChargeTypeOK, CreditedWasCaptured
<1>3. OneOpenCharge'
  BY DEF ChargeTypeOK, OneOpenCharge, Open
<1>4. QED BY <1>1, <1>2, <1>3

LEMMA WithdrawInv ==
  ASSUME ChargeInv, NEW r \in Triggers, Withdraw(r) PROVE ChargeInv'
<1> USE DEF ChargeInv, Withdraw
<1>1. ChargeTypeOK'
  BY DEF ChargeTypeOK, Stages
<1>2. CreditedWasCaptured'
  BY DEF ChargeTypeOK, CreditedWasCaptured
<1>3. OneOpenCharge'
  BY DEF ChargeTypeOK, OneOpenCharge, Open
<1>4. QED BY <1>1, <1>2, <1>3

LEMMA SubmitInv ==
  ASSUME ChargeInv, NEW r \in Triggers, Submit(r) PROVE ChargeInv'
<1> USE DEF ChargeInv, Submit
<1>1. ChargeTypeOK'
  BY DEF ChargeTypeOK, Stages
<1>2. CreditedWasCaptured'
  BY DEF ChargeTypeOK, CreditedWasCaptured
<1>3. OneOpenCharge'
  BY DEF ChargeTypeOK, OneOpenCharge, Open
<1>4. QED BY <1>1, <1>2, <1>3

\* Asking, and the answer of the provider.
LEMMA ProviderInv ==
  ASSUME ChargeInv, NEW r \in Triggers, Ask(r) \/ Capture(r) \/ Refuse(r)
  PROVE  ChargeInv'
<1> USE DEF ChargeInv, Ask, Capture, Refuse
<1>1. ChargeTypeOK'
  BY DEF ChargeTypeOK, Stages
<1>2. CreditedWasCaptured'
  BY DEF ChargeTypeOK, CreditedWasCaptured
<1>3. OneOpenCharge'
  BY DEF ChargeTypeOK, OneOpenCharge, Open
<1>4. QED BY <1>1, <1>2, <1>3

LEMMA SettleInv ==
  ASSUME ChargeInv, NEW r \in Triggers, NEW needless \in SUBSET Triggers,
         Settle(r, needless)
  PROVE  ChargeInv'
<1> USE DEF ChargeInv, Settle
<1>1. ChargeTypeOK'
  BY DEF ChargeTypeOK, Stages
<1>2. \A q \in needless : posts[q] = 0 /\ q # r
  BY DEF ChargeTypeOK, CreditedWasCaptured
<1>3. CreditedWasCaptured'
  BY <1>2 DEF ChargeTypeOK, CreditedWasCaptured
<1>4. \A q \in Triggers : Open(q)' => Open(q)
  BY DEF Open, ChargeTypeOK
<1>5. OneOpenCharge'
  BY <1>4 DEF OneOpenCharge
<1>6. QED BY <1>1, <1>3, <1>5

LEMMA NextChargeInv == ChargeInv /\ [ChargeNext]_chargeVars => ChargeInv'
<1> SUFFICES ASSUME ChargeInv, [ChargeNext]_chargeVars PROVE ChargeInv'
  OBVIOUS
<1>1. CASE ChargeNext
  BY <1>1, QueueInv, WithdrawInv, SubmitInv, ProviderInv, SettleInv
  DEF ChargeNext
<1>2. CASE UNCHANGED chargeVars
  BY <1>2 DEF chargeVars, ChargeInv, ChargeTypeOK, CreditedWasCaptured,
              OneOpenCharge, Open
<1>3. QED BY <1>1, <1>2

(* Money enters the wallet only if the provider took it, and the provider
   takes only what a charge that nobody withdrew has asked for. *)
THEOREM CreditedWasAlwaysCaptured == ChargeSpec => []CreditedWasCaptured
<1>1. ChargeInv => CreditedWasCaptured
  BY DEF ChargeInv
<1>2. QED BY InitChargeInv, NextChargeInv, <1>1, PTL DEF ChargeSpec

(* However many debits cross the threshold, one charge is open at a time. *)
THEOREM AlwaysOneOpenCharge == ChargeSpec => []OneOpenCharge
<1>1. ChargeInv => OneOpenCharge
  BY DEF ChargeInv
<1>2. QED BY InitChargeInv, NextChargeInv, <1>1, PTL DEF ChargeSpec

(* Money that has reached the wallet is never taken out of the record, and no
   trigger is ever credited that the provider was not asked for. *)
THEOREM CreditIsForGood ==
  ChargeSpec => [][credited \subseteq credited'
                   /\ \A r \in credited' \ credited : posts[r] = 1]_chargeVars
<1>1. ASSUME ChargeInv, [ChargeNext]_chargeVars
      PROVE  [credited \subseteq credited'
              /\ \A r \in credited' \ credited : posts[r] = 1]_chargeVars
  BY <1>1 DEF ChargeNext, Queue, Withdraw, Submit, Ask, Capture, Refuse, Settle,
              ChargeInv, CreditedWasCaptured, chargeVars
<1>2. QED BY <1>1, InitChargeInv, NextChargeInv, PTL DEF ChargeSpec
=============================================================================
