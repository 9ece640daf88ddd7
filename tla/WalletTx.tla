------------------------------ MODULE WalletTx ------------------------------
(***************************************************************************)
(* Concurrent wallet transactions of server/utils/wallet.ts at the level   *)
(* of the row lock.  A transaction locks the wallet row (SELECT ... FOR    *)
(* UPDATE), reads the other rows it needs without locking them, and its    *)
(* writes appear at the commit that releases the lock.  Operators change   *)
(* the workspace's terms, tax rate and country meanwhile.                  *)
(***************************************************************************)
EXTENDS WalletOps, Sequences, FiniteSets

CONSTANTS
  Procs,        \* request handlers running transactions
  Ops,          \* movements callers may ask for, any number of times each
  Limits,       \* credit limits an operator may set
  VatRates,     \* tax rates (thousandths) that may apply to the workspace
  None          \* the row lock is free; a handler runs no transaction

OpRefs == {op.ref : op \in Ops}
OpType == [kind : {"debit", "credit"}, amount : Nat \ {0},
           topup : BOOLEAN, ref : OpRefs]

ASSUME WalletTxAssumption ==
  /\ Ops \subseteq OpType
  /\ Limits \subseteq Nat
  /\ VatRates \subseteq Nat
  /\ None \notin Procs

VARIABLES
  balance, ledger, currency, \* the wallet row and its ledger rows
  lock,      \* holder of the wallet row lock
  tenant,    \* the tenant row: postpaid, credit limit, billing suspension
  vatRate,   \* VAT_RATE, or the per-client override
  tx,        \* tx[p]: the transaction p runs, and what it has read
  country,   \* the country handler: "idle", or "checked" before its write
  floor      \* history: the lowest floor any terms allowed

vars == <<balance, ledger, currency, lock, tenant, vatRate, tx, country,
          floor>>

\* The tax withheld from an operation's amount, and what is left of it.
Split(op, cur, rate) ==
  LET vat == WalletCreditVat(cur, op.topup, op.amount, rate) IN
  [net |-> op.amount - vat, vat |-> vat]

Promise == INSTANCE Wallet
  WITH Refs <- OpRefs,
       Debits <- {op.amount : op \in Ops},
       Credits <- {Split(op, cur, rate) :
                     op \in Ops, cur \in Currencies, rate \in VatRates},
       Floors <- {-limit : limit \in Limits} \cup {0}

\* What a handler knows: the requested movement, the wallet row it locked, and
\* the net amount and tax it settled on.
Tx(pc, op, bal, cur, net, vat) ==
  [pc |-> pc, op |-> op, balance |-> bal, currency |-> cur,
   net |-> net, vat |-> vat]
Idle == Tx("idle", None, 0, "NGN", 0, 0)

Init ==
  /\ balance = 0 /\ ledger = <<>> /\ currency = "NGN"
  /\ lock = None
  /\ tenant = [postpaid |-> FALSE, limit |-> 0, suspended |-> FALSE]
  /\ vatRate \in VatRates
  /\ tx = [p \in Procs |-> Idle]
  /\ country = "idle"
  /\ floor = 0

-----------------------------------------------------------------------------
Begin(p, op) ==
  /\ tx[p].pc = "idle"
  /\ tx' = [tx EXCEPT ![p] = Tx("begun", op, 0, "NGN", 0, 0)]
  /\ UNCHANGED <<balance, ledger, currency, lock, tenant, vatRate, country,
                 floor>>

\* Mutant of LockWallet: a plain SELECT, which waits for nobody.
ReadWallet(p) ==
  /\ tx[p].pc = "begun"
  /\ lock' = p
  /\ tx' = [tx EXCEPT ![p] = Tx("locked", tx[p].op, balance, currency, 0, 0)]
  /\ UNCHANGED <<balance, ledger, currency, tenant, vatRate, country, floor>>

\* SELECT ... FOR UPDATE: waits for the lock, then reads the committed row.
LockWallet(p) ==
  /\ tx[p].pc = "begun"
  /\ lock = None
  /\ lock' = p
  /\ tx' = [tx EXCEPT ![p] = Tx("locked", tx[p].op, balance, currency, 0, 0)]
  /\ UNCHANGED <<balance, ledger, currency, tenant, vatRate, country, floor>>

\* Rolls back, or returns an earlier movement: nothing is written.
Finish(p) ==
  /\ lock' = None
  /\ tx' = [tx EXCEPT ![p] = Idle]

Proceed(p, split) ==
  /\ tx' = [tx EXCEPT ![p] = Tx("ready", tx[p].op, tx[p].balance,
                                 tx[p].currency, split.net, split.vat)]
  /\ UNCHANGED lock

\* Mutant of DecideDebit: no duplicate lookup.
DecideDebitAgain(p) ==
  LET op == tx[p].op IN
  /\ tx[p].pc = "locked" /\ op.kind = "debit"
  /\ IF CanSpend(tenant, tx[p].balance, op.amount)
     THEN Proceed(p, [net |-> op.amount, vat |-> 0])
     ELSE Finish(p)
  /\ UNCHANGED <<balance, ledger, currency, tenant, vatRate, country, floor>>

\* debitInTransaction: the duplicate lookup, then the tenant row, unlocked.
DecideDebit(p) ==
  LET op == tx[p].op IN
  /\ tx[p].pc = "locked" /\ op.kind = "debit"
  /\ IF ~Promise!HasRow("debit", op.ref)
        /\ CanSpend(tenant, tx[p].balance, op.amount)
     THEN Proceed(p, [net |-> op.amount, vat |-> 0])
     ELSE Finish(p)
  /\ UNCHANGED <<balance, ledger, currency, tenant, vatRate, country, floor>>

CommitDebit(p) ==
  LET op == tx[p].op
      after == tx[p].balance - op.amount IN
  /\ tx[p].pc = "ready" /\ op.kind = "debit"
  /\ balance' = after
  /\ ledger' = Append(ledger, Promise!Row("debit", op.amount, after, op.ref))
  /\ Finish(p)
  /\ UNCHANGED <<currency, tenant, vatRate, country, floor>>

\* Mutant of DecideCredit: no duplicate lookup.
DecideCreditAgain(p) ==
  /\ tx[p].pc = "locked" /\ tx[p].op.kind = "credit"
  /\ Proceed(p, Split(tx[p].op, tx[p].currency, vatRate))
  /\ UNCHANGED <<balance, ledger, currency, tenant, vatRate, country, floor>>

\* creditInTransaction: the tax at the rate in force now, then the duplicate
\* lookup.  A repeat returns the earlier movement, or throws when its net
\* differs from the one at today's rate; neither writes anything.
DecideCredit(p) ==
  LET op == tx[p].op IN
  /\ tx[p].pc = "locked" /\ op.kind = "credit"
  /\ IF Promise!HasRow("credit", op.ref)
     THEN Finish(p)
     ELSE Proceed(p, Split(op, tx[p].currency, vatRate))
  /\ UNCHANGED <<balance, ledger, currency, tenant, vatRate, country, floor>>

CommitCredit(p) ==
  LET op == tx[p].op
      after == tx[p].balance + tx[p].net
      credit == Promise!Row("credit", tx[p].net, after, op.ref)
      tax == Promise!Row("vat", tx[p].vat, after, op.ref) IN
  /\ tx[p].pc = "ready" /\ op.kind = "credit"
  /\ balance' = after
  /\ ledger' = ledger \o IF tx[p].vat > 0 THEN <<credit, tax>> ELSE <<credit>>
  /\ Finish(p)
  /\ UNCHANGED <<currency, tenant, vatRate, country, floor>>

\* The process dies: the database rolls back and frees the lock.
Crash(p) ==
  /\ tx[p].pc # "idle"
  /\ tx' = [tx EXCEPT ![p] = Idle]
  /\ lock' = IF lock = p THEN None ELSE lock
  /\ UNCHANGED <<balance, ledger, currency, tenant, vatRate, country, floor>>

-----------------------------------------------------------------------------
\* An operator turns postpaid on or off; off clears the limit.
SetTerms(postpaid, limit) ==
  /\ tenant' = [postpaid |-> postpaid, limit |-> IF postpaid THEN limit ELSE 0,
                suspended |-> tenant.suspended]
  /\ floor' = IF Floor(tenant') < floor THEN Floor(tenant') ELSE floor
  /\ UNCHANGED <<balance, ledger, currency, lock, vatRate, tx, country>>

\* Dunning suspends; the settlement after a credit lifts.
SetSuspended(suspended) ==
  /\ tenant' = [tenant EXCEPT !.suspended = suspended]
  /\ UNCHANGED <<balance, ledger, currency, lock, vatRate, tx, country, floor>>

SetVatRate(rate) ==
  /\ vatRate' = rate
  /\ UNCHANGED <<balance, ledger, currency, lock, tenant, tx, country, floor>>

\* POST country: reads the balance without a lock and rejects a funded wallet.
CheckCountry ==
  /\ country = "idle"
  /\ balance <= 0
  /\ country' = "checked"
  /\ UNCHANGED <<balance, ledger, currency, lock, tenant, vatRate, tx, floor>>

\* The UPDATE waits for the row lock; it does not look at the balance again.
WriteCountry ==
  /\ country = "checked"
  /\ lock = None
  /\ currency' = IF currency = "NGN" THEN "USD" ELSE "NGN"
  /\ country' = "idle"
  /\ UNCHANGED <<balance, ledger, lock, tenant, vatRate, tx, floor>>

Next ==
  \/ \E p \in Procs :
       \/ \E op \in Ops : Begin(p, op)
       \/ LockWallet(p)
       \/ DecideDebit(p) \/ CommitDebit(p)
       \/ DecideCredit(p) \/ CommitCredit(p)
       \/ Crash(p)
  \/ \E postpaid \in BOOLEAN, limit \in Limits : SetTerms(postpaid, limit)
  \/ \E suspended \in BOOLEAN : SetSuspended(suspended)
  \/ \E rate \in VatRates : SetVatRate(rate)
  \/ CheckCountry
  \/ WriteCountry

Spec == Init /\ [][Next]_vars

-----------------------------------------------------------------------------
TypeOK ==
  /\ balance \in Int /\ floor \in Int
  /\ ledger \in Seq(Promise!Rows)
  /\ currency \in Currencies
  /\ lock \in Procs \cup {None}
  /\ tenant \in [postpaid : BOOLEAN, limit : Nat, suspended : BOOLEAN]
  /\ vatRate \in VatRates
  /\ country \in {"idle", "checked"}
  /\ tx \in [Procs -> [pc : {"idle", "begun", "locked", "ready"},
                       op : Ops \cup {None}, balance : Int,
                       currency : Currencies, net : Nat, vat : Nat]]

(* The row-lock protocol implements the wallet's promise: every commit is one
   atomic movement of the abstract wallet, whatever was read before it. *)
ImplementsWallet == Promise!WalletSpec

(* Each row's balance-after follows from the one before it, and the wallet
   row holds the last, although transactions overlap. *)
BalanceIsLedger == Promise!BalanceIsLedger

(* Two handlers given the same reference at the same time (a provider that
   delivers a webhook twice, a cron run that overlaps another) move the money
   once. *)
ReferenceMovesMoneyOnce == Promise!ReferenceMovesMoneyOnce

(* A burst of debits cannot each see the same headroom and together exceed
   it, even while an operator changes the terms (wallet.ts:92-94). *)
NeverBelowFloor == Promise!NeverBelowFloor

(* What a customer paid is split exactly: the net credit and its tax line add
   up to the gross amount, at whatever rate was in force. *)
GrossIsNetPlusVat ==
  \A i \in 1 .. Len(ledger) : \A op \in Ops :
    ledger[i].kind = "credit" /\ op.kind = "credit" /\ op.ref = ledger[i].ref =>
      op.amount = ledger[i].amount +
        (IF /\ i < Len(ledger) /\ ledger[i + 1].kind = "vat"
            /\ ledger[i + 1].ref = op.ref
         THEN ledger[i + 1].amount ELSE 0)

(* What a customer paid is booked once and split exactly: two events of the
   same payment, or a change of the tax rate between them, book neither twice
   nor another sum. *)
PaymentIsBookedOnce == ReferenceMovesMoneyOnce /\ GrossIsNetPlusVat
=============================================================================
