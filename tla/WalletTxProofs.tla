--------------------------- MODULE WalletTxProofs ---------------------------
(***************************************************************************)
(* The row-lock protocol implements the wallet's promise, for any number   *)
(* of handlers, operations, limits and tax rates.  The argument: whoever   *)
(* is past LockWallet holds the lock, so what it read of the wallet row    *)
(* and of the ledger is still true when it commits; what it read of the    *)
(* tenant row may be stale, but the floor it was checked against is one    *)
(* the workspace was once granted.                                         *)
(***************************************************************************)
EXTENDS WalletTx, TLAPS

\* The tax in a gross amount is at most the amount.
LEMMA VatWithinGross ==
  ASSUME NEW amount \in Nat, NEW rate \in Nat
  PROVE  InclusiveVat(amount, rate) \in 0 .. amount
<1> DEFINE d == 1000 + rate
           n == 2 * amount * rate + d
<1>1. d \in Nat /\ d > 0 /\ amount * rate \in Nat
  OBVIOUS
<1>2. amount * rate <= amount * d
  <2>1. amount * d = amount * 1000 + amount * rate
    OBVIOUS
  <2>2. QED BY <2>1
<1>3. n \in Nat /\ n < (amount + 1) * (2 * d)
  <2>1. (amount + 1) * (2 * d) = 2 * (amount * d) + 2 * d
    BY <1>1
  <2>2. n = 2 * (amount * rate) + d
    BY <1>1
  <2>3. amount * d \in Nat
    BY <1>1
  <2> HIDE DEF n, d
  <2>4. QED BY <1>1, <1>2, <2>1, <2>2, <2>3
<1>4. n \div (2 * d) \in Nat /\ n \div (2 * d) <= amount
  <2> HIDE DEF n, d
  <2>1. \A x \in Nat, y \in Nat \ {0}, k \in Nat :
           x < (k + 1) * y => x \div y \in Nat /\ x \div y <= k
    OBVIOUS
  <2>2. QED BY <1>1, <1>3, <2>1
<1>5. QED BY <1>4 DEF InclusiveVat

LEMMA SplitTypes ==
  ASSUME NEW op \in Ops, NEW cur \in Currencies, NEW rate \in VatRates
  PROVE  Split(op, cur, rate) \in [net : Nat, vat : Nat]
<1>1. op.amount \in Nat /\ rate \in Nat
  BY WalletTxAssumption DEF OpType
<1>2. InclusiveVat(op.amount, rate) \in 0 .. op.amount
  BY <1>1, VatWithinGross
<1>3. WalletCreditVat(cur, op.topup, op.amount, rate) \in 0 .. op.amount
  BY <1>1, <1>2 DEF WalletCreditVat
<1>4. QED BY <1>1, <1>3 DEF Split

-----------------------------------------------------------------------------
Holds(p) == tx[p].pc \in {"locked", "ready"}
Splits == {Split(op, cur, rate) :
             op \in Ops, cur \in Currencies, rate \in VatRates}

\* Past the lock, a handler holds it.
LockInv == \A p \in Procs : Holds(p) <=> lock = p

\* The wallet row a handler locked has not moved since.
ReadInv == \A p \in Procs : Holds(p) => tx[p].balance = balance

\* What must be true of a transaction t that is about to commit, given the
\* ledger rows, the balance and the floor.
Cleared(rows, total, low, t) ==
  /\ \A i \in 1 .. Len(rows) :
        rows[i].kind = t.op.kind => rows[i].ref # t.op.ref
  /\ t.op.kind = "debit" => total - t.op.amount >= low
  /\ t.op.kind = "credit" => [net |-> t.net, vat |-> t.vat] \in Splits

\* A handler about to commit was told the truth about duplicates and funds.
ReadyInv ==
  \A p \in Procs :
    tx[p].pc = "ready" => Cleared(ledger, balance, floor, tx[p])

\* No terms in force allow less than the lowest floor remembered.
FloorInv == Floor(tenant) >= floor

\* Only handlers that run a transaction are past "idle".
OpInv == \A p \in Procs : tx[p].pc # "idle" => tx[p].op \in Ops

TxInv == TypeOK /\ LockInv /\ ReadInv /\ ReadyInv /\ FloorInv /\ OpInv

LEMMA InitTxInv == Init => TxInv
<1> SUFFICES ASSUME Init PROVE TxInv
  OBVIOUS
<1> USE WalletTxAssumption
<1>1. TypeOK
  BY DEF Init, TypeOK, Idle, Tx, Currencies, Promise!Rows
<1>2. LockInv /\ ReadInv /\ ReadyInv /\ OpInv
  BY DEF Init, LockInv, ReadInv, ReadyInv, OpInv, Holds, Idle, Tx
<1>3. FloorInv
  BY DEF Init, FloorInv, Floor
<1>4. QED BY <1>1, <1>2, <1>3 DEF TxInv

\* Steps that leave the wallet row, its ledger and the floor alone.
LEMMA SpectatorSteps ==
  ASSUME TxInv, UNCHANGED <<balance, ledger, floor>>, TypeOK',
         LockInv', FloorInv', OpInv',
         \A p \in Procs : Holds(p)' =>
            \/ tx'[p] = tx[p]
            \/ tx[p].pc = "begun" /\ tx'[p].balance = balance
                /\ tx'[p].pc = "locked"
  PROVE  TxInv'
<1>1. ReadInv'
  BY DEF TxInv, ReadInv, Holds
<1>2. ReadyInv'
  BY DEF TxInv, ReadyInv, Holds
<1>3. QED BY <1>1, <1>2 DEF TxInv

LEMMA BeginInv ==
  ASSUME TxInv, NEW p \in Procs, NEW op \in Ops, Begin(p, op) PROVE TxInv'
<1> USE WalletTxAssumption
<1>1. TypeOK'
  BY DEF Begin, TxInv, TypeOK, Idle, Tx, Currencies, Promise!Rows, Promise!Kinds
<1>2. LockInv' /\ OpInv'
  BY DEF Begin, TxInv, TypeOK, LockInv, OpInv, Holds, Idle, Tx
<1>3. FloorInv'
  BY DEF Begin, TxInv, FloorInv, Floor
<1>4. QED BY <1>1, <1>2, <1>3, SpectatorSteps
          DEF Begin, TxInv, TypeOK, Holds, Idle, Tx

LEMMA LockWalletInv ==
  ASSUME TxInv, NEW p \in Procs, LockWallet(p) PROVE TxInv'
<1> USE WalletTxAssumption
<1>1. TypeOK'
  BY DEF LockWallet, Tx, TxInv, TypeOK, Currencies
<1>2. LockInv' /\ OpInv'
  BY DEF LockWallet, Tx, TxInv, TypeOK, LockInv, OpInv, Holds
<1>3. FloorInv'
  BY DEF LockWallet, Tx, TxInv, FloorInv, Floor
<1>4. QED BY <1>1, <1>2, <1>3, SpectatorSteps
          DEF LockWallet, Tx, TxInv, TypeOK, Holds

\* Giving the lock back, with nothing written.
LEMMA FinishInv ==
  ASSUME TxInv, NEW p \in Procs, Holds(p), Finish(p), TypeOK', FloorInv',
         UNCHANGED <<balance, ledger, floor>>
  PROVE  TxInv'
<1>1. LockInv' /\ OpInv'
  BY WalletTxAssumption DEF Finish, TxInv, TypeOK, LockInv, OpInv, Holds, Idle, Tx
<1>2. QED BY <1>1, SpectatorSteps DEF Finish, TxInv, TypeOK, Holds, Idle, Tx

\* A decision to commit, taken with the truth in hand.
LEMMA ProceedInv ==
  ASSUME TxInv, NEW p \in Procs, NEW split \in [net : Nat, vat : Nat],
         tx[p].pc = "locked", Proceed(p, split), TypeOK',
         UNCHANGED <<balance, ledger, floor, tenant>>,
         ~Promise!HasRow(tx[p].op.kind, tx[p].op.ref),
         tx[p].op.kind = "debit" => balance - tx[p].op.amount >= floor,
         tx[p].op.kind = "credit" => split \in Splits
  PROVE  TxInv'
<1>1. /\ tx' = [tx EXCEPT ![p] = tx'[p]] /\ tx'[p].pc = "ready"
      /\ tx'[p].op = tx[p].op /\ tx'[p].balance = tx[p].balance
      /\ tx'[p].net = split.net /\ tx'[p].vat = split.vat
      /\ lock' = lock
  BY DEF Proceed, Tx, TxInv, TypeOK
<1>2. LockInv' /\ OpInv' /\ ReadInv'
  <2>1. \A q \in Procs : q # p => tx'[q] = tx[q]
    BY <1>1 DEF TxInv, TypeOK
  <2>2. Holds(p) /\ Holds(p)'
    BY <1>1 DEF Holds
  <2>3. LockInv' /\ ReadInv'
    BY <1>1, <2>1, <2>2 DEF TxInv, LockInv, ReadInv, Holds
  <2>4. OpInv'
    BY <1>1, <2>1 DEF TxInv, OpInv
  <2>5. QED BY <2>3, <2>4
<1>3. split = [net |-> split.net, vat |-> split.vat]
  OBVIOUS
<1>4. ReadyInv'
  <2>1. Cleared(ledger, balance, floor, tx'[p])
    BY <1>1, <1>3 DEF Cleared, Promise!HasRow
  <2>2. ASSUME NEW q \in Procs, q # p PROVE tx'[q] = tx[q]
    BY <1>1, <2>2 DEF TxInv, TypeOK
  <2>3. QED BY <2>1, <2>2 DEF TxInv, ReadyInv
<1>5. FloorInv'
  BY DEF TxInv, FloorInv
<1>6. QED BY <1>2, <1>4, <1>5 DEF TxInv

LEMMA DecideDebitInv ==
  ASSUME TxInv, NEW p \in Procs, DecideDebit(p) PROVE TxInv'
<1>1. /\ tx[p].op \in Ops /\ Holds(p) /\ tx[p].balance = balance
      /\ tx[p].op.amount \in Nat
  BY WalletTxAssumption
  DEF DecideDebit, TxInv, OpInv, ReadInv, Holds, OpType
<1> DEFINE whole == [net |-> tx[p].op.amount, vat |-> 0]
<1>2. whole \in [net : Nat, vat : Nat]
  BY <1>1
<1>3. CASE Proceed(p, whole) /\ ~Promise!HasRow("debit", tx[p].op.ref)
           /\ CanSpend(tenant, tx[p].balance, tx[p].op.amount)
  <2>1. TypeOK'
    BY <1>1, <1>3 DEF DecideDebit, Proceed, Tx, TxInv, TypeOK
  <2>2. balance - tx[p].op.amount >= floor
    <3>1. balance \in Int /\ floor \in Int /\ Floor(tenant) \in Int
      BY DEF TxInv, TypeOK, Floor
    <3>2. QED BY <1>1, <1>3, <3>1 DEF CanSpend, TxInv, FloorInv
  <2>3. tx[p].op.kind = "debit" /\ tx[p].pc = "locked"
        /\ UNCHANGED <<balance, ledger, floor, tenant>>
    BY DEF DecideDebit
  <2> HIDE DEF whole
  <2>4. QED BY <1>2, <1>3, <2>1, <2>2, <2>3, ProceedInv
<1>4. CASE Finish(p)
  <2>1. TypeOK'
    BY <1>4, WalletTxAssumption
    DEF DecideDebit, Finish, Idle, Tx, TxInv, TypeOK, Currencies
  <2>2. FloorInv'
    BY DEF DecideDebit, TxInv, FloorInv
  <2>3. QED BY <1>1, <1>4, <2>1, <2>2, FinishInv DEF DecideDebit
<1>5. QED BY <1>3, <1>4 DEF DecideDebit

LEMMA DecideCreditInv ==
  ASSUME TxInv, NEW p \in Procs, DecideCredit(p) PROVE TxInv'
<1> DEFINE split == Split(tx[p].op, tx[p].currency, vatRate)
<1>1. /\ tx[p].op \in Ops /\ Holds(p) /\ tx[p].op.ref \in OpRefs
      /\ tx[p].currency \in Currencies /\ vatRate \in VatRates
  BY DEF DecideCredit, TxInv, TypeOK, OpInv, Holds, OpRefs
<1>2. split \in [net : Nat, vat : Nat] /\ split \in Splits
  BY <1>1, SplitTypes DEF Splits
<1>3. CASE Proceed(p, split) /\ ~Promise!HasRow("credit", tx[p].op.ref)
  <2> HIDE DEF split
  <2>1. TypeOK'
    BY <1>2, <1>3 DEF DecideCredit, Proceed, Tx, TxInv, TypeOK
  <2>2. tx[p].op.kind = "credit" /\ tx[p].pc = "locked"
        /\ UNCHANGED <<balance, ledger, floor, tenant>>
    BY DEF DecideCredit
  <2>3. QED BY <1>2, <1>3, <2>1, <2>2, ProceedInv
<1>4. CASE Finish(p)
  <2>1. TypeOK'
    BY <1>1, <1>4, WalletTxAssumption
    DEF DecideCredit, Finish, Idle, Tx, TxInv, TypeOK, Currencies
  <2>2. FloorInv'
    BY DEF DecideCredit, TxInv, FloorInv
  <2>3. QED BY <1>1, <1>4, <2>1, <2>2, FinishInv DEF DecideCredit
<1>5. QED BY <1>3, <1>4 DEF DecideCredit

\* A commit moves the wallet; nobody else had read it.
LEMMA CommitInv ==
  ASSUME TxInv, NEW p \in Procs, Holds(p), Finish(p), TypeOK', FloorInv'
  PROVE  TxInv'
<1>1. LockInv' /\ OpInv'
  BY WalletTxAssumption DEF Finish, TxInv, TypeOK, LockInv, OpInv, Holds, Idle, Tx
<1>2. \A q \in Procs : ~Holds(q)'
  BY WalletTxAssumption DEF Finish, TxInv, TypeOK, LockInv, Holds, Idle, Tx
<1>3. ReadInv' /\ ReadyInv'
  BY <1>2 DEF ReadInv, ReadyInv, Holds
<1>4. QED BY <1>1, <1>3 DEF TxInv

LEMMA CommitDebitInv ==
  ASSUME TxInv, NEW p \in Procs, CommitDebit(p)
  PROVE  TxInv' /\ \E amount \in {op.amount : op \in Ops}, ref \in OpRefs :
                      Promise!Debit(amount, ref) /\ UNCHANGED floor
<1> DEFINE op == tx[p].op
           row == Promise!Row("debit", op.amount, balance - op.amount, op.ref)
<1>1. /\ op \in Ops /\ Holds(p) /\ tx[p].balance = balance
      /\ op.kind = "debit" /\ op.amount \in Nat /\ op.ref \in OpRefs
      /\ Cleared(ledger, balance, floor, tx[p])
  BY WalletTxAssumption
  DEF CommitDebit, TxInv, OpInv, ReadInv, ReadyInv, Holds, OpType, OpRefs
<1>2. row \in Promise!Rows
  BY <1>1 DEF Promise!Row, Promise!Rows, Promise!Kinds, TxInv, TypeOK
<1>3. ledger' = Append(ledger, row) /\ balance' = balance - op.amount
  BY <1>1 DEF CommitDebit
<1>4. TypeOK'
  <2> HIDE DEF row
  <2>1. ledger' \in Seq(Promise!Rows) /\ balance' \in Int
    BY <1>1, <1>2, <1>3 DEF TxInv, TypeOK
  <2>2. QED BY <2>1, WalletTxAssumption
            DEF CommitDebit, Finish, Idle, Tx, TxInv, TypeOK, Currencies
<1>5. FloorInv'
  BY DEF CommitDebit, TxInv, FloorInv
<1>6. TxInv'
  BY <1>1, <1>4, <1>5, CommitInv DEF CommitDebit
<1>7. Promise!Debit(op.amount, op.ref) /\ UNCHANGED floor
  BY <1>1, <1>3 DEF Promise!Debit, Promise!HasRow, Cleared, CommitDebit
<1>8. QED BY <1>1, <1>6, <1>7

LEMMA CommitCreditInv ==
  ASSUME TxInv, NEW p \in Procs, CommitCredit(p)
  PROVE  TxInv' /\ \E c \in Splits, ref \in OpRefs :
                      Promise!Credit(c.net, c.vat, ref) /\ UNCHANGED floor
<1> DEFINE op == tx[p].op
           split == [net |-> tx[p].net, vat |-> tx[p].vat]
           after == balance + tx[p].net
           credit == Promise!Row("credit", tx[p].net, after, op.ref)
           tax == Promise!Row("vat", tx[p].vat, after, op.ref)
<1>1. /\ op \in Ops /\ Holds(p) /\ tx[p].balance = balance
      /\ op.kind = "credit" /\ op.ref \in OpRefs
      /\ Cleared(ledger, balance, floor, tx[p])
      /\ tx[p].net \in Nat /\ tx[p].vat \in Nat /\ split \in Splits
  BY DEF CommitCredit, TxInv, TypeOK, OpInv, ReadInv, ReadyInv, Holds, OpRefs,
         Cleared
<1>2. credit \in Promise!Rows /\ tax \in Promise!Rows /\ after \in Int
  BY <1>1 DEF Promise!Row, Promise!Rows, Promise!Kinds, TxInv, TypeOK
<1>3. /\ balance' = after
      /\ ledger' = ledger \o IF tx[p].vat > 0 THEN <<credit, tax>> ELSE <<credit>>
  BY <1>1 DEF CommitCredit
<1>4. Promise!Credit(tx[p].net, tx[p].vat, op.ref) /\ UNCHANGED floor
  <2>1. ~Promise!HasRow("credit", op.ref)
    BY <1>1 DEF Cleared, Promise!HasRow
  <2>2. QED BY <1>3, <2>1
            DEF Promise!Credit, Promise!CreditRows, CommitCredit
<1>5. TypeOK'
  <2> HIDE DEF credit, tax, after
  <2>1. ledger' \in Seq(Promise!Rows) /\ balance' \in Int
    <3>1. ledger \in Seq(Promise!Rows)
      BY DEF TxInv, TypeOK
    <3>2. <<credit, tax>> \in Seq(Promise!Rows) /\ <<credit>> \in Seq(Promise!Rows)
      BY <1>2
    <3>3. QED BY <1>2, <1>3, <3>1, <3>2
  <2>2. QED BY <2>1, WalletTxAssumption
            DEF CommitCredit, Finish, Idle, Tx, TxInv, TypeOK, Currencies
<1>6. FloorInv'
  BY DEF CommitCredit, TxInv, FloorInv
<1>7. TxInv'
  BY <1>1, <1>5, <1>6, CommitInv DEF CommitCredit
<1>8. split.net = tx[p].net /\ split.vat = tx[p].vat
  OBVIOUS
<1>9. QED BY <1>1, <1>4, <1>7, <1>8

LEMMA CrashInv ==
  ASSUME TxInv, NEW p \in Procs, Crash(p) PROVE TxInv'
<1>1. TypeOK'
  BY WalletTxAssumption DEF Crash, Idle, Tx, TxInv, TypeOK, Currencies
<1>2. LockInv' /\ OpInv'
  BY WalletTxAssumption
  DEF Crash, TxInv, TypeOK, LockInv, OpInv, Holds, Idle, Tx
<1>3. FloorInv'
  BY DEF Crash, TxInv, FloorInv
<1>4. QED BY <1>1, <1>2, <1>3, SpectatorSteps
          DEF Crash, TxInv, TypeOK, Holds, Idle, Tx

LEMMA SetTermsInv ==
  ASSUME TxInv, NEW postpaid \in BOOLEAN, NEW limit \in Limits,
         SetTerms(postpaid, limit)
  PROVE  TxInv' /\ \E low \in {-x : x \in Limits} \cup {0} : Promise!Grant(low)
<1>1. limit \in Nat /\ balance \in Int /\ floor \in Int
  BY WalletTxAssumption DEF TxInv, TypeOK
<1>2. Floor(tenant') = IF postpaid THEN -limit ELSE 0
  BY DEF SetTerms, Floor
<1>3. floor' \in Int /\ floor' <= floor /\ Floor(tenant') >= floor'
  BY <1>1, <1>2 DEF SetTerms
<1>4. TypeOK'
  BY <1>1, <1>3 DEF SetTerms, TxInv, TypeOK
<1>5. LockInv' /\ OpInv' /\ ReadInv'
  BY DEF SetTerms, TxInv, LockInv, OpInv, ReadInv, Holds
<1>6. ReadyInv'
  <2>1. ASSUME NEW p \in Procs, tx[p].pc = "ready"
        PROVE  Cleared(ledger, balance, floor', tx[p])
    <3>1. tx[p].op \in Ops /\ Cleared(ledger, balance, floor, tx[p])
      BY <2>1 DEF TxInv, ReadyInv, OpInv
    <3>2. tx[p].op.amount \in Int
      BY <3>1, WalletTxAssumption DEF OpType
    <3>3. QED BY <1>1, <1>3, <3>1, <3>2 DEF Cleared
  <2>2. QED BY <2>1 DEF SetTerms, ReadyInv
<1>7. FloorInv'
  BY <1>3 DEF FloorInv, Floor
<1>8. Promise!Grant(IF postpaid THEN -limit ELSE 0)
  BY <1>2 DEF SetTerms, Promise!Grant
<1>9. QED BY <1>4, <1>5, <1>6, <1>7, <1>8 DEF TxInv

LEMMA OperatorInv ==
  ASSUME TxInv,
         \/ \E suspended \in BOOLEAN : SetSuspended(suspended)
         \/ \E rate \in VatRates : SetVatRate(rate)
         \/ CheckCountry
  PROVE  TxInv'
<1> USE DEF SetSuspended, SetVatRate, CheckCountry
<1>1. TypeOK'
  BY DEF TxInv, TypeOK
<1>2. LockInv' /\ OpInv'
  BY DEF TxInv, LockInv, OpInv, Holds
<1>3. FloorInv'
  BY DEF TxInv, TypeOK, FloorInv, Floor
<1>4. QED BY <1>1, <1>2, <1>3, SpectatorSteps DEF Holds

LEMMA WriteCountryInv ==
  ASSUME TxInv, WriteCountry PROVE TxInv'
<1>1. TypeOK'
  BY DEF WriteCountry, TxInv, TypeOK, Currencies
<1>2. LockInv' /\ OpInv'
  BY DEF WriteCountry, TxInv, LockInv, OpInv, Holds
<1>3. FloorInv'
  BY DEF WriteCountry, TxInv, FloorInv
<1>4. QED BY <1>1, <1>2, <1>3, SpectatorSteps DEF WriteCountry, Holds

-----------------------------------------------------------------------------
LEMMA NextTxInv ==
  ASSUME TxInv, [Next]_vars
  PROVE  TxInv' /\ [Promise!WalletNext]_(Promise!walletVars)
<1> USE DEF Promise!walletVars
<1>1. ASSUME NEW p \in Procs, NEW op \in Ops, Begin(p, op)
      PROVE  TxInv' /\ UNCHANGED Promise!walletVars
  BY <1>1, BeginInv DEF Begin
<1>2. ASSUME NEW p \in Procs, LockWallet(p)
      PROVE  TxInv' /\ UNCHANGED Promise!walletVars
  BY <1>2, LockWalletInv DEF LockWallet
<1>3. ASSUME NEW p \in Procs, DecideDebit(p)
      PROVE  TxInv' /\ UNCHANGED Promise!walletVars
  BY <1>3, DecideDebitInv DEF DecideDebit
<1>4. ASSUME NEW p \in Procs, DecideCredit(p)
      PROVE  TxInv' /\ UNCHANGED Promise!walletVars
  BY <1>4, DecideCreditInv DEF DecideCredit
<1>5. ASSUME NEW p \in Procs, CommitDebit(p) \/ CommitCredit(p)
      PROVE  TxInv' /\ Promise!WalletNext
  BY <1>5, CommitDebitInv, CommitCreditInv DEF Promise!WalletNext, Splits
<1>6. ASSUME NEW p \in Procs, Crash(p)
      PROVE  TxInv' /\ UNCHANGED Promise!walletVars
  BY <1>6, CrashInv DEF Crash
<1>7. ASSUME NEW postpaid \in BOOLEAN, NEW limit \in Limits,
             SetTerms(postpaid, limit)
      PROVE  TxInv' /\ Promise!WalletNext
  BY <1>7, SetTermsInv DEF Promise!WalletNext
<1>8. CASE \/ \E suspended \in BOOLEAN : SetSuspended(suspended)
           \/ \E rate \in VatRates : SetVatRate(rate)
           \/ CheckCountry
  BY <1>8, OperatorInv DEF SetSuspended, SetVatRate, CheckCountry
<1>9. CASE WriteCountry
  BY <1>9, WriteCountryInv DEF WriteCountry
<1>10. CASE UNCHANGED vars
  BY <1>10 DEF vars, TxInv, TypeOK, LockInv, ReadInv, ReadyInv, FloorInv, OpInv,
            Holds
<1>11. QED BY <1>1, <1>2, <1>3, <1>4, <1>5, <1>6, <1>7, <1>8, <1>9, <1>10 DEF Next

(* The state of the lock protocol always has its type. *)
THEOREM TxTypeCorrect == Spec => []TypeOK
<1>1. TxInv => TypeOK
  BY DEF TxInv
<1>2. TxInv /\ [Next]_vars => TxInv'
  BY NextTxInv
<1>3. QED BY InitTxInv, <1>1, <1>2, PTL DEF Spec

(* Overlapping transactions on the row lock implement the atomic wallet:
   every commit of wallet.ts:76-160 and 192-261 is one movement of it. *)
THEOREM LocksImplementWallet == Spec => ImplementsWallet
<1>1. Init => Promise!WalletInit
  BY DEF Init, Promise!WalletInit
<1>2. TxInv /\ [Next]_vars => TxInv'
  BY NextTxInv
<1>3. TxInv /\ [Next]_vars => [Promise!WalletNext]_(Promise!walletVars)
  BY NextTxInv
<1>4. QED BY InitTxInv, <1>1, <1>2, <1>3, PTL
          DEF Spec, ImplementsWallet, Promise!WalletSpec

-----------------------------------------------------------------------------
(* What PromiseProofs proves of the wallet, said of the references, amounts and
   floors of WalletTx.  No card is charged here: there are no triggers. *)
Proved == INSTANCE PromiseProofs
  WITH Refs <- OpRefs,
       Debits <- {op.amount : op \in Ops},
       Credits <- {Split(op, cur, rate) :
                     op \in Ops, cur \in Currencies, rate \in VatRates},
       Floors <- {-limit : limit \in Limits} \cup {0},
       Triggers <- {}, stage <- <<>>, posts <- <<>>,
       captured <- {}, credited <- {}

LEMMA PromiseAssumption ==
  /\ {op.amount : op \in Ops} \subseteq Nat
  /\ {Split(op, cur, rate) : op \in Ops, cur \in Currencies, rate \in VatRates}
       \subseteq [net : Nat, vat : Nat]
  /\ {-limit : limit \in Limits} \cup {0} \subseteq Int
<1>1. \A op \in Ops : op \in OpType
  BY WalletTxAssumption
<1>2. ASSUME NEW op \in Ops, NEW cur \in Currencies, NEW rate \in VatRates
      PROVE  Split(op, cur, rate) \in [net : Nat, vat : Nat]
  BY SplitTypes
<1> QED BY <1>1, <1>2, WalletTxAssumption DEF OpType

LEMMA SamePromise == Promise!WalletSpec => Proved!WalletSpec
<1>1. Promise!WalletInit => Proved!WalletInit
  BY DEF Promise!WalletInit, Proved!WalletInit
<1>2. ASSUME NEW amount, NEW ref, Promise!Debit(amount, ref)
      PROVE  Proved!Debit(amount, ref)
  BY <1>2 DEF Promise!Debit, Proved!Debit, Promise!HasRow, Proved!HasRow,
              Promise!Row, Proved!Row
<1>3. ASSUME NEW net, NEW vat, NEW ref, Promise!Credit(net, vat, ref)
      PROVE  Proved!Credit(net, vat, ref)
  BY <1>3 DEF Promise!Credit, Proved!Credit, Promise!CreditRows,
              Proved!CreditRows, Promise!HasRow, Proved!HasRow, Promise!Row,
              Proved!Row
<1>4. ASSUME NEW low, Promise!Grant(low) PROVE Proved!Grant(low)
  BY <1>4 DEF Promise!Grant, Proved!Grant
<1>5. Promise!WalletNext => Proved!WalletNext
  BY <1>2, <1>3, <1>4 DEF Promise!WalletNext, Proved!WalletNext
<1>6. Promise!walletVars = Proved!walletVars
  BY DEF Promise!walletVars, Proved!walletVars
<1>7. [Promise!WalletNext]_(Promise!walletVars)
        => [Proved!WalletNext]_(Proved!walletVars)
  BY <1>5, <1>6 DEF Promise!walletVars, Proved!walletVars
<1> QED BY <1>1, <1>7, PTL DEF Promise!WalletSpec, Proved!WalletSpec

(* Under the row lock the balance stays the running total of the ledger,
   however many handlers overlap and crash (wallet.ts:76-160, 192-261). *)
THEOREM LockedBalanceIsLedger == Spec => []BalanceIsLedger
<1>1. Proved!WalletSpec => []Proved!BalanceIsLedger
  BY PromiseAssumption, Proved!BalanceIsAlwaysLedger
<1>2. Proved!BalanceIsLedger => BalanceIsLedger
  BY DEF Proved!BalanceIsLedger, BalanceIsLedger, Promise!BalanceIsLedger,
         Proved!BalanceBefore, Promise!BalanceBefore, Proved!Effect,
         Promise!Effect
<1> QED BY <1>1, <1>2, SamePromise, LocksImplementWallet, PTL DEF ImplementsWallet

(* No burst of debits passes the floor, however many handlers see the same
   headroom (wallet.ts:92-94). *)
THEOREM LockedNeverBelowFloor == Spec => []NeverBelowFloor
<1>1. Proved!WalletSpec => []Proved!NeverBelowFloor
  BY PromiseAssumption, Proved!AlwaysAboveFloor
<1>2. Proved!NeverBelowFloor => NeverBelowFloor
  BY DEF Proved!NeverBelowFloor, NeverBelowFloor, Promise!NeverBelowFloor
<1> QED BY <1>1, <1>2, SamePromise, LocksImplementWallet, PTL DEF ImplementsWallet

(* Two handlers that are given one reference move the money once
   (wallet.ts:85-90, 212-219). *)
THEOREM LockedReferenceOnce == Spec => []ReferenceMovesMoneyOnce
<1>1. Proved!WalletSpec => []Proved!ReferenceMovesMoneyOnce
  BY PromiseAssumption, Proved!ReferenceAlwaysOnce
<1>2. Proved!ReferenceMovesMoneyOnce => ReferenceMovesMoneyOnce
  BY DEF Proved!ReferenceMovesMoneyOnce, ReferenceMovesMoneyOnce,
         Promise!ReferenceMovesMoneyOnce
<1> QED BY <1>1, <1>2, SamePromise, LocksImplementWallet, PTL DEF ImplementsWallet

-----------------------------------------------------------------------------
(* What is booked of a payment.  A handler about to commit a credit has split
   the whole amount it was asked to book, and each credit row and the tax line
   behind it add up to an amount somebody was asked to book. *)
SplitInv ==
  \A p \in Procs :
    tx[p].pc = "ready" /\ tx[p].op.kind = "credit" =>
      tx[p].net + tx[p].vat = tx[p].op.amount

\* The tax line of a row: the next one, when it carries the same reference.
TaxLine(rows, i) ==
  IF i < Len(rows) /\ rows[i + 1].kind = "vat" /\ rows[i + 1].ref = rows[i].ref
  THEN rows[i + 1].amount ELSE 0

BookedWhole(rows, i) ==
  \E op \in Ops : /\ op.kind = "credit" /\ op.ref = rows[i].ref
                  /\ op.amount = rows[i].amount + TaxLine(rows, i)

GrossInv ==
  \A i \in 1 .. Len(ledger) : ledger[i].kind = "credit" => BookedWhole(ledger, i)

LEMMA SplitIsWhole ==
  ASSUME NEW op \in Ops, NEW cur \in Currencies, NEW rate \in VatRates
  PROVE  Split(op, cur, rate).net + Split(op, cur, rate).vat = op.amount
<1>1. op.amount \in Nat /\ rate \in Nat
  BY WalletTxAssumption DEF OpType
<1>2. InclusiveVat(op.amount, rate) \in 0 .. op.amount
  BY <1>1, VatWithinGross
<1>3. WalletCreditVat(cur, op.topup, op.amount, rate) \in 0 .. op.amount
  BY <1>1, <1>2 DEF WalletCreditVat
<1>4. QED BY <1>1, <1>3 DEF Split

\* Rows are only ever appended, and what is appended begins with a movement,
\* so no row of before gets another tax line.
Appends(rows) ==
  /\ rows \in Seq(Promise!Rows) /\ Len(rows) > 0 /\ rows[1].kind # "vat"
  /\ Len(ledger') = Len(ledger) + Len(rows)
  /\ \A i \in 1 .. Len(ledger) : ledger'[i] = ledger[i]
  /\ \A i \in 1 .. Len(rows) :
       /\ ledger'[Len(ledger) + i] = rows[i]
       /\ rows[i].kind = "credit" => BookedWhole(rows, i)

LEMMA AppendKeepsGross ==
  ASSUME TxInv, GrossInv, NEW rows, Appends(rows) PROVE GrossInv'
<1> USE DEF Appends
<1>1. ledger \in Seq(Promise!Rows)
  BY DEF TxInv, TypeOK
<1>2. Len(ledger) \in Nat /\ Len(rows) \in Nat
  BY <1>1
<1>3. ASSUME NEW i \in 1 .. Len(ledger), ledger'[i].kind = "credit"
      PROVE  BookedWhole(ledger', i)
  <2>1. ledger'[i] = ledger[i] /\ BookedWhole(ledger, i)
    BY <1>2, <1>3 DEF GrossInv
  <2>2. TaxLine(ledger', i) = TaxLine(ledger, i)
    <3>1. CASE i < Len(ledger)
      <4>1. i + 1 \in 1 .. Len(ledger) /\ i < Len(ledger')
        BY <1>2, <3>1
      <4>2. ledger'[i + 1] = ledger[i + 1]
        BY <4>1
      <4> HIDE DEF Appends
      <4>3. QED BY <2>1, <3>1, <4>1, <4>2 DEF TaxLine
    <3>2. CASE i = Len(ledger)
      <4>1. ledger'[i + 1] = rows[1]
        BY <1>2, <3>2
      <4>2. QED BY <3>2, <4>1 DEF TaxLine
    <3>3. QED BY <1>2, <3>1, <3>2
  <2>3. QED BY <2>1, <2>2 DEF BookedWhole
<1>4. ASSUME NEW i \in 1 .. Len(rows), rows[i].kind = "credit"
      PROVE  BookedWhole(ledger', Len(ledger) + i)
  <2>1. /\ ledger'[Len(ledger) + i] = rows[i]
        /\ i < Len(rows) => ledger'[(Len(ledger) + i) + 1] = rows[i + 1]
        /\ (Len(ledger) + i < Len(ledger')) <=> (i < Len(rows))
    <3>1. i < Len(rows) => i + 1 \in 1 .. Len(rows)
                           /\ (Len(ledger) + i) + 1 = Len(ledger) + (i + 1)
      BY <1>2
    <3>2. QED BY <1>2, <3>1
  <2>2. TaxLine(ledger', Len(ledger) + i) = TaxLine(rows, i)
    BY <2>1 DEF TaxLine
  <2>3. QED BY <1>4, <2>1, <2>2 DEF BookedWhole
<1>5. ASSUME NEW k \in 1 .. Len(ledger'), ledger'[k].kind = "credit"
      PROVE  BookedWhole(ledger', k)
  <2>1. CASE k \in 1 .. Len(ledger)
    BY <1>3, <1>5, <2>1
  <2>2. CASE k \notin 1 .. Len(ledger)
    <3>1. k - Len(ledger) \in 1 .. Len(rows) /\ Len(ledger) + (k - Len(ledger)) = k
      BY <1>2, <2>2
    <3>2. QED BY <1>2, <1>4, <1>5, <3>1
  <2>3. QED BY <2>1, <2>2
<1>6. QED BY <1>5 DEF GrossInv

LEMMA CommitGross ==
  ASSUME TxInv, SplitInv, GrossInv, NEW p \in Procs,
         CommitDebit(p) \/ CommitCredit(p)
  PROVE  GrossInv'
<1> DEFINE op == tx[p].op
           debit == Promise!Row("debit", op.amount, balance - op.amount, op.ref)
           credit == Promise!Row("credit", tx[p].net, balance + tx[p].net, op.ref)
           tax == Promise!Row("vat", tx[p].vat, balance + tx[p].net, op.ref)
<1>1. /\ op \in Ops /\ tx[p].balance = balance /\ op.amount \in Nat
      /\ op.ref \in OpRefs /\ balance \in Int
      /\ tx[p].net \in Nat /\ tx[p].vat \in Nat
      /\ op.kind = "credit" => tx[p].net + tx[p].vat = op.amount
  BY WalletTxAssumption
  DEF CommitDebit, CommitCredit, TxInv, TypeOK, OpInv, ReadInv, Holds, OpType,
      OpRefs, SplitInv
<1>2. /\ debit \in Promise!Rows /\ credit \in Promise!Rows /\ tax \in Promise!Rows
      /\ debit.kind = "debit"
      /\ credit.kind = "credit" /\ credit.ref = op.ref /\ credit.amount = tx[p].net
      /\ tax.kind = "vat" /\ tax.ref = op.ref /\ tax.amount = tx[p].vat
  BY <1>1 DEF Promise!Row, Promise!Rows, Promise!Kinds
<1>3. /\ CommitDebit(p) => ledger' = Append(ledger, debit)
      /\ CommitCredit(p) =>
           /\ op.kind = "credit"
           /\ ledger' = ledger \o IF tx[p].vat > 0 THEN <<credit, tax>>
                                  ELSE <<credit>>
  BY <1>1 DEF CommitDebit, CommitCredit
<1> HIDE DEF debit, credit, tax
<1>4. ledger \in Seq(Promise!Rows)
  BY DEF TxInv, TypeOK
<1>5. CASE CommitDebit(p)
  <2> DEFINE rows == <<debit>>
  <2>1. rows \in Seq(Promise!Rows) /\ Len(rows) = 1 /\ rows[1] = debit
    BY <1>2
  <2>2. /\ Len(ledger') = Len(ledger) + 1 /\ ledger'[Len(ledger) + 1] = debit
        /\ \A i \in 1 .. Len(ledger) : ledger'[i] = ledger[i]
    BY <1>3, <1>4, <1>5
  <2> HIDE DEF rows
  <2>3. \A i \in 1 .. Len(rows) : /\ ledger'[Len(ledger) + i] = rows[i]
                                  /\ rows[i].kind # "credit"
    BY <1>2, <2>1, <2>2
  <2>4. Appends(rows)
    BY <1>2, <2>1, <2>2, <2>3 DEF Appends
  <2>5. QED BY <2>4, AppendKeepsGross
<1>6. CASE CommitCredit(p) /\ tx[p].vat > 0
  <2> DEFINE rows == <<credit, tax>>
  <2>1. /\ rows \in Seq(Promise!Rows) /\ Len(rows) = 2
        /\ rows[1] = credit /\ rows[2] = tax
    BY <1>2
  <2>2. /\ Len(ledger') = Len(ledger) + 2
        /\ ledger'[Len(ledger) + 1] = credit /\ ledger'[Len(ledger) + 2] = tax
        /\ \A i \in 1 .. Len(ledger) : ledger'[i] = ledger[i]
    BY <1>3, <1>4, <1>6
  <2> HIDE DEF rows
  <2>3. TaxLine(rows, 1) = tx[p].vat
    BY <1>2, <2>1 DEF TaxLine
  <2>4. BookedWhole(rows, 1)
    BY <1>1, <1>2, <1>3, <1>6, <2>1, <2>3 DEF BookedWhole
  <2>5. \A i \in 1 .. Len(rows) :
          /\ ledger'[Len(ledger) + i] = rows[i]
          /\ rows[i].kind = "credit" => BookedWhole(rows, i)
    BY <1>2, <2>1, <2>2, <2>4
  <2>6. Appends(rows)
    BY <1>2, <2>1, <2>2, <2>5 DEF Appends
  <2>7. QED BY <2>6, AppendKeepsGross
<1>7. CASE CommitCredit(p) /\ ~(tx[p].vat > 0)
  <2> DEFINE rows == <<credit>>
  <2>1. rows \in Seq(Promise!Rows) /\ Len(rows) = 1 /\ rows[1] = credit
    BY <1>2
  <2>2. /\ Len(ledger') = Len(ledger) + 1 /\ ledger'[Len(ledger) + 1] = credit
        /\ \A i \in 1 .. Len(ledger) : ledger'[i] = ledger[i]
    BY <1>3, <1>4, <1>7
  <2> HIDE DEF rows
  <2>3. TaxLine(rows, 1) = 0 /\ tx[p].vat = 0
    BY <1>1, <1>7, <2>1 DEF TaxLine
  <2>4. BookedWhole(rows, 1)
    BY <1>1, <1>2, <1>3, <1>7, <2>1, <2>3 DEF BookedWhole
  <2>5. \A i \in 1 .. Len(rows) :
          /\ ledger'[Len(ledger) + i] = rows[i]
          /\ rows[i].kind = "credit" => BookedWhole(rows, i)
    BY <1>2, <2>1, <2>2, <2>4
  <2>6. Appends(rows)
    BY <1>2, <2>1, <2>2, <2>5 DEF Appends
  <2>7. QED BY <2>6, AppendKeepsGross
<1>8. QED BY <1>5, <1>6, <1>7

\* A handler becomes ready to credit only by splitting what it was asked for.
LEMMA NextSplit ==
  ASSUME TxInv, SplitInv, Next PROVE SplitInv'
<1> SUFFICES ASSUME NEW p \in Procs, tx'[p].pc = "ready",
                    tx'[p].op.kind = "credit"
             PROVE  tx'[p].net + tx'[p].vat = tx'[p].op.amount
  BY DEF SplitInv
<1>1. CASE tx'[p] = tx[p]
  BY <1>1 DEF SplitInv
<1>2. ASSUME NEW q \in Procs, NEW t, tx' = [tx EXCEPT ![q] = t], t.pc # "ready"
      PROVE  tx'[p] = tx[p]
  BY <1>2 DEF TxInv, TypeOK
<1>3. ASSUME NEW q \in Procs, NEW split, Proceed(q, split),
             tx[q].op.kind = "credit" => split.net + split.vat = tx[q].op.amount
      PROVE  tx'[p].net + tx'[p].vat = tx'[p].op.amount
  <2>1. CASE p = q
    <3>1. tx'[p] = Tx("ready", tx[p].op, tx[p].balance, tx[p].currency,
                      split.net, split.vat)
      BY <1>3, <2>1 DEF Proceed, TxInv, TypeOK
    <3>2. QED BY <1>3, <2>1, <3>1 DEF Tx
  <2>2. CASE p # q
    BY <1>1, <1>3, <2>2 DEF Proceed, TxInv, TypeOK
  <2>3. QED BY <2>1, <2>2
<1>4. Idle.pc = "idle"
  BY DEF Idle, Tx
<1>5. ASSUME NEW q \in Procs, Finish(q) PROVE tx'[p] = tx[p]
  BY <1>2, <1>4, <1>5 DEF Finish
<1>6. ASSUME NEW q \in Procs, NEW op \in Ops, Begin(q, op)
      PROVE  tx'[p] = tx[p]
  <2>1. Tx("begun", op, 0, "NGN", 0, 0).pc = "begun"
    BY DEF Tx
  <2>2. QED BY <1>2, <1>6, <2>1 DEF Begin
<1>7. ASSUME NEW q \in Procs, LockWallet(q) PROVE tx'[p] = tx[p]
  <2>1. Tx("locked", tx[q].op, balance, currency, 0, 0).pc = "locked"
    BY DEF Tx
  <2>2. QED BY <1>2, <1>7, <2>1 DEF LockWallet
<1>8. ASSUME NEW q \in Procs, CommitDebit(q) \/ CommitCredit(q) \/ Crash(q)
      PROVE  tx'[p] = tx[p]
  BY <1>2, <1>4, <1>5, <1>8 DEF CommitDebit, CommitCredit, Crash
<1>9. ASSUME NEW q \in Procs, DecideDebit(q)
      PROVE  tx'[p].net + tx'[p].vat = tx'[p].op.amount
  BY <1>1, <1>3, <1>5, <1>9 DEF DecideDebit
<1>10. ASSUME NEW q \in Procs, DecideCredit(q)
       PROVE  tx'[p].net + tx'[p].vat = tx'[p].op.amount
  <2>1. tx[q].op \in Ops /\ tx[q].currency \in Currencies /\ vatRate \in VatRates
    BY <1>10 DEF DecideCredit, TxInv, TypeOK, OpInv
  <2>2. QED BY <1>1, <1>3, <1>5, <1>10, <2>1, SplitIsWhole DEF DecideCredit
<1>11. CASE \/ \E postpaid \in BOOLEAN, limit \in Limits : SetTerms(postpaid, limit)
            \/ \E suspended \in BOOLEAN : SetSuspended(suspended)
            \/ \E rate \in VatRates : SetVatRate(rate)
            \/ CheckCountry \/ WriteCountry
  BY <1>1, <1>11 DEF SetTerms, SetSuspended, SetVatRate, CheckCountry, WriteCountry
<1>12. QED BY <1>1, <1>6, <1>7, <1>8, <1>9, <1>10, <1>11 DEF Next

LEMMA NextGross ==
  TxInv /\ SplitInv /\ GrossInv /\ [Next]_vars => SplitInv' /\ GrossInv'
<1> SUFFICES ASSUME TxInv, SplitInv, GrossInv, [Next]_vars
             PROVE  SplitInv' /\ GrossInv'
  OBVIOUS
<1>1. CASE UNCHANGED vars
  BY <1>1 DEF vars, SplitInv, GrossInv, BookedWhole, TaxLine
<1>2. CASE Next
  <2>1. ASSUME NEW p \in Procs, CommitDebit(p) \/ CommitCredit(p)
        PROVE  GrossInv'
    BY <2>1, CommitGross
  <2>2. ASSUME UNCHANGED ledger PROVE GrossInv'
    BY <2>2 DEF GrossInv, BookedWhole, TaxLine
  <2>3. GrossInv'
    BY <1>2, <2>1, <2>2
    DEF Next, Begin, LockWallet, DecideDebit, DecideCredit, Crash, SetTerms,
        SetSuspended, SetVatRate, CheckCountry, WriteCountry
  <2>4. QED BY <1>2, <2>3, NextSplit
<1>3. QED BY <1>1, <1>2

(* What a customer paid is booked once and split exactly, whatever handlers
   overlap and however the tax rate changes between them (wallet.ts:206-257).
   The hypothesis is what the unique reference of a payment row gives
   (schema.ts:1213-1229): a reference names one amount. *)
THEOREM PaymentIsAlwaysBookedOnce ==
  ASSUME \A a, b \in Ops : a.kind = "credit" /\ b.kind = "credit" /\ a.ref = b.ref
                             => a.amount = b.amount
  PROVE  Spec => []PaymentIsBookedOnce
<1>1. Init => SplitInv /\ GrossInv
  BY DEF Init, SplitInv, GrossInv, Idle, Tx
<1>2. GrossInv => GrossIsNetPlusVat
  <2> SUFFICES ASSUME GrossInv, NEW i \in 1 .. Len(ledger), NEW op \in Ops,
                      ledger[i].kind = "credit", op.kind = "credit",
                      op.ref = ledger[i].ref
               PROVE  op.amount = ledger[i].amount + TaxLine(ledger, i)
    BY DEF GrossIsNetPlusVat, TaxLine
  <2>1. QED BY DEF GrossInv, BookedWhole
<1>3. TxInv /\ [Next]_vars => TxInv'
  BY NextTxInv
<1>4. Spec => []GrossIsNetPlusVat
  BY InitTxInv, NextGross, <1>1, <1>2, <1>3, PTL DEF Spec
<1>5. QED BY <1>4, LockedReferenceOnce, PTL DEF PaymentIsBookedOnce
=============================================================================
