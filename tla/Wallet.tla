------------------------------- MODULE Wallet -------------------------------
(***************************************************************************)
(* What a workspace's wallet promises, with one atomic step per committed  *)
(* transaction: the balance is the running total of an append-only ledger, *)
(* a reference moves money once in each direction, and no debit takes the  *)
(* balance below the lowest floor the workspace was ever granted.          *)
(*                                                                         *)
(* WalletTx shows that the row-lock protocol of server/utils/wallet.ts     *)
(* implements this specification; AutoTopup is built on it.  One workspace *)
(* is modelled: every lock, check and write of the code is keyed by the    *)
(* tenant, and references are globally unique identifiers.                 *)
(***************************************************************************)
EXTENDS WalletOps, Sequences

CONSTANTS
  Refs,      \* references (payment, call, subscription cycle ... identifiers)
  Debits,    \* amounts a debit may take
  Credits,   \* a credit's net amount and the tax withheld from it
  Floors     \* floors that an operator's terms may grant

ASSUME WalletAssumption ==
  /\ Debits \subseteq Nat
  /\ Credits \subseteq [net : Nat, vat : Nat]
  /\ Floors \subseteq Int

VARIABLES
  balance,   \* wallets.balanceMinor
  ledger,    \* the ledger rows of this wallet, in commit order
  floor      \* history: the lowest floor any terms of the workspace allowed

walletVars == <<balance, ledger, floor>>

Kinds == {"debit", "credit", "vat"}
Row(kind, amount, after, ref) ==
  [kind |-> kind, amount |-> amount, after |-> after, ref |-> ref]
Rows == [kind : Kinds, amount : Nat, after : Int, ref : Refs]

\* Is there already a row of this kind for the reference?
HasRow(kind, ref) ==
  \E i \in 1 .. Len(ledger) : ledger[i].kind = kind /\ ledger[i].ref = ref

-----------------------------------------------------------------------------
WalletInit ==
  /\ balance = 0
  /\ ledger = <<>>
  /\ floor = 0

\* A debit that commits.  A repeated reference returns the earlier movement
\* and a refusal throws: neither changes anything.
Debit(amount, ref) ==
  /\ ~HasRow("debit", ref)
  /\ balance - amount >= floor
  /\ balance' = balance - amount
  /\ ledger' = Append(ledger, Row("debit", amount, balance - amount, ref))

\* A credit that commits: the net amount, and the tax on a line of its own.
CreditRows(net, vat, ref) ==
  LET credit == Row("credit", net, balance + net, ref) IN
  IF vat > 0 THEN <<credit, Row("vat", vat, balance + net, ref)>>
             ELSE <<credit>>

Credit(net, vat, ref) ==
  /\ ~HasRow("credit", ref)
  /\ balance' = balance + net
  /\ ledger' = ledger \o CreditRows(net, vat, ref)

\* An operator grants other terms; the history remembers the lowest floor.
Grant(low) ==
  /\ floor' = IF low < floor THEN low ELSE floor
  /\ UNCHANGED <<balance, ledger>>

WalletNext ==
  \/ \E amount \in Debits, ref \in Refs :
        Debit(amount, ref) /\ UNCHANGED floor
  \/ \E c \in Credits, ref \in Refs :
        Credit(c.net, c.vat, ref) /\ UNCHANGED floor
  \/ \E low \in Floors : Grant(low)

WalletSpec == WalletInit /\ [][WalletNext]_walletVars

-----------------------------------------------------------------------------
WalletTypeOK ==
  /\ balance \in Int
  /\ ledger \in Seq(Rows)
  /\ floor \in Int

\* What a row does to the balance: the tax line records money, it moves none.
Effect(row) ==
  IF row.kind = "vat" THEN 0
  ELSE IF row.kind = "debit" THEN -row.amount ELSE row.amount

BalanceBefore(i) == IF i = 1 THEN 0 ELSE ledger[i - 1].after

(* The balance is reconstructable from the ledger: each row's balance-after
   is the previous one moved by the row, and the wallet holds the last.
   A lost update between two debits, or a credit that trusts a stale read,
   breaks it (wallet.ts "every movement writes an immutable ledger row with
   balance-after"). *)
BalanceIsLedger ==
  /\ \A i \in 1 .. Len(ledger) :
        ledger[i].after = BalanceBefore(i) + Effect(ledger[i])
  /\ balance = BalanceBefore(Len(ledger) + 1)

(* A reference moves money at most once in each direction, however often a
   webhook, a cron run or a client retries it. *)
ReferenceMovesMoneyOnce ==
  \A i, j \in 1 .. Len(ledger) :
     ledger[i].kind = ledger[j].kind /\ ledger[i].ref = ledger[j].ref => i = j

(* The wallet never falls below what the workspace was ever allowed to owe:
   prepaid stops at zero, postpaid at its credit limit, even for a burst of
   debits that all saw the same headroom. *)
NeverBelowFloor == balance >= floor
=============================================================================
