----------------------------- MODULE MCWalletTx -----------------------------
(* A small workspace for TLC: two calls of 30 against a top-up of 43, which
   at 7.5% is 40 net and 3 of tax, and an operator's credit of 5. *)
EXTENDS WalletTx, TLC

MCOps ==
  {[kind |-> "debit",  amount |-> 30, topup |-> FALSE, ref |-> "call1"],
   [kind |-> "debit",  amount |-> 30, topup |-> FALSE, ref |-> "call2"],
   [kind |-> "credit", amount |-> 43, topup |-> TRUE,  ref |-> "pay1"],
   [kind |-> "credit", amount |-> 5,  topup |-> FALSE, ref |-> "adj1"]}

\* Handlers differ in nothing but their name.
ProcsAreAlike == Permutations(Procs)
=============================================================================
