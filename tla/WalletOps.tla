----------------------------- MODULE WalletOps -----------------------------
(***************************************************************************)
(* The pure money rules of server/utils/wallet.ts and                      *)
(* server/utils/auto-topup-attempts.ts.  Every amount is an integer number *)
(* of minor units (kobo or cents).  A VAT rate is a number of thousandths, *)
(* so the statutory 7.5% is 75.                                            *)
(***************************************************************************)
EXTENDS Integers

Currencies == {"NGN", "USD"}

\* The lowest balance a workspace's terms let a debit reach: zero when
\* prepaid, minus the credit limit when postpaid (no limit set counts as 0).
Floor(tenant) == IF tenant.postpaid THEN -tenant.limit ELSE 0

\* Mutant of CanSpend: the amount itself is forgotten.
CanSpendWhileAbove(tenant, balance, amount) ==
  ~tenant.suspended /\ balance >= Floor(tenant)

\* May this workspace spend this much?  A suspension for an unpaid invoice
\* stops spending whatever headroom is left.
CanSpend(tenant, balance, amount) ==
  /\ ~tenant.suspended
  /\ balance - amount >= Floor(tenant)

\* Math.round(amount - amount / (1 + rate)), the tax contained in a gross
\* amount.  At the statutory rate the quotient never falls on a half.
InclusiveVat(amount, rate) ==
  (2 * amount * rate + 1000 + rate) \div (2 * (1000 + rate))

\* Only customer-funded naira top-ups carry VAT.
WalletCreditVat(currency, customerTopup, amount, rate) ==
  IF currency = "NGN" /\ customerTopup THEN InclusiveVat(amount, rate) ELSE 0

\* Work is created only by the debit that crosses the threshold downwards.
CrossedThreshold(before, after, threshold) ==
  before >= threshold /\ after < threshold

\* Each card provider serves one wallet currency.
ProviderSupports(provider, currency) ==
  <<provider, currency>> \in {<<"stripe", "USD">>, <<"paystack", "NGN">>}
=============================================================================
