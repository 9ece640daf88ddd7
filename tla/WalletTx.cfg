SPECIFICATION Spec
CONSTANTS
  Procs = {p1, p2}
  None = None
  Limits = {30}
  VatRates = {0, 75}
  Ops <- MCOps
INVARIANTS BalanceIsLedger PaymentIsBookedOnce NeverBelowFloor
PROPERTIES ImplementsWallet
SYMMETRY ProcsAreAlike
