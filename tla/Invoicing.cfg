SPECIFICATION FairSpec
CONSTANTS
  Jobs = {j1}
  Payers = {p1, p2}
  Terms = 4
  Limit = 2
  Daily = FALSE
  MaxCharges = 2
  MaxPays = 2
  MaxCrashes = 1
  MaxInvoices = 4
INVARIANTS InvoicesOK
PROPERTIES SuspendedOnlyPastDue DebtIsCollected DebtIsInvoiced
CHECK_DEADLOCK FALSE
