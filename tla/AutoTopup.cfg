SPECIFICATION Spec
CONSTANTS
  Refs = {d1, d2, t1, t2}
  Triggers = {d1, d2}
  TopupRefs = {t1, t2}
  TopupSizes = {43}
  Debits = {40}
  Credits <- MCCredits
  Floors <- MCFloors
  Plans <- MCPlans
  Limit = 5
  VatRate = 75
  Keys = {k1, k2}
  Workers = {w1}
  None = None
  MaxChanges = 1
PROPERTIES ImplementsChargeOnce KeepsWalletPromise ChargesWhatWasConsented
SYMMETRY TasksAreAlike
CHECK_DEADLOCK FALSE
