SPECIFICATION FairSpec
CONSTANTS
  Refs = {d1, t1}
  Triggers = {d1}
  TopupRefs = {t1}
  TopupSizes = {43}
  Debits = {40}
  Credits <- MCCredits
  Floors <- MCFloors
  Plans <- MCOnePlan
  Limit = 5
  VatRate = 75
  Keys = {k1, k2}
  Workers = {w1, w2}
  None = None
  MaxChanges = 1
INVARIANTS AttemptsOK
PROPERTIES ImplementsChargeOnce CaptureIsNoticed
CHECK_DEADLOCK FALSE
