SPECIFICATION FairSpec
CONSTANTS
  Numbers = {n1}
  Tenants = {a, b}
  Handlers = {h1, h2}
  None = None
  MaxCrashes = 1
INVARIANTS PoolOK PayerGetsTheNumber HeldWasPaid
PROPERTIES ExpiredIsReturned
CHECK_DEADLOCK FALSE
