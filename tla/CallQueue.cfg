SPECIFICATION FairQueueSpec
CONSTANTS
  Caller = {c1, c2}
  Agent = {a1, a2}
  MaxPolls = 2
  MaxLost = 1
INVARIANTS LineIsInOrder TurnsAreInOrder
PROPERTIES HeldIsDecided
CHECK_DEADLOCK FALSE
