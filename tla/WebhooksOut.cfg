SPECIFICATION FairHooksSpec
CONSTANTS
  v1 = v1
  v2 = v2
  e1 = e1
  Event = {v1, v2}
  Endpoint = {e1}
  Subscribed <- MCSubscribed
  MaxRuns = 2
  Limit = 2
  MaxAttempts = 2
  DisableAfter = 2
  MaxTroubles = 2
INVARIANTS AttemptsAreKept OneRequestAfterRemoval
PROPERTIES SwitchedOffAfterFailuresInRow QueueDrains
CHECK_DEADLOCK FALSE
