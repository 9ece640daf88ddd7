SPECIFICATION FairLogSpec
CONSTANTS
  pickup = pickup
  hangup = hangup
  again = again
  noise = noise
  dialed = dialed
  escUp = escUp
  escOver = escOver
  pbxUp = pbxUp
  pbxOver = pbxOver
  Carrier <- MCCarrier
  Dialplan = {dialed}
  Logged = {escUp, escOver, pbxUp, pbxOver}
  ByPrefix = {escUp, escOver}
  StatusOf <- MCStatusOf
  DurationOf <- MCDurationOf
  MaxFaults = 1
INVARIANTS EndIsToldOnce
PROPERTIES FinishedIsCharged
CHECK_DEADLOCK FALSE
