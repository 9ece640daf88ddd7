SPECIFICATION FairSpec
CONSTANTS
  Visitor = {v1, v2}
  Endpoint = {e1, e2}
  None = None
  Channels = 1
  MaxFaults = 1
INVARIANTS LeaseIsExclusive WithinChannels
PROPERTIES AbandonedIsClosed
CHECK_DEADLOCK FALSE
