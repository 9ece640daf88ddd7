SPECIFICATION FairSpec
CONSTANTS
  Members = {m1, m2, m3}
  Caller = caller
  None = None
INVARIANTS OnlyFirstIsConnected ReportsAreOrderly
PROPERTIES UnansweredCallerIsKept CallerIsNotStranded
CHECK_DEADLOCK FALSE
