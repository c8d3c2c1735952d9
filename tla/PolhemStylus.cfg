CONSTANTS
  Tokens = {k1, k2, k3, k4, k5, k6}
  undefined = undefined
SPECIFICATION FairSpec
CHECK_DEADLOCK FALSE
INVARIANT OneIntervalAtFirst
PROPERTY ButtonKeepsSending
PROPERTY LastIntervalStops
