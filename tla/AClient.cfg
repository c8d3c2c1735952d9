CONSTANTS
  dataSize = 2
  Values = {v1, v2}
  Zero = Zero
  MaxMessages = 3
  MaxRestarts = 2
  Rounds = 1
SPECIFICATION FairSpec
CHECK_DEADLOCK FALSE
INVARIANT WholeMessages
INVARIANT OwnDescriptor
PROPERTY NeverOlder
PROPERTY FindsServer
PROPERTY GetsMessages
PROPERTY ReturnEnds
