CONSTANTS
  Tokens = {k1, k2, k3}
  Raw <- MCRaw
  INACTIVE_THRESHOLD = 2
  MaxEdges = 2
SPECIFICATION FairSpec
INVARIANT TimeoutFollowsMode
INVARIANT RadioFollowsMode
INVARIANT PublishedIsRemembered
PROPERTY OnlyActivityWakes
PROPERTY LeftAloneSleeps
PROPERTY RestIsPublished
