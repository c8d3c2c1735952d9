CONSTANTS
  Positions = {0, 1, 2, 3, 4}
  Fields = 2
  Blanks = 1
  MaxSent = 3
  MaxProbes = 2
SPECIFICATION LinkSpec
CHECK_DEADLOCK FALSE
INVARIANT CounterFollows
INVARIANT AnswersInStep
