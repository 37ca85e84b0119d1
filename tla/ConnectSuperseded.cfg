SPECIFICATION Spec
CONSTANTS
  MaxGeneration = 2
  MaxRequests = 3
INVARIANT NewerEnableWins
CHECK_DEADLOCK FALSE
