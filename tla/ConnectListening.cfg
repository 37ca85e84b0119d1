SPECIFICATION Spec
CONSTANTS
  MaxGeneration = 2
  MaxRequests = 3
INVARIANT ListeningMeansAccepting
CHECK_DEADLOCK FALSE
