SPECIFICATION Spec
CONSTANTS
  MaxGeneration = 2
  MaxRequests = 3
INVARIANTS
  GuestIsAccountedFor
  OwnerKeepsQueue
  OffMeansOff
CHECK_DEADLOCK FALSE
