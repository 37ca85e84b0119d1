SPECIFICATION FairSpec
CONSTANTS
  MaxGeneration = 2
  MaxRequests = 2
PROPERTIES
  NothingHangs
  ExpiredGuestLeaves
CHECK_DEADLOCK FALSE
