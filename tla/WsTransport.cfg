SPECIFICATION TransportFairSpec
CONSTANTS
    MaxAttempts = 2
    MaxBackoff = 3
    IdleRetry = TRUE
    Capacity = 1
    MaxStall = 3
INVARIANTS NoReconnectStorm DeadPeerIsNoticed
PROPERTIES DisconnectReturns
