SPECIFICATION FairSpec
CONSTANTS
    Renderers = {r1, r2}
    NoRenderer = noRenderer
    MaxGeneration = 2
INVARIANTS DerivedStateIsCurrent OneWatchdogCanFire
PROPERTIES WatchedPeerIsResolved
CHECK_DEADLOCK FALSE
