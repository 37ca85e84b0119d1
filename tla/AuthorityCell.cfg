SPECIFICATION FairSpec
CONSTANTS
    Actors = {a1}
    Handoffs = {h1, h2}
    Kinds = {"owner", "exact", "runtime"}
    Changes = {"delegate", "restore", "shutdown", "connect", "retire"}
    MaxEpoch = 3
INVARIANTS NobodyActsDuringHandoff ActsForItsAuthority OvertakenStaysOut LanShowsCurrent
PROPERTIES TokensAreExact HandoffsEnd WaitersResume
CHECK_DEADLOCK FALSE
