SPECIFICATION Spec
CONSTANTS
    Host = "qt"
    Uuids = {u1, u2}
    NoUuid = NoUuid
CHECK_DEADLOCK FALSE
SYMMETRY Symmetry
INVARIANTS OneTakeoverAtATime
PROPERTIES NeverStealsFromPlayingPeer KeepsChosenPlayback
