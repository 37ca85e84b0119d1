SPECIFICATION Spec
CONSTANTS
    Host = "qbzd"
    Uuids = {u1}
    NoUuid = NoUuid
CHECK_DEADLOCK FALSE
PROPERTY KeepsChosenPlayback
