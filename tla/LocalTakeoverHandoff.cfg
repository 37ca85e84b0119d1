SPECIFICATION Spec
CONSTANTS
    Host = "qt"
    Uuids = {u1}
    NoUuid = NoUuid
CHECK_DEADLOCK FALSE
PROPERTY HandoffEndsTakeover
