SPECIFICATION Spec
CONSTANTS
    Uuids = {u1, u2}
    Remote = remote
    NoUuid = noUuid
    NoAction = noAction
    Commands <- NarrowCommands
    OneShots <- NarrowOneShots
    ForeignTypes <- NarrowForeign
    MaxInbox = 2
PROPERTIES LateErrorIsIgnored
