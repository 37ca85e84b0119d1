SPECIFICATION Spec
CONSTANTS
    Uuids = {u1, u2}
    Remote = remote
    NoUuid = noUuid
    NoAction = noAction
    Commands <- WideCommands
    OneShots <- WideOneShots
    ForeignTypes <- WideForeign
    MaxInbox = 1
SYMMETRY UuidSymmetry
INVARIANTS HeldSlotIsWatched
PROPERTIES ReadKeepsItsSlot LifecycleRefined
