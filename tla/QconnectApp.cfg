SPECIFICATION FairSpec
CONSTANTS
    Uuids = {u1, u2}
    Remote = remote
    NoUuid = noUuid
    NoAction = noAction
    Commands <- OneWrite
    OneShots <- WideOneShots
    ForeignTypes <- NarrowForeign
    MaxInbox = 1
INVARIANTS HeldSlotIsWatched
PROPERTIES ReadKeepsItsSlot LifecycleRefined SlotIsFreed LoopReturns
