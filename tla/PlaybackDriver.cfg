SPECIFICATION Spec
CONSTANTS
  Tracks = {1, 2, 3}
  Playable = {1, 2}
  Callers <- Both
  User = "user"
  Repeats = {"off","all"}
  Starts = {1, 2}
  MaxSkips = 2
  MaxEvents = 2
INVARIANTS
  MarkedEndsAlone
  NoDeadAir
PROPERTIES
  InOrder
CHECK_DEADLOCK FALSE
