SPECIFICATION Spec
CONSTANTS
  Tracks = {1, 2}
  Playable = {1, 2}
  Callers <- Both
  User = "user"
  Repeats = {"off"}
  Starts = {1, 2}
  MaxSkips = 2
  MaxEvents = 2
INVARIANTS
  StopAfterHalts
CHECK_DEADLOCK FALSE
