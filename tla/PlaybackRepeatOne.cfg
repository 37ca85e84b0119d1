SPECIFICATION Spec
CONSTANTS
  Tracks = {1, 2}
  Playable = {1, 2}
  Callers <- Both
  User = "user"
  Repeats = {"one"}
  Starts = {1, 2}
  MaxSkips = 2
  MaxEvents = 1
PROPERTIES
  RepeatOneRepeats
CHECK_DEADLOCK FALSE
