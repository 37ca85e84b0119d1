SPECIFICATION Spec
CONSTANTS
  a1 = a1
  a2 = a2
  b = b
  Rows <- SmallRows
  SongOf <- SmallSongs
  Playable = {a1, a2}
  Queues <- SmallQueues
  Marks = {"b"}
  NoMark = "none"
  MaxLength = 3
  MaxHistory = 2
  MaxManual = 1
SYMMETRY CopiesAlike
PROPERTIES
  PeeksAreHonest
  PlaysWhatItShows
  EditsKeepTheTimeline
CHECK_DEADLOCK FALSE

