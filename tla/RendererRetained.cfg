SPECIFICATION Spec
CONSTANTS
    a = a
    b = b
    s = s
    t = t
    Items = {a, b}
    NoItem = noItem
    Songs = {s, t}
    NoSong = noSong
    Song <- MCSong
    Majors = {1, 2}
    NoMajor = 0
    Sent <- MCSent
    Queues <- MCQueues
    MaxGeneration = 1
PROPERTY PauseSupersedes
