SPECIFICATION Spec
CONSTANTS
    Renderers = {r1, r2}
    NoRenderer = noRenderer
    MaxGeneration = 2
PROPERTIES OnlyItsPeerDisarms
CHECK_DEADLOCK FALSE
