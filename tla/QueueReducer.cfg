SPECIFICATION Spec
CONSTANTS
    Ids = {a, b, c, d}
    AutoplayIds = {z}
    NoId = noId
    NoOrder = noOrder
    MaxLength = 3
INVARIANTS OrderCoversQueue
PROPERTIES StayersKeepTheirTurn InsertedPlayNext
SYMMETRY Symmetry
