SPECIFICATION Spec
CONSTANTS
    MaxDraws = 3
    MaxZooms = 2
    MaxEvicts = 1
INVARIANTS LayersOwned HighlighterFollows RestsLayered
CHECK_DEADLOCK FALSE
