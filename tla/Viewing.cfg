SPECIFICATION ViewSpec
CONSTANTS
    Docs <- MCDocs
    Values <- MCValues
    Options <- MCOptions
    Initial <- PageWidth
    LinkValues <- MCLinkValues
    Height = 5
    DefaultScale = 3
    Points = 2
    PageModeAbove = 3
    LazyAbove = 3
    PauseEvery = 2
    MaxInputs = 2
    MaxThrows = 2
INVARIANTS ViewTypeOK ControlsTrue PagesBelong
PROPERTY KeepsPlace
CHECK_DEADLOCK FALSE
