SPECIFICATION RenderSpec
CONSTANTS
    Layouts <- MCLayouts
    Height = 2
    Overflow = 1
    DefaultCacheSize = 1
    Broken = {5}
    Eager = {3}
INVARIANTS RenderTypeOK CanvasesInBuffer VisibleExact DetailCovers RestsDrawn
CHECK_DEADLOCK FALSE
