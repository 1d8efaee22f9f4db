CONSTANTS
    Tiles = {left, right}
    Qualities = {"Medium", "High"}
    MaxChanges = 2
    MaxResizes = 1
SPECIFICATION FairSpec
INVARIANTS
    TypeOK
    RequestPending
    PixelsFit
    PictureComplete
PROPERTY
    FrameConverges
CHECK_DEADLOCK FALSE
