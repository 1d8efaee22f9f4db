SPECIFICATION Spec
CONSTANTS
    Width = 3
    Height = 3
    HextileSize = 2
    ZRLETileSize = 2
    BufferSize = 17
    ZlibBufferSize = 2
    MinToCompress = 4
    WordSize = 1
    Streams = {0, 1}
    Depths = {15, 16}
    Colours = {c1, c2}
    MaxSubrects = 1
    MaxSubrectSize = 1
    MaxCompressed = 3
SYMMETRY ColourSymmetry
INVARIANTS
    TypeOK
    PictureAsSent
    Within
    InflatersInStep
    
