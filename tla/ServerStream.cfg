SPECIFICATION FairSpec
CONSTANTS
    RFB_BUF_SIZE = 3
    Bodies = {0, 2, 5}
    MaxStream = 8
INVARIANTS
    TypeOK
    BufferInBounds
    NothingLost
    FramingKept
PROPERTIES
    ImplementsByteStream
CHECK_DEADLOCK FALSE
