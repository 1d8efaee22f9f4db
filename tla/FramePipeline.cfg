SPECIFICATION FairSpec
CONSTANT MaxSignals = 3
INVARIANTS
    TypeOK
    NoLostFrame
    ImageSharesFrame
PROPERTIES
    FrameReachesVisible
