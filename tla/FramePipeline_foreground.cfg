SPECIFICATION FairSpec
CONSTANT MaxSignals = 2
PROPERTY ScreenCatchesUp
