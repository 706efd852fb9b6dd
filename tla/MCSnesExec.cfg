SPECIFICATION FairSpec
CONSTANTS
    VisibleLines = 1
    FrameLines = 3
    ActiveCycles = 5
    HblankCycles = 2
    LineDelay = 1
    MaxCost = 2
    EntryCost = 1
    MaxHdma = 3
    DmaRound = 1
    DmaSizes <- MCDmaSizes
    HTimes <- MCHTimes
INVARIANTS SignalsMatchRegisters NmiAnswersAnEdge LineStartsOnTime
PROPERTIES FramesGoOn WaiWakes
