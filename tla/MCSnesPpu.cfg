SPECIFICATION FairSpec
CONSTANTS
    QueueSize = 2
    VisibleLines = 2
    FrameLines = 4
    OamWidth = 3
    OamValues <- MCOamValues
    MaxWrites = 3
INVARIANTS PpuOrder FrameComplete RegsCatchUp
PROPERTIES LineSeesEarlierWrites DirectOvertakesItsSlice
PROPERTIES EveryWritePerformed
