SPECIFICATION FairSpec
CONSTANTS
    NumChannels = 2
    Width = 16
    BufferSize = 8
    ByteCycles = 2
    Unit = 4
    Sizes <- MCSizes
    Sources <- MCSources
    Slices <- MCSlices
INVARIANTS TransferExact OverrunBounded PatternInPhase
PROPERTIES DmaCompletes
