SPECIFICATION Spec
CONSTANTS
    Timers = {t0}
    CyclesPerTick <- MCCyclesPerTick
    FullPeriod = 3
    Byte = 4
    Nibble = 2
    Half = 11
    Grants <- MCGrants
    Costs <- MCCosts
    BranchExtra = 1
    Compares <- MCCompares
    Data <- MCData
    Zero = "zero"
    Rom = "rom"
    Voices = {v}
    Chunk = 3
    MixCycles = 6
    Games <- MCGames
    MaxOps = 2
    MaxFrames = 2
    QueueSize = 2
INVARIANTS RamUnderRom
PROPERTIES TimersTick RestoreGoesOn DspOnTime
CHECK_DEADLOCK FALSE
