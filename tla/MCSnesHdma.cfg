SPECIFICATION Spec
CONSTANTS
    Half = 4
    TableSize = 5
    CountBytes <- MCCountBytes
    UnitSizes <- MCUnitSizes
    FrameLines = 6
INVARIANTS FollowsTable
