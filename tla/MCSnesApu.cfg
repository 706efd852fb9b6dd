SPECIFICATION FairSpec
CONSTANTS
    p1 = p1
    p2 = p2
    Ports <- MCPorts
    PortPairs <- MCPortPairs
    CpuSteps <- MCCpuSteps
    SpcCosts <- MCSpcCosts
    QueueSize = 3
    FrameCycles = 5
    LineDelay = 1
    BranchExtra = 1
    MaxBurst = 3
    MaxWrites = 4
INVARIANTS PortOrder ReadsSeeEarlierWrites SpcLeadBounded
PROPERTIES VisibleOnTime ApuRefinesMailbox
PROPERTIES EveryWriteArrives
