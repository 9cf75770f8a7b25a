CONSTANTS
    Workloads <- TwoGraphs
    LargeGraphs <- OneLarge
    NewGraphs <- ThreeGraphs
    Buffers <- SomeBuffers
    Dividers <- SomeDividers
    PoolLimit = 2
    Graphs <- Present
    MaxSessions = 2
    MaxCrashes = 1
    Data <- DataFiles
    MaxInterrupts = 2
    Args <- SomeArgs
SPECIFICATION Spec
INVARIANTS
    SimulationsApart
    FinalResultsRead
    CycleSumOfFrames
PROPERTIES
    EveryCommandRuns
    WholeFilesStay
