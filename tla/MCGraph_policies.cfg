CONSTANTS
    Versions <- BothVersions
    Files <- AllFiles
    Configs <- AllSetups
SPECIFICATION Spec
INVARIANTS
    TypeOK
    EveryEdgeScheduled
    GraphPyPopsNonEmpty
    WaitingInWorkingSet
    FilterCoversWorkingSet
    DenseWindowsAreFewest
PROPERTIES
    PlanSpec
    BuilderSteps
    ReturnsWhenFillable
