CONSTANTS
    Versions <- OldVersion
    Files <- AllFiles
    Configs <- AllSetups
SPECIFICATION Spec
INVARIANT GetGraphPyPopsNonEmpty
