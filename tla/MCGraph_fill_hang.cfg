CONSTANTS
    Versions <- NewVersion
    Files <- AllFiles
    Configs <- AllSetups
SPECIFICATION Spec
PROPERTY SetupReturns
