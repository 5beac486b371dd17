SPECIFICATION HSpec
CONSTANTS
    Programs <- AllPrograms
    Registry <- TheRegistry
    Worlds <- Ws
INVARIANTS
    FilledRight
    EnvGivenBar
PROPERTIES
    RepairsHonour
