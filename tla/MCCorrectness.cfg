SPECIFICATION Spec
CONSTANTS
    Programs <- AllPrograms
    Worlds <- Ws
INVARIANTS
    GuardedShapes
    TextFaithfulBar
    MovesOnceBar
    ImportedBar
    HolesReportedBar
PROPERTIES
    PassesHonour
    HolesEarnedBar
