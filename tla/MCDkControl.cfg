SPECIFICATION Spec
CONSTANTS
    Modulus = 3
    MaxSteps = 30
    MaxDepth = 2
    MaxBody = 16
    Entries <- AllEntries
INVARIANTS
    TypeOK
    FramesHoldIp
    OperandsNest
    EvalSound
    AdoptionExactBar
PROPERTIES
    Decided
