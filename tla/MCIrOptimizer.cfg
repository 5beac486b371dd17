SPECIFICATION HSpec
CONSTANTS
    Programs <- AllPrograms
    Snake <- TheSnake
    Worlds <- Ws
    MaxIterations = 4
INVARIANTS
    Converges
    NoBindingLostBar
PROPERTIES
    PassesHonour
