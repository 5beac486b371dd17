SPECIFICATION HSpec
CONSTANTS
    Programs <- Misled
    Snake <- TheSnake
    Worlds <- Ws
    MaxIterations = 4
INVARIANT EndsAsLifted
