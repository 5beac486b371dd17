SPECIFICATION Spec
CONSTANTS
    MaxIterations = 4
    Sources <- Misled
CHECK_DEADLOCK FALSE
INVARIANTS
    NoWrongRecovery
