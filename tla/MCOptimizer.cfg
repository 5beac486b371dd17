SPECIFICATION Spec
CONSTANTS
    MaxIterations = 4
    Sources <- Lifted
CHECK_DEADLOCK FALSE
INVARIANTS
    
    NoWrongRecoveryBar
    CallsShow
PROPERTIES
    NothingInvented
