SPECIFICATION Spec
CONSTANTS
    MaxNest = 3
    Entries <- Misread
INVARIANTS
    RunsAsWritten
