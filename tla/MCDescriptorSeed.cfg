SPECIFICATION SeedSpec
CONSTANTS
    Word = 1
    Radix = 2
    Addr <- MCAddr
    Token <- MCToken
    DescBytes = 4
    MaxLog = 2
    MaxUnlogged = 1
    CallerVal <- MCCallerVal
INVARIANTS
    SeededDisjoint
    SeededAgree
CHECK_DEADLOCK FALSE
