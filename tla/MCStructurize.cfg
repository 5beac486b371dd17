SPECIFICATION Spec
CONSTANTS
    MaxNest = 3
    Entries <- AllEntries
INVARIANTS
    OpenFollowBlocks
    InstructionsKept
    TreeAsWrittenBar
    NoOrphanPanic
    NetBehindTerminator
PROPERTIES
    Ends
    RecoveryExactBar
