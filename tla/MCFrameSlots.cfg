\* One slot, as no taint of one slot reads another, and two values; bodies of
\* six constructs, two deep: enough for a store in an arm of an arm, or a loop
\* with an early exit, before and after stores of their own.
SPECIFICATION Spec
CONSTANTS
    Slot = {s}
    Value = {a, b}
    MaxSize = 6
    MaxNest = 2
INVARIANTS
    ReadSound
    CrossArmsEnd
PROPERTIES
    JoinIsLocal
CHECK_DEADLOCK FALSE
