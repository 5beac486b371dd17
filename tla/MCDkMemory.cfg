\* A two-byte word of binary bytes: i32.load, i64.load and the narrow loads
\* each have a width of their own.  A window of five addresses, 4 .. 8, has room for
\* two i64 cells that overlap, an i64 cell and i32 cells within and across
\* it, and a vector of one element; the two addresses below it are those of
\* the discriminant a symbol builder writes ahead of its symbol.
SPECIFICATION Spec
CONSTANTS
    Word = 2
    Radix = 2
    Addr = {1, 2, 4, 5, 6, 7, 8}
    Token = {"payload"}
INVARIANTS
    CellsDisjoint
    LoadSound
    ExtendSound
    LoadDeterministic
    VecWindowSound
