------------------------------ MODULE DkMemory ------------------------------
(***************************************************************************)
(* The shadow-stack memory of DkEval, the micro-evaluator that recovers    *)
(* storage keys by running a contract's own bytecode with its payload      *)
(* arguments held abstract.  The evaluator keeps one cell per store,       *)
(* address -> (value, width); the machine it stands for has bytes.  `ram'  *)
(* is that machine: each of its bytes is a literal or the i-th byte of a   *)
(* value the evaluator knows only by a token.                              *)
(*                                                                         *)
(* An i32 is Word bytes and an i64 is 2 * Word bytes, least significant    *)
(* first (Word is 4 in the code).  The StackPtr, Arg, SymObj and VecVal    *)
(* variants of DkVal, which no arithmetic accepts, are the kind "sym".     *)
(***************************************************************************)
EXTENDS Integers, FiniteSets

CONSTANTS
    Word,       \* bytes of an i32
    Radix,      \* number of values of a byte
    Addr,       \* the addresses (entry-SP relative) an i32 offset can reach
    Token       \* identities of the values held abstract

ASSUME WordAssumption  == Word \in Nat \ {0}
ASSUME RadixAssumption == Radix \in Nat \ {0}
ASSUME AddrAssumption  == Addr \subseteq Int
ASSUME TokenAssumption == "lit" \notin Token /\ "garbage" \notin Token

VARIABLES
    cells,      \* DkEval.mem: a function from the address of each live cell
    ram         \* the bytes of the machine

vars == <<cells, ram>>

DWord == 2 * Word
Byte == 0 .. (Radix - 1)

I32Val == [kind : {"i32"}, bytes : [0 .. (Word - 1) -> Byte]]
I64Val == [kind : {"i64"}, bytes : [0 .. (DWord - 1) -> Byte]]
SymVal == [kind : {"sym"}, tok : Token]
DkVal == I32Val \cup I64Val \cup SymVal
LoadWidth == (1 .. Word) \cup {DWord}

(* What the machine holds at one address. *)
RamByte == ({"lit", "garbage"} \cup Token) \X Int

(* Byte i of value v: a constant is zero beyond its own width. *)
ByteAt(v, i) ==
    IF v.kind = "sym" THEN <<v.tok, i>>
    ELSE IF i \in DOMAIN v.bytes THEN <<"lit", v.bytes[i]>> ELSE <<"lit", 0>>

InRange(a, w) == \A i \in 0 .. (w - 1) : a + i \in Addr

(* DkEval.store: every cell the write overlaps goes, whole. *)
Apart(a, w, b, x) == a + w <= b \/ a >= b + x
Surviving_SameAddress(c, a, w) == DOMAIN c \ {a}
Surviving_StartsInside(c, a, w) == {b \in DOMAIN c : b < a \/ b >= a + w}
Surviving(c, a, w) == {b \in DOMAIN c : Apart(b, c[b].width, a, w)}
StoreCell(c, a, v, w) ==
    [b \in Surviving(c, a, w) \cup {a} |->
        IF b = a THEN [val |-> v, width |-> w] ELSE c[b]]

(* DkEval.load through a shadow-stack pointer.  The set holds every value  *)
(* the code may answer: the cell stored there with this very width, else   *)
(* little-endian bytes cut from a CONSTANT cell that covers the read, in   *)
(* whatever order the hash map yields its cells.  Empty means out of model.*)
Cut(v, from, w) ==
    LET size == IF w = DWord THEN DWord ELSE Word
    IN  [kind  |-> IF w = DWord THEN "i64" ELSE "i32",
         bytes |-> [i \in 0 .. (size - 1) |-> IF i < w THEN v.bytes[from + i] ELSE 0]]
Covering(c, a, w) == {b \in DOMAIN c : b <= a /\ a + w <= b + c[b].width}
LoadCell(c, a, w) ==
    IF a \in DOMAIN c /\ c[a].width = w
    THEN {c[a].val}
    ELSE {Cut(c[b].val, a - b, w) : b \in {d \in Covering(c, a, w) : c[d].val.kind # "sym"}}

(* i64.load8_u / 16_u / 32_u: a constant is zero-extended, a token refused.*)
ZeroExtend(v) ==
    [kind |-> "i64",
     bytes |-> [i \in 0 .. (DWord - 1) |-> IF i \in DOMAIN v.bytes THEN v.bytes[i] ELSE 0]]
LoadExtended_Symbolic(c, a, w) ==
    {IF v.kind = "sym" THEN v ELSE ZeroExtend(v) : v \in LoadCell(c, a, w)}
LoadExtended(c, a, w) == {ZeroExtend(v) : v \in {u \in LoadCell(c, a, w) : u.kind # "sym"}}

(* The vec builder's window: n elements, each stored as a whole i64.       *)
VecBuildable_AnyWidth(c, o, n) ==
    \A i \in 0 .. (n - 1) : o + DWord * i \in DOMAIN c /\ InRange(o + DWord * i, DWord)
VecBuildable(c, o, n) ==
    \A i \in 0 .. (n - 1) : o + DWord * i \in DOMAIN c /\ c[o + DWord * i].width = DWord
VecWindow(c, o, n) == [i \in 0 .. (n - 1) |-> c[o + DWord * i].val]

(* The machine's own store. *)
WriteRam(m, a, v, w) ==
    [x \in Addr |-> IF a <= x /\ x < a + w THEN ByteAt(v, x - a) ELSE m[x]]

-----------------------------------------------------------------------------
(* A fresh evaluator knows nothing of a stack that holds anything. *)
Init ==
    /\ cells = [a \in {} |-> 0]
    /\ ram = [x \in Addr |-> <<"garbage", x>>]

Store(a, v, w) ==
    /\ InRange(a, w)
    /\ cells' = StoreCell(cells, a, v, w)
    /\ ram' = WriteRam(ram, a, v, w)

StoreI32(a, v) == v \in I32Val \cup SymVal /\ Store(a, v, Word)
StoreI64_OneWord(a, v) == v \in I64Val \cup SymVal /\ Store(a, v, Word)
StoreI64(a, v) == v \in I64Val \cup SymVal /\ Store(a, v, DWord)

(* A call to the three-parameter symbol builder: it answers through an out *)
(* pointer, a zero discriminant at o and the symbol two words further.     *)
ZeroI32 == [kind |-> "i32", bytes |-> [i \in 0 .. (Word - 1) |-> 0]]
SymbolOut(o, v) ==
    /\ v \in I64Val \cup SymVal
    /\ InRange(o, Word) /\ InRange(o + DWord, DWord)
    /\ cells' = StoreCell(StoreCell(cells, o, ZeroI32, Word), o + DWord, v, DWord)
    /\ ram' = WriteRam(WriteRam(ram, o, ZeroI32, Word), o + DWord, v, DWord)

Next == \E a \in Addr, v \in DkVal : StoreI32(a, v) \/ StoreI64(a, v) \/ SymbolOut(a, v)

Spec == Init /\ [][Next]_vars

-----------------------------------------------------------------------------
(* Each cell is a store the evaluator made, of a value as wide as it. *)
CellOK(c, a) ==
    /\ c[a] \in [val : DkVal, width : {Word, DWord}]
    /\ InRange(a, c[a].width)
    /\ c[a].val.kind = "i32" => c[a].width = Word
    /\ c[a].val.kind = "i64" => c[a].width = DWord

CellsTyped(c) ==
    /\ c = [a \in DOMAIN c |-> c[a]]
    /\ DOMAIN c \subseteq Addr
    /\ \A a \in DOMAIN c : CellOK(c, a)

Disjoint(c) == \A a, b \in DOMAIN c : a # b => Apart(a, c[a].width, b, c[b].width)

Agree(c, m) ==
    \A a \in DOMAIN c : \A i \in 0 .. (c[a].width - 1) : m[a + i] = ByteAt(c[a].val, i)

TypeOK == CellsTyped(cells) /\ ram \in [Addr -> RamByte]

(* "Cells never overlap (`store` invalidates)": the ground of load's scan, *)
(* which takes the first covering cell the hash map happens to yield.      *)
CellsDisjoint == Disjoint(cells)

(* Every live cell still reads back as the machine's bytes: with the two   *)
(* above, the inductive invariant.                                         *)
CellsAgree == Agree(cells, ram)
IInv == TypeOK /\ CellsDisjoint /\ CellsAgree

(* Whatever a load answers, at any width and however it was found, is what *)
(* the machine would have read; a stale half of an overwritten cell or a   *)
(* slice of a value known only by name is never answered.                  *)
LoadSound ==
    \A a \in Addr, w \in LoadWidth : \A v \in LoadCell(cells, a, w) :
        \A i \in 0 .. (w - 1) : ram[a + i] = ByteAt(v, i)

(* A zero-extending load answers a full i64 whose upper bytes really are   *)
(* zero: a 4-byte cell whose token stands for a 64-bit value is refused.   *)
ExtendSound ==
    \A a \in Addr, w \in 1 .. Word : \A v \in LoadExtended(cells, a, w) :
        \A i \in 0 .. (DWord - 1) :
            ByteAt(v, i) = IF i < w THEN ram[a + i] ELSE <<"lit", 0>>

(* The answer does not depend on the iteration order of the hash map. *)
LoadDeterministic ==
    \A a \in Addr, w \in LoadWidth : \A u, v \in LoadCell(cells, a, w) : u = v

(* The vector a vec-builder call collects is the window the host reads.    *)
VecWindowSound ==
    \A o \in Addr, n \in 1 .. Cardinality(DOMAIN cells) :
        VecBuildable(cells, o, n) =>
            \A i \in 0 .. (n - 1), j \in 0 .. (DWord - 1) :
                ram[o + DWord * i + j] = ByteAt(VecWindow(cells, o, n)[i], j)
=============================================================================
