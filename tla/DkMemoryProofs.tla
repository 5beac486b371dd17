--------------------------- MODULE DkMemoryProofs ---------------------------
(***************************************************************************)
(* For every word size, byte range, address window and set of tokens: the  *)
(* cells of the evaluator's memory never overlap, agree with the bytes of  *)
(* the machine, and so whatever a load answers is what the machine reads.  *)
(***************************************************************************)
EXTENDS DkMemory, TLAPS

(* The widths are positive integers, and a double word is the wider one. *)
LEMMA Widths == /\ Word \in Nat /\ Word > 0
                /\ DWord \in Nat /\ DWord > Word
BY WordAssumption DEF DWord

(* A byte of a value, whatever its index, is a byte the machine can hold. *)
LEMMA ByteOfValue ==
    ASSUME NEW v \in DkVal, NEW i \in Int
    PROVE  ByteAt(v, i) \in RamByte
<1>1. CASE v \in SymVal
  BY <1>1 DEF SymVal, ByteAt, RamByte
<1>2. CASE v \in I32Val
  BY <1>2, Widths DEF I32Val, ByteAt, RamByte, Byte
<1>3. CASE v \in I64Val
  BY <1>3, Widths DEF I64Val, ByteAt, RamByte, Byte
<1> QED
  BY <1>1, <1>2, <1>3 DEF DkVal

(* What a store may put where: a typed value, as wide as the store, in     *)
(* range of the addresses.                                                 *)
Storable(a, v, w) ==
    /\ a \in Addr /\ v \in DkVal /\ w \in {Word, DWord} /\ InRange(a, w)
    /\ v.kind = "i32" => w = Word
    /\ v.kind = "i64" => w = DWord

(* DkEval::store keeps the cells typed, apart from each other and in       *)
(* agreement with the machine that makes the same store.                   *)
LEMMA StoreKeeps ==
    ASSUME NEW c, NEW m \in [Addr -> RamByte], NEW a, NEW v, NEW w,
           Storable(a, v, w), CellsTyped(c), Disjoint(c), Agree(c, m)
    PROVE  /\ WriteRam(m, a, v, w) \in [Addr -> RamByte]
           /\ CellsTyped(StoreCell(c, a, v, w))
           /\ Disjoint(StoreCell(c, a, v, w))
           /\ Agree(StoreCell(c, a, v, w), WriteRam(m, a, v, w))
<1> DEFINE d == StoreCell(c, a, v, w)
           n == WriteRam(m, a, v, w)
<1>1. a \in Int /\ w \in Nat /\ w > 0
  BY Widths, AddrAssumption DEF Storable
<1>2. DOMAIN d = Surviving(c, a, w) \cup {a}
  BY DEF StoreCell
<1>3. d[a] = [val |-> v, width |-> w]
  BY DEF StoreCell
<1>4. \A b \in DOMAIN d : b # a => /\ b \in DOMAIN c /\ d[b] = c[b]
                                   /\ Apart(b, c[b].width, a, w)
  BY <1>2 DEF StoreCell, Surviving
<1>5. \A b \in DOMAIN c : b \in Int /\ c[b].width \in Nat
  BY Widths, AddrAssumption DEF CellsTyped, CellOK
<1>6. n \in [Addr -> RamByte]
  <2>1. \A x \in Addr : x - a \in Int
    BY <1>1, AddrAssumption
  <2> QED
    BY <2>1, ByteOfValue DEF WriteRam, Storable
<1>7. CellsTyped(d)
  <2>1. d = [b \in DOMAIN d |-> d[b]]
    BY DEF StoreCell
  <2>2. DOMAIN d \subseteq Addr
    BY <1>2 DEF CellsTyped, Surviving, Storable
  <2>3. ASSUME NEW b \in DOMAIN d PROVE CellOK(d, b)
    <3>1. CASE b = a
      BY <3>1, <1>3 DEF CellOK, Storable
    <3>2. CASE b # a
      BY <3>2, <1>4 DEF CellOK, CellsTyped
    <3> QED BY <3>1, <3>2
  <2> QED BY <2>1, <2>2, <2>3 DEF CellsTyped
<1>8. Disjoint(d)
  <2> SUFFICES ASSUME NEW b \in DOMAIN d, NEW e \in DOMAIN d, b # e
               PROVE  Apart(b, d[b].width, e, d[e].width)
    BY DEF Disjoint
  <2>1. CASE b = a
    BY <2>1, <1>1, <1>3, <1>4, <1>5 DEF Apart
  <2>2. CASE e = a
    BY <2>2, <1>3, <1>4
  <2>3. CASE b # a /\ e # a
    BY <2>3, <1>4 DEF Disjoint
  <2> QED BY <2>1, <2>2, <2>3
<1>9. Agree(d, n)
  <2> SUFFICES ASSUME NEW b \in DOMAIN d, NEW i \in 0 .. (d[b].width - 1)
               PROVE  n[b + i] = ByteAt(d[b].val, i)
    BY DEF Agree
  <2>1. b + i \in Addr
    BY <1>7 DEF CellsTyped, CellOK, InRange
  <2>2. CASE b = a
    BY <2>1, <2>2, <1>1, <1>3 DEF WriteRam
  <2>3. CASE b # a
    <3>1. ~(a <= b + i /\ b + i < a + w)
      BY <2>3, <1>1, <1>4, <1>5 DEF Apart
    <3>2. n[b + i] = m[b + i]
      BY <2>1, <3>1 DEF WriteRam
    <3> QED
      BY <2>3, <1>4, <3>2 DEF Agree
  <2> QED BY <2>2, <2>3
<1> QED BY <1>6, <1>7, <1>8, <1>9

-----------------------------------------------------------------------------
(* A load of typed, disjoint cells that agree with the machine answers the *)
(* machine's bytes, and extends nothing it does not know to be zero.       *)
LEMMA LoadReads ==
    ASSUME NEW c, NEW m, CellsTyped(c), Agree(c, m),
           NEW a \in Addr, NEW w \in LoadWidth, NEW v \in LoadCell(c, a, w)
    PROVE  /\ \A i \in 0 .. (w - 1) : m[a + i] = ByteAt(v, i)
           /\ v.kind # "sym" => \A i \in Int : i >= w => ByteAt(v, i) = <<"lit", 0>>
<1>1. a \in Int /\ w \in Nat /\ w > 0 /\ w <= DWord /\ (w > Word => w = DWord)
  BY Widths, AddrAssumption DEF LoadWidth
<1>2. CASE a \in DOMAIN c /\ c[a].width = w
  <2>1. v = c[a].val
    BY <1>2 DEF LoadCell
  <2>2. CellOK(c, a)
    BY <1>2 DEF CellsTyped
  <2>3. \A i \in 0 .. (w - 1) : m[a + i] = ByteAt(v, i)
    BY <1>2, <2>1 DEF Agree
  <2>4. ASSUME v.kind # "sym", NEW i \in Int, i >= w
        PROVE  ByteAt(v, i) = <<"lit", 0>>
    <3>1. (v \in I32Val /\ w = Word) \/ (v \in I64Val /\ w = DWord)
      BY <2>1, <2>2, <2>4, <1>2 DEF CellOK, DkVal, I32Val, I64Val, SymVal
    <3>2. i \notin DOMAIN v.bytes
      BY <3>1, <2>4, Widths DEF I32Val, I64Val
    <3> QED
      BY <2>4, <3>2 DEF ByteAt
  <2> QED
    BY <2>3, <2>4
<1>3. CASE ~(a \in DOMAIN c /\ c[a].width = w)
  <2>1. PICK b \in Covering(c, a, w) : c[b].val.kind # "sym" /\ v = Cut(c[b].val, a - b, w)
    BY <1>3 DEF LoadCell
  <2>2. /\ b \in DOMAIN c /\ CellOK(c, b) /\ b \in Int /\ c[b].width \in Nat
        /\ b <= a /\ a + w <= b + c[b].width
    BY <2>1, Widths, AddrAssumption DEF Covering, CellsTyped, CellOK
  <2>3. DOMAIN c[b].val.bytes = 0 .. (c[b].width - 1)
    BY <2>1, <2>2 DEF CellOK, DkVal, I32Val, I64Val, SymVal
  <2>4. v.kind # "sym"
    BY <2>1 DEF Cut
  <2>5. DOMAIN v.bytes = 0 .. ((IF w = DWord THEN DWord ELSE Word) - 1)
    BY <2>1 DEF Cut
  <2>6. ASSUME NEW i \in 0 .. (w - 1)
        PROVE  m[a + i] = ByteAt(v, i)
    <3>1. a - b + i \in 0 .. (c[b].width - 1) /\ b + (a - b + i) = a + i
      BY <1>1, <2>2
    <3>2. m[a + i] = <<"lit", c[b].val.bytes[a - b + i]>>
      BY <3>1, <2>1, <2>2, <2>3 DEF Agree, ByteAt
    <3>3. i \in DOMAIN v.bytes
      BY <1>1, <2>5, Widths
    <3>4. v.bytes[i] = c[b].val.bytes[a - b + i]
      BY <2>1, <2>5, <3>3, <1>1 DEF Cut
    <3> QED
      BY <2>4, <3>2, <3>3, <3>4 DEF ByteAt
  <2>7. ASSUME NEW i \in Int, i >= w
        PROVE  ByteAt(v, i) = <<"lit", 0>>
    <3>1. CASE i \in DOMAIN v.bytes
      <4>1. v.bytes[i] = 0
        BY <3>1, <2>1, <2>5, <2>7, <1>1 DEF Cut
      <4> QED
        BY <2>4, <3>1, <4>1 DEF ByteAt
    <3>2. CASE i \notin DOMAIN v.bytes
      BY <2>4, <3>2 DEF ByteAt
    <3> QED BY <3>1, <3>2
  <2> QED
    BY <2>6, <2>7
<1> QED BY <1>2, <1>3

-----------------------------------------------------------------------------
(* The invariant holds of a fresh evaluator and every store keeps it. *)
THEOREM IInvInductive == (Init => IInv) /\ (IInv /\ [Next]_vars => IInv')
<1>1. ASSUME Init PROVE IInv
  <2>1. DOMAIN cells = {} /\ cells = [a \in DOMAIN cells |-> cells[a]]
    BY <1>1 DEF Init
  <2>2. ram \in [Addr -> RamByte]
    BY <1>1, AddrAssumption DEF Init, RamByte
  <2> QED
    BY <2>1, <2>2 DEF IInv, TypeOK, CellsDisjoint, CellsAgree, CellsTyped, Disjoint, Agree
<1>2. ASSUME IInv, [Next]_vars PROVE IInv'
  <2> USE DEF IInv, TypeOK, CellsDisjoint, CellsAgree
  <2>1. CASE UNCHANGED vars
    BY <1>2, <2>1 DEF vars, CellsTyped, CellOK, Disjoint, Agree, InRange
  <2>2. ASSUME NEW a \in Addr, NEW v \in DkVal, StoreI32(a, v) PROVE IInv'
    <3>1. Storable(a, v, Word)
      BY <2>2, Widths DEF StoreI32, Store, Storable, I32Val, SymVal
    <3> QED
      BY <1>2, <2>2, <3>1, StoreKeeps DEF StoreI32, Store
  <2>3. ASSUME NEW a \in Addr, NEW v \in DkVal, StoreI64(a, v) PROVE IInv'
    <3>1. Storable(a, v, DWord)
      BY <2>3, Widths DEF StoreI64, Store, Storable, I64Val, SymVal
    <3> QED
      BY <1>2, <2>3, <3>1, StoreKeeps DEF StoreI64, Store
  <2>4. ASSUME NEW a \in Addr, NEW v \in DkVal, SymbolOut(a, v) PROVE IInv'
    <3> DEFINE c == StoreCell(cells, a, ZeroI32, Word)
               m == WriteRam(ram, a, ZeroI32, Word)
    <3>1. Storable(a, ZeroI32, Word)
      BY <2>4, Widths, RadixAssumption
         DEF SymbolOut, Storable, ZeroI32, DkVal, I32Val, Byte
    <3>2. m \in [Addr -> RamByte] /\ CellsTyped(c) /\ Disjoint(c) /\ Agree(c, m)
      BY <1>2, <3>1, StoreKeeps
    <3>3. a + DWord \in Addr
      BY <2>4, Widths, AddrAssumption DEF SymbolOut, InRange
    <3>4. Storable(a + DWord, v, DWord)
      BY <2>4, <3>3, Widths DEF SymbolOut, Storable, I64Val, SymVal
    <3>5. cells' = StoreCell(c, a + DWord, v, DWord) /\ ram' = WriteRam(m, a + DWord, v, DWord)
      BY <2>4 DEF SymbolOut
    <3> HIDE DEF c, m
    <3> QED
      BY <3>2, <3>4, <3>5, StoreKeeps
  <2> QED
    BY <1>2, <2>1, <2>2, <2>3, <2>4 DEF Next
<1> QED BY <1>1, <1>2

(* The cells stay typed, each within the addresses and as wide as its value. *)
THEOREM TypeCorrect == Spec => []TypeOK
<1>1. IInv => TypeOK
  BY DEF IInv
<1> QED
  BY <1>1, IInvInductive, PTL DEF Spec

(* No two cells of the evaluator's memory ever share a byte. *)
THEOREM CellsNeverOverlap == Spec => []CellsDisjoint
<1>1. IInv => CellsDisjoint
  BY DEF IInv
<1> QED
  BY <1>1, IInvInductive, PTL DEF Spec

(* Every answer of load is what the machine would have read. *)
THEOREM LoadsAreSound == Spec => []LoadSound
<1>1. IInv => LoadSound
  BY LoadReads DEF IInv, TypeOK, CellsAgree, LoadSound
<1> QED
  BY <1>1, IInvInductive, PTL DEF Spec

(* Every zero-extending load answers an i64 the machine would have loaded. *)
THEOREM ExtensionsAreSound == Spec => []ExtendSound
<1>1. ASSUME IInv PROVE ExtendSound
  <2> SUFFICES ASSUME NEW a \in Addr, NEW w \in 1 .. Word,
                      NEW v \in LoadCell(cells, a, w), v.kind # "sym",
                      NEW i \in 0 .. (DWord - 1)
               PROVE  ByteAt(ZeroExtend(v), i) = IF i < w THEN ram[a + i] ELSE <<"lit", 0>>
    BY DEF ExtendSound, LoadExtended
  <2>1. w \in LoadWidth /\ i \in Int /\ w \in Int
    BY Widths DEF LoadWidth
  <2>2. ByteAt(ZeroExtend(v), i) = ByteAt(v, i)
    BY DEF ByteAt, ZeroExtend
  <2>3. i < w => ram[a + i] = ByteAt(v, i)
    BY <1>1, <2>1, LoadReads DEF IInv, TypeOK, CellsAgree
  <2>4. i >= w => ByteAt(v, i) = <<"lit", 0>>
    BY <1>1, <2>1, LoadReads DEF IInv, TypeOK, CellsAgree
  <2> QED
    BY <2>1, <2>2, <2>3, <2>4
<1> QED
  BY <1>1, IInvInductive, PTL DEF Spec

(* At most one cell can answer a load, in whatever order cells are scanned. *)
THEOREM LoadsAreDeterministic == Spec => []LoadDeterministic
<1>1. ASSUME IInv PROVE LoadDeterministic
  <2> SUFFICES ASSUME NEW a \in Addr, NEW w \in LoadWidth,
                      NEW b \in Covering(cells, a, w), NEW e \in Covering(cells, a, w)
               PROVE  b = e
    BY DEF LoadDeterministic, LoadCell
  <2>1. a \in Int /\ b \in Int /\ e \in Int /\ w \in Nat /\ w > 0
    BY <1>1, Widths, AddrAssumption DEF LoadWidth, Covering, IInv, TypeOK, CellsTyped
  <2>2. cells[b].width \in Nat /\ cells[e].width \in Nat
    BY <1>1, Widths DEF Covering, IInv, TypeOK, CellsTyped, CellOK
  <2>3. ~Apart(b, cells[b].width, e, cells[e].width)
    BY <2>1, <2>2 DEF Covering, Apart
  <2> QED
    BY <1>1, <2>3 DEF IInv, CellsDisjoint, Disjoint, Covering
<1> QED
  BY <1>1, IInvInductive, PTL DEF Spec

(* A vector is collected from the very window the host would read. *)
THEOREM VecWindowsAreSound == Spec => []VecWindowSound
<1>1. ASSUME IInv PROVE VecWindowSound
  <2> SUFFICES ASSUME NEW o \in Addr, NEW n \in 1 .. Cardinality(DOMAIN cells),
                      VecBuildable(cells, o, n),
                      NEW i \in 0 .. (n - 1), NEW j \in 0 .. (DWord - 1)
               PROVE  ram[o + DWord * i + j] = ByteAt(VecWindow(cells, o, n)[i], j)
    BY DEF VecWindowSound
  <2>1. o + DWord * i \in DOMAIN cells /\ cells[o + DWord * i].width = DWord
    BY DEF VecBuildable
  <2>2. VecWindow(cells, o, n)[i] = cells[o + DWord * i].val
    BY DEF VecWindow
  <2> QED
    BY <1>1, <2>1, <2>2 DEF IInv, CellsAgree, Agree
<1> QED
  BY <1>1, IInvInductive, PTL DEF Spec
=============================================================================
