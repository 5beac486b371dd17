------------------------- MODULE DescriptorSeedProofs -------------------------
(***************************************************************************)
(* For every frame, log length, number of unseen writes and set of stored  *)
(* values: the memory the gate seeds is one DkEval::store could have left, *)
(* typed and without overlap, and it agrees with the machine but for the   *)
(* offsets something unseen may have written.  So what DkMemoryProofs      *)
(* shows of loads holds of the seeded memory too.                          *)
(***************************************************************************)
EXTENDS DescriptorSeed, DkMemoryProofs, SequenceTheorems

Entry == [off : Addr, new : DkVal, width : {1, Word, DWord}]
LogTyped == log \in Seq(Entry) /\ \A i \in 1 .. Len(log) : InRange(log[i].off, log[i].width)

(* Entry i is the last word on the bytes it wrote, as far as the log says. *)
Latest(i) ==
    \A j \in (i + 1) .. Len(log) :
        log[j].off # log[i].off /\ Apart(log[j].off, log[j].width, log[i].off, log[i].width)
Written(e) ==
    \E x \in Extensions(e.new, e.width) : \A b \in 0 .. (e.width - 1) : ram[e.off + b] = ByteAt(x, b)
Believed(i) ==
    Latest(i) /\ log[i].off \notin suspect /\ log[i].off \in DOMAIN slots /\ slots[log[i].off] = log[i].new

(* The machine holds what a believed entry wrote: what the gate relies on. *)
LogAgrees == \A i \in 1 .. Len(log) : Believed(i) => Written(log[i])

SeedInv ==
    /\ LogTyped /\ LogAgrees
    /\ TypeOK /\ CellsDisjoint /\ SeededAgree
    /\ ~ folded => DOMAIN cells = {}

(* Widths are positive, and no store is wider than a double word. *)
LEMMA EntryWidths ==
    ASSUME NEW e \in Entry
    PROVE  e.off \in Int /\ e.width \in Nat /\ e.width > 0 /\ e.width <= DWord
<1>1. e.off \in Addr /\ e.width \in {1, Word, DWord}
  BY DEF Entry
<1>2. e.off \in Int
  BY <1>1, AddrAssumption
<1>3. \A w \in {1, Word, DWord} : w \in Nat /\ w > 0 /\ w <= DWord
  BY Widths
<1> QED
  BY <1>1, <1>2, <1>3

-----------------------------------------------------------------------------
(* The machine's store: the bytes in its window, and no other. *)
LEMMA RamWritten ==
    ASSUME NEW m, NEW a \in Int, NEW v, NEW w \in Nat, NEW b \in Addr
    PROVE  WriteRam(m, a, v, w)[b] = IF a <= b /\ b < a + w THEN ByteAt(v, b - a) ELSE m[b]
BY DEF WriteRam

LEMMA RamTyped ==
    ASSUME NEW m \in [Addr -> RamByte], NEW a \in Int, NEW v \in DkVal, NEW w
    PROVE  WriteRam(m, a, v, w) \in [Addr -> RamByte]
<1>1. \A x \in Addr : x - a \in Int
  BY AddrAssumption
<1> QED
  BY <1>1, ByteOfValue DEF WriteRam

(* A store elsewhere leaves what an entry wrote. *)
LEMMA WrittenElsewhere ==
    ASSUME NEW e \in Entry, InRange(e.off, e.width), Written(e),
           NEW a \in Int, NEW v, NEW w \in Nat, Apart(a, w, e.off, e.width),
           ram' = WriteRam(ram, a, v, w)
    PROVE  Written(e)'
<1>1. e.off \in Int /\ e.width \in Nat
  BY EntryWidths
<1>2. ASSUME NEW b \in 0 .. (e.width - 1) PROVE ram'[e.off + b] = ram[e.off + b]
  <2>1. e.off + b \in Addr
    BY DEF InRange
  <2>2. ~ (a <= e.off + b /\ e.off + b < a + w)
    BY <1>1 DEF Apart
  <2> QED
    BY <2>1, <2>2, RamWritten
<1> QED
  BY <1>2 DEF Written

(* An extension of a value is a value. *)
LEMMA ExtensionTyped ==
    ASSUME NEW v \in DkVal, NEW w, NEW x \in Extensions(v, w)
    PROVE  x \in DkVal
<1>1. CASE v.kind = "i32" /\ w = DWord /\ Negative(v)
  <2>1. v \in I32Val
    BY <1>1 DEF DkVal, I64Val, SymVal
  <2>2. PICK fill \in {0, Radix - 1} :
            x = [kind |-> "i64", bytes |-> [i \in 0 .. (DWord - 1) |-> IF i < Word THEN v.bytes[i] ELSE fill]]
    BY <1>1 DEF Extensions
  <2>3. fill \in Byte
    BY RadixAssumption DEF Byte
  <2>4. \A i \in 0 .. (DWord - 1) : i < Word => v.bytes[i] \in Byte
    BY <2>1, Widths DEF I32Val
  <2> QED
    BY <2>2, <2>3, <2>4 DEF DkVal, I64Val
<1>2. CASE ~ (v.kind = "i32" /\ w = DWord /\ Negative(v))
  BY <1>2 DEF Extensions
<1> QED BY <1>1, <1>2

(* A symbolic value has no extension but itself. *)
LEMMA SymbolExtension ==
    ASSUME NEW v \in SymVal, NEW w
    PROVE  Extensions(v, w) = {v}
BY DEF Extensions, SymVal
-----------------------------------------------------------------------------
(* A store the log records: what the entries before it wrote is still      *)
(* there, or they are believed no longer.                                  *)
LEMMA LoggedKeeps ==
    ASSUME SeedInv, NEW a \in Addr, NEW v \in DkVal, NEW w \in {1, Word, DWord},
           LoggedWrite(a, v, w), suspect \ {a} \subseteq suspect',
           ram' = ram \/ \E x \in Extensions(v, w) : ram' = WriteRam(ram, a, x, w)
    PROVE  /\ LogTyped'
           /\ Len(log') = Len(log) + 1
           /\ log'[Len(log) + 1] = [off |-> a, new |-> v, width |-> w]
           /\ \A i \in 1 .. Len(log) : Believed(i)' => Written(log[i])'
           /\ ram' \in [Addr -> RamByte]
<1> DEFINE x == [off |-> a, new |-> v, width |-> w]
<1>1. /\ x \in Entry /\ log \in Seq(Entry) /\ log' = Append(log, x) /\ InRange(a, w)
      /\ Len(log) \in Nat /\ a \in Int /\ w \in Nat
  BY Widths, AddrAssumption DEF SeedInv, LogTyped, Entry, LoggedWrite, Logged
<1>2. /\ Len(log') = Len(log) + 1
      /\ \A i \in 1 .. Len(log) : log'[i] = log[i]
      /\ log'[Len(log) + 1] = x
  BY <1>1
<1>3. LogTyped'
  <2>1. log' \in Seq(Entry)
    BY <1>1
  <2>2. \A i \in 1 .. Len(log) : InRange(log[i].off, log[i].width)
    BY DEF SeedInv, LogTyped
  <2>3. InRange(x.off, x.width)
    BY <1>1
  <2> QED
    BY <1>1, <1>2, <2>1, <2>2, <2>3 DEF LogTyped, InRange
<1>4. ASSUME NEW i \in 1 .. Len(log), Believed(i)' PROVE Written(log[i])'
  <2>1. log[i] \in Entry /\ InRange(log[i].off, log[i].width)
    BY <1>1 DEF SeedInv, LogTyped
  <2>2. a # log[i].off /\ Apart(a, w, log[i].off, log[i].width)
    BY <1>1, <1>2, <1>4 DEF Believed, Latest
  <2>3. Believed(i)
    <3>1. Latest(i)
      BY <1>1, <1>2, <1>4 DEF Believed, Latest
    <3>2. log[i].off \notin suspect
      BY <1>2, <1>4, <2>2 DEF Believed
    <3>3. log[i].off \in DOMAIN slots /\ slots[log[i].off] = log[i].new
      BY <1>2, <1>4, <2>2 DEF Believed, LoggedWrite, SetSlot
    <3> QED
      BY <3>1, <3>2, <3>3 DEF Believed
  <2>4. Written(log[i])
    BY <2>3 DEF SeedInv, LogAgrees
  <2>5. CASE ram' = ram
    BY <1>2, <2>4, <2>5 DEF Written
  <2>6. CASE \E y \in Extensions(v, w) : ram' = WriteRam(ram, a, y, w)
    BY <1>1, <1>2, <2>1, <2>2, <2>4, <2>6, WrittenElsewhere
  <2> QED
    BY <2>5, <2>6
<1>5. ram' \in [Addr -> RamByte]
  BY <1>1, ExtensionTyped, RamTyped DEF SeedInv, TypeOK
<1> QED
  BY <1>2, <1>3, <1>4, <1>5

(* A write the log never sees: the slots it may have reached are suspect,  *)
(* and the one it named holds what it wrote or is forgotten.               *)
LEMMA UnloggedKeeps ==
    ASSUME SeedInv, NEW a \in Int, NEW v \in SymVal, UnloggedWrite(a, v),
           \A b \in DOMAIN slots' \ {a} : b \in DOMAIN slots /\ slots'[b] = slots[b],
           a \in DOMAIN slots' => slots'[a] = v
    PROVE  LogTyped' /\ LogAgrees' /\ ram' \in [Addr -> RamByte]
<1>1. /\ log' = log /\ log \in Seq(Entry) /\ Len(log) \in Nat
      /\ ram' = WriteRam(ram, a, v, DWord)
  BY DEF UnloggedWrite, SeedInv, LogTyped
<1>2. ASSUME NEW i \in 1 .. Len(log), Believed(i)' PROVE Written(log[i])'
  <2>1. log[i] \in Entry /\ InRange(log[i].off, log[i].width) /\ log[i].off \in Addr
    <3>1. log[i] \in Entry
      BY <1>1
    <3> QED
      BY <1>1, <3>1 DEF SeedInv, LogTyped, Entry
  <2>2. /\ log[i].off \in Int /\ log[i].width \in Nat /\ log[i].width <= DWord
        /\ DWord \in Nat
    BY <2>1, EntryWidths, Widths
  <2>3. CASE log[i].off = a
    <3>1. log[i].new = v
      BY <1>1, <1>2, <2>3 DEF Believed
    <3>2. v \in Extensions(v, log[i].width)
      BY SymbolExtension
    <3>3. ASSUME NEW b \in 0 .. (log[i].width - 1) PROVE ram'[a + b] = ByteAt(v, b)
      <4>1. a + b \in Addr
        BY <2>1, <2>3 DEF InRange
      <4>2. a <= a + b /\ a + b < a + DWord /\ (a + b) - a = b
        BY <2>2
      <4> QED
        BY <1>1, <2>2, <4>1, <4>2, RamWritten
    <3> QED
      BY <1>1, <2>3, <3>1, <3>2, <3>3 DEF Written
  <2>4. CASE log[i].off # a
    <3>1. Believed(i)
      BY <1>1, <1>2, <2>4 DEF Believed, Latest, UnloggedWrite
    <3>2. Written(log[i])
      BY <3>1 DEF SeedInv, LogAgrees
    <3>3. Apart(log[i].off, DWord, a, DWord)
      BY <1>1, <1>2, <2>1, <2>4 DEF Believed, UnloggedWrite
    <3>4. Apart(a, DWord, log[i].off, log[i].width)
      BY <2>2, <3>3 DEF Apart
    <3> QED
      BY <1>1, <2>1, <2>2, <3>2, <3>4, WrittenElsewhere
  <2> QED
    BY <2>3, <2>4
<1>3. ram' \in [Addr -> RamByte]
  BY <1>1, RamTyped DEF SeedInv, TypeOK, DkVal
<1> QED
  BY <1>1, <1>2, <1>3 DEF LogAgrees, LogTyped, SeedInv
-----------------------------------------------------------------------------
(* What a justified slot becomes is a value as wide as its cell, with the  *)
(* bytes of every value the store may have been of.                        *)
LEMMA SeedValReads ==
    ASSUME NEW v \in DkVal, NEW w \in {1, Word, DWord}, NEW u \in SeedVal(v, w)
    PROVE  /\ u \in DkVal /\ w \in {Word, DWord}
           /\ u.kind = "i32" => w = Word
           /\ u.kind = "i64" => w = DWord
           /\ \A x \in Extensions(v, w) : \A b \in 0 .. (w - 1) : ByteAt(x, b) = ByteAt(u, b)
<1>0. Word # DWord /\ Word \in Nat /\ DWord \in Nat /\ Word > 0 /\ DWord > Word
  BY Widths
<1>1. CASE v \in SymVal
  <2>1. v.kind = "sym"
    BY <1>1 DEF SymVal
  <2>2. u = v /\ w >= Word
    BY <2>1 DEF SeedVal
  <2> QED
    BY <1>0, <1>1, <2>1, <2>2, SymbolExtension
<1>2. CASE v \in I32Val
  <2>0. v.kind = "i32" /\ DOMAIN v.bytes = 0 .. (Word - 1)
    BY <1>2 DEF I32Val
  <2>1. CASE w = Word
    BY <1>0, <2>0, <2>1 DEF SeedVal, Extensions
  <2>2. CASE w = DWord
    <3>1. u = ZeroExtend(v) /\ ~ Negative(v)
      BY <1>0, <2>0, <2>2 DEF SeedVal
    <3>2. u \in I64Val
      BY <1>0, <1>2, <3>1, RadixAssumption DEF ZeroExtend, I64Val, I32Val, Byte
    <3>3. Extensions(v, w) = {v}
      BY <3>1 DEF Extensions
    <3>4. ASSUME NEW b \in 0 .. (w - 1) PROVE ByteAt(v, b) = ByteAt(u, b)
      BY <2>0, <2>2, <3>1 DEF ByteAt, ZeroExtend
    <3> QED
      BY <2>2, <3>2, <3>3, <3>4 DEF DkVal, I64Val
  <2> QED
    BY <1>0, <2>0, <2>1, <2>2 DEF SeedVal
<1>3. CASE v \in I64Val
  <2>0. /\ v.kind = "i64" /\ DOMAIN v.bytes = 0 .. (DWord - 1)
        /\ Extensions(v, w) = {v}
    BY <1>3 DEF I64Val, Extensions
  <2>1. CASE w = DWord
    BY <1>0, <2>0, <2>1 DEF SeedVal
  <2>2. CASE w = Word
    <3>1. u = Truncate(v)
      BY <1>0, <2>0, <2>2 DEF SeedVal
    <3>2. u \in I32Val
      BY <1>0, <1>3, <3>1 DEF Truncate, I64Val, I32Val
    <3>3. ASSUME NEW b \in 0 .. (w - 1) PROVE ByteAt(v, b) = ByteAt(u, b)
      BY <1>0, <2>0, <2>2, <3>1 DEF ByteAt, Truncate
    <3> QED
      BY <1>0, <2>0, <2>2, <3>2, <3>3 DEF DkVal, I32Val
  <2> QED
    BY <1>0, <2>0, <2>1, <2>2 DEF SeedVal
<1> QED
  BY <1>1, <1>2, <1>3 DEF DkVal

(* Each seeded cell comes from one justified entry of the log.             *)
From(a, i) ==
    /\ i \in 1 .. Len(log) /\ log[i].off = a /\ Justified(i)
    /\ Seeded[a].width = log[i].width
    /\ Seeded[a].val \in SeedVal(log[i].new, log[i].width)

LEMMA SeededFrom ==
    ASSUME NEW a \in DOMAIN Seeded
    PROVE  \E i : From(a, i)
<1> DEFINE picks == {i \in 1 .. Len(log) :
                        Justified(i) /\ SeedVal(log[i].new, log[i].width) # {}}
           i == CHOOSE j \in picks : log[j].off = a
           u == CHOOSE v \in SeedVal(log[i].new, log[i].width) : TRUE
<1>1. a \in {log[j].off : j \in picks} /\ Seeded[a] = [val |-> u, width |-> log[i].width]
  BY DEF Seeded
<1>2. i \in picks /\ log[i].off = a
  <2> HIDE DEF picks
  <2>1. \E j \in picks : log[j].off = a
    BY <1>1
  <2> QED BY <2>1
<1>3. SeedVal(log[i].new, log[i].width) # {}
  BY <1>2
<1> HIDE DEF i
<1>4. u \in SeedVal(log[i].new, log[i].width)
  BY <1>3
<1>5. From(a, i)
  <2> HIDE DEF u
  <2> QED BY <1>1, <1>2, <1>4 DEF From
<1> QED BY <1>5

(* A justified entry is the last word on its bytes.                        *)
LEMMA JustifiedLatest ==
    ASSUME NEW i \in 1 .. Len(log), Justified(i)
    PROVE  Latest(i) /\ log[i].off \in DOMAIN slots /\ slots[log[i].off] = log[i].new
<1>1. ASSUME NEW j \in (i + 1) .. Len(log)
      PROVE  log[j].off # log[i].off /\ Apart(log[j].off, log[j].width, log[i].off, log[i].width)
  <2>1. log[j].off # log[i].off
    BY DEF Justified, SeenAfter
  <2> QED
    BY <2>1 DEF Justified, Clobbered
<1> QED
  BY <1>1 DEF Latest, Justified

(* The fold seeds typed cells, apart from each other, that hold what the   *)
(* machine holds wherever nothing unseen may have written.                 *)
LEMMA SeededKeeps ==
    ASSUME LogTyped, LogAgrees
    PROVE  /\ CellsTyped(Seeded)
           /\ Disjoint(Seeded)
           /\ \A a \in DOMAIN Seeded \ suspect : \A b \in 0 .. (Seeded[a].width - 1) :
                  ram[a + b] = ByteAt(Seeded[a].val, b)
<1>1. ASSUME NEW a \in DOMAIN Seeded, NEW i, From(a, i)
      PROVE  /\ i \in 1 .. Len(log) /\ log[i] \in Entry
             /\ log[i].off = a /\ log[i].width = Seeded[a].width
             /\ log[i].new \in DkVal /\ log[i].width \in {1, Word, DWord} /\ a \in Addr
             /\ InRange(a, Seeded[a].width)
  <2>1. i \in 1 .. Len(log) /\ log[i] \in Entry
    BY <1>1 DEF From, LogTyped
  <2> QED
    BY <1>1, <2>1 DEF From, LogTyped, Entry
<1>2. CellsTyped(Seeded)
  <2>1. Seeded = [a \in DOMAIN Seeded |-> Seeded[a]]
    BY DEF Seeded
  <2>2. ASSUME NEW a \in DOMAIN Seeded PROVE a \in Addr /\ CellOK(Seeded, a)
    <3>1. PICK i : From(a, i)
      BY SeededFrom
    <3>2. Seeded[a] = [val |-> Seeded[a].val, width |-> Seeded[a].width]
      BY DEF Seeded
    <3>3. /\ Seeded[a].val \in DkVal /\ Seeded[a].width \in {Word, DWord}
          /\ Seeded[a].val.kind = "i32" => Seeded[a].width = Word
          /\ Seeded[a].val.kind = "i64" => Seeded[a].width = DWord
      BY <1>1, <3>1, SeedValReads DEF From
    <3> HIDE DEF Seeded
    <3> QED
      BY <1>1, <3>1, <3>2, <3>3 DEF CellOK
  <2> QED
    BY <2>1, <2>2 DEF CellsTyped
<1>3. Disjoint(Seeded)
  <2> SUFFICES ASSUME NEW a \in DOMAIN Seeded, NEW b \in DOMAIN Seeded, a # b
               PROVE  Apart(a, Seeded[a].width, b, Seeded[b].width)
    BY DEF Disjoint
  <2>1. PICK i : From(a, i)
    BY SeededFrom
  <2>2. PICK j : From(b, j)
    BY SeededFrom
  <2>3. /\ i \in 1 .. Len(log) /\ j \in 1 .. Len(log) /\ i # j
        /\ log[i].off = a /\ log[i].width = Seeded[a].width
        /\ log[j].off = b /\ log[j].width = Seeded[b].width
    BY <1>1, <2>1, <2>2
  <2>4. a \in Int /\ b \in Int /\ Seeded[a].width \in Nat /\ Seeded[b].width \in Nat
    BY <1>1, <2>1, <2>2, EntryWidths
  <2>5. Latest(i) /\ Latest(j)
    BY <2>1, <2>2, JustifiedLatest DEF From
  <2>6. CASE i < j
    <3>1. j \in (i + 1) .. Len(log)
      BY <2>3, <2>6
    <3>2. Apart(b, Seeded[b].width, a, Seeded[a].width)
      BY <2>3, <2>5, <3>1 DEF Latest
    <3> QED BY <2>4, <3>2 DEF Apart
  <2>7. CASE j < i
    <3>1. i \in (j + 1) .. Len(log)
      BY <2>3, <2>7
    <3> QED BY <2>3, <2>5, <3>1 DEF Latest
  <2> QED BY <2>3, <2>6, <2>7
<1>4. ASSUME NEW a \in DOMAIN Seeded \ suspect, NEW b \in 0 .. (Seeded[a].width - 1)
      PROVE  ram[a + b] = ByteAt(Seeded[a].val, b)
  <2>1. PICK i : From(a, i)
    BY SeededFrom
  <2>2. /\ i \in 1 .. Len(log) /\ log[i].off = a /\ log[i].width = Seeded[a].width
        /\ log[i].new \in DkVal /\ log[i].width \in {1, Word, DWord}
    BY <1>1, <2>1
  <2>3. Believed(i)
    BY <2>1, <2>2, JustifiedLatest DEF Believed, From
  <2>4. PICK x \in Extensions(log[i].new, log[i].width) :
            \A n \in 0 .. (log[i].width - 1) : ram[a + n] = ByteAt(x, n)
    BY <2>2, <2>3 DEF LogAgrees, Written
  <2>5. ByteAt(x, b) = ByteAt(Seeded[a].val, b)
    BY <2>1, <2>2, SeedValReads DEF From
  <2> QED BY <2>2, <2>4, <2>5
<1> QED BY <1>2, <1>3, <1>4
-----------------------------------------------------------------------------
(* The offsets a dynamic store can reach include the one it hits. *)
LEMMA Reaches ==
    ASSUME NEW base \in Int, NEW term \in {0, 1}
    PROVE  base + DWord * term >= base /\ ((base + DWord * term) - base) % DWord = 0
<1>1. DWord \in Nat /\ DWord > 0
  BY Widths
<1>2. CASE term = 0
  <2>1. base + DWord * term = base
    BY <1>1, <1>2
  <2>2. 0 % DWord = 0
    BY <1>1
  <2> QED BY <2>1, <2>2
<1>3. CASE term = 1
  <2>1. base + DWord * term = base + DWord
    BY <1>1, <1>3
  <2>2. DWord % DWord = 0
    BY <1>1
  <2> QED BY <1>1, <2>1, <2>2
<1> QED BY <1>2, <1>3

(* The gate's invariant: the log is a record the machine bears out, and    *)
(* what was seeded from it is typed, apart, and what the machine holds.    *)
THEOREM SeedInvInductive ==
    (SeedInit => SeedInv) /\ (SeedInv /\ [SeedNext]_seedVars => SeedInv')
<1>1. ASSUME SeedInit PROVE SeedInv
  <2>1. LogTyped /\ LogAgrees
    <3>1. log \in Seq(Entry) /\ Len(log) = 0
      BY <1>1 DEF SeedInit
    <3> QED BY <3>1 DEF LogTyped, LogAgrees
  <2>2. DOMAIN cells = {} /\ cells = [a \in DOMAIN cells |-> cells[a]]
    BY <1>1 DEF SeedInit, Init
  <2>3. TypeOK /\ CellsDisjoint
    BY <1>1, IInvInductive DEF SeedInit, IInv
  <2> QED
    BY <2>1, <2>2, <2>3 DEF SeedInv, SeededAgree
<1>2. ASSUME SeedInv, [SeedNext]_seedVars PROVE SeedInv'
  <2>1. CASE UNCHANGED seedVars
    BY <1>2, <2>1 DEF seedVars, SeedInv, LogTyped, LogAgrees, Believed, Latest, Written,
          TypeOK, CellsTyped, CellOK, InRange, CellsDisjoint, Disjoint, SeededAgree
  <2>2. ASSUME Caller, LogTyped', LogAgrees', ram' \in [Addr -> RamByte] PROVE SeedInv'
    <3>1. ~ folded' /\ cells' = cells /\ DOMAIN cells = {}
      BY <1>2, <2>2 DEF Caller, SeedInv
    <3>2. CellsTyped(cells')
      BY <1>2, <3>1 DEF SeedInv, TypeOK
    <3> QED
      BY <2>2, <3>1, <3>2 DEF SeedInv, TypeOK, CellsDisjoint, Disjoint, SeededAgree
  <2>3. ASSUME NEW a \in Addr, NEW v \in CallerVal, NEW w \in {1, Word, DWord},
               StoreFrameSlot(a, v, w)
        PROVE  SeedInv'
    <3>0. v \in DkVal
      BY DescAssumption
    <3>1. PICK x \in Extensions(v, w) : ram' = WriteRam(ram, a, x, w)
      BY <2>3 DEF StoreFrameSlot
    <3>2. /\ LoggedWrite(a, v, w) /\ suspect \ {a} \subseteq suspect'
      BY <2>3 DEF StoreFrameSlot
    <3>3. /\ LogTyped' /\ Len(log') = Len(log) + 1 /\ ram' \in [Addr -> RamByte]
          /\ log'[Len(log) + 1] = [off |-> a, new |-> v, width |-> w]
          /\ \A i \in 1 .. Len(log) : Believed(i)' => Written(log[i])'
      BY <1>2, <3>0, <3>1, <3>2, LoggedKeeps
    <3>4. InRange(a, w) /\ a \in Int /\ w \in Nat
      BY <3>2, Widths, AddrAssumption DEF LoggedWrite
    <3>5. ASSUME NEW b \in 0 .. (w - 1) PROVE ram'[a + b] = ByteAt(x, b)
      <4>1. a + b \in Addr /\ a <= a + b /\ a + b < a + w /\ (a + b) - a = b
        BY <3>4 DEF InRange
      <4> QED BY <3>1, <3>4, <4>1, RamWritten
    <3>6. Written(log[Len(log)])'
      <4>1. Len(log) \in Nat
        BY <1>2 DEF SeedInv, LogTyped
      <4>2. /\ log'[Len(log')].off = a /\ log'[Len(log')].new = v
            /\ log'[Len(log')].width = w
        BY <3>3, <4>1
      <4> QED BY <3>1, <3>5, <4>2 DEF Written
    <3>7. LogAgrees'
      <4>1. Len(log) \in Nat
        BY <1>2 DEF SeedInv, LogTyped
      <4> QED
        BY <3>3, <3>6, <4>1 DEF LogAgrees
    <3> QED
      BY <2>2, <3>2, <3>3, <3>7 DEF LoggedWrite
  <2>4. ASSUME NEW a \in Addr, NEW v \in CallerVal, NEW w \in {1, Word, DWord},
               StoreInArm(a, v, w)
        PROVE  SeedInv'
    <3>0. v \in DkVal
      BY DescAssumption
    <3>1. ram' = ram \/ \E x \in Extensions(v, w) : ram' = WriteRam(ram, a, x, w)
      BY <2>4 DEF StoreInArm
    <3>2. LoggedWrite(a, v, w) /\ suspect \ {a} \subseteq suspect' /\ a \in suspect'
      BY <2>4 DEF StoreInArm
    <3>3. /\ LogTyped' /\ Len(log') = Len(log) + 1 /\ ram' \in [Addr -> RamByte]
          /\ log'[Len(log) + 1] = [off |-> a, new |-> v, width |-> w]
          /\ \A i \in 1 .. Len(log) : Believed(i)' => Written(log[i])'
      BY <1>2, <3>0, <3>1, <3>2, LoggedKeeps
    <3>4. LogAgrees'
      <4>1. Len(log) \in Nat
        BY <1>2 DEF SeedInv, LogTyped
      <4>2. ~ Believed(Len(log))'
        BY <3>2, <3>3 DEF Believed
      <4> QED
        BY <3>3, <4>1, <4>2 DEF LogAgrees
    <3> QED
      BY <2>2, <3>2, <3>3, <3>4 DEF LoggedWrite
  <2>5. ASSUME NEW a \in Addr, NEW v \in SymVal, RecognizerSeed(a, v) PROVE SeedInv'
    <3>1. /\ UnloggedWrite(a, v) /\ a \in Int
          /\ \A b \in DOMAIN slots' \ {a} : b \in DOMAIN slots /\ slots'[b] = slots[b]
          /\ a \in DOMAIN slots' => slots'[a] = v
      BY <2>5, AddrAssumption DEF RecognizerSeed, SetSlot
    <3>2. LogTyped' /\ LogAgrees' /\ ram' \in [Addr -> RamByte]
      BY <1>2, <3>1, UnloggedKeeps
    <3> QED
      BY <2>2, <3>1, <3>2 DEF UnloggedWrite
  <2>6. ASSUME NEW base \in Addr, NEW term \in {0, 1}, NEW v \in SymVal,
               DynamicStore(base, DWord, term, v)
        PROVE  SeedInv'
    <3> DEFINE a == base + DWord * term
               reached == {b \in DOMAIN slots : b >= base /\ (b - base) % DWord = 0}
    <3>0. base \in Int /\ a \in Int
      BY AddrAssumption, Widths
    <3>1. UnloggedWrite(a, v) /\ slots' = [b \in DOMAIN slots \ reached |-> slots[b]]
      BY <2>6 DEF DynamicStore
    <3>2. a \notin DOMAIN slots'
      <4>1. a >= base /\ (a - base) % DWord = 0
        BY <3>0, Reaches
      <4> QED BY <3>1, <4>1
    <3>3. \A b \in DOMAIN slots' \ {a} : b \in DOMAIN slots /\ slots'[b] = slots[b]
      BY <3>1
    <3> HIDE DEF a, reached
    <3>4. LogTyped' /\ LogAgrees' /\ ram' \in [Addr -> RamByte]
      BY <1>2, <3>0, <3>1, <3>2, <3>3, UnloggedKeeps
    <3> QED
      BY <2>2, <3>1, <3>4 DEF UnloggedWrite
  <2>7. ASSUME UNCHANGED <<ram, slots, log, suspect>> PROVE LogTyped' /\ LogAgrees'
    BY <1>2, <2>7 DEF SeedInv, LogTyped, LogAgrees, Believed, Latest, Written, InRange
  <2>8. CASE Fold
    <3>1. cells' = Seeded /\ UNCHANGED <<ram, slots, log, suspect>> /\ folded'
      BY <2>8 DEF Fold
    <3>2. /\ CellsTyped(Seeded) /\ Disjoint(Seeded)
          /\ \A a \in DOMAIN Seeded \ suspect : \A b \in 0 .. (Seeded[a].width - 1) :
                 ram[a + b] = ByteAt(Seeded[a].val, b)
      BY <1>2, SeededKeeps DEF SeedInv
    <3> QED
      BY <1>2, <2>7, <3>1, <3>2 DEF SeedInv, TypeOK, CellsDisjoint, SeededAgree
  <2>9. CASE Finish
    <3>1. /\ cells' = [a \in {} |-> 0] /\ UNCHANGED <<ram, slots, log, suspect>>
          /\ DOMAIN cells' = {}
      BY <2>9 DEF Finish
    <3> QED
      BY <1>2, <2>7, <3>1
         DEF SeedInv, TypeOK, CellsTyped, CellsDisjoint, Disjoint, SeededAgree
  <2> QED
    BY <1>2, <2>1, <2>3, <2>4, <2>5, <2>6, <2>8, <2>9 DEF SeedNext
<1> QED BY <1>1, <1>2

(* The memory the gate seeds is typed, as if DkEval::store had made it. *)
THEOREM SeededTyped == SeedSpec => []TypeOK
<1>1. SeedInv => TypeOK
  BY DEF SeedInv
<1> QED
  BY <1>1, SeedInvInductive, PTL DEF SeedSpec

(* The clobber test over the log throws out what DkEval::store would have. *)
THEOREM SeededNeverOverlap == SeedSpec => []SeededDisjoint
<1>1. SeedInv => SeededDisjoint
  BY DEF SeedInv, SeededDisjoint
<1> QED
  BY <1>1, SeedInvInductive, PTL DEF SeedSpec

(* A seeded cell no unseen write may have touched is what the machine has. *)
THEOREM SeededAgreesWithMachine == SeedSpec => []SeededAgree
<1>1. SeedInv => SeededAgree
  BY DEF SeedInv
<1> QED
  BY <1>1, SeedInvInductive, PTL DEF SeedSpec

(* The constructor run on the seeded memory reads what the machine would   *)
(* read, wherever no cell under the load is one something unseen may have  *)
(* written: the gate and DkEval::load together.                            *)
SeededLoadSound ==
    \A a \in Addr, w \in LoadWidth :
        (\A b \in DOMAIN cells \cap suspect : Apart(b, cells[b].width, a, w))
            => \A v \in LoadCell(cells, a, w), i \in 0 .. (w - 1) : ram[a + i] = ByteAt(v, i)

THEOREM SeededLoadsAreSound == SeedSpec => []SeededLoadSound
<1>1. ASSUME SeedInv PROVE SeededLoadSound
  <2> SUFFICES ASSUME NEW a \in Addr, NEW w \in LoadWidth,
                      \A b \in DOMAIN cells \cap suspect : Apart(b, cells[b].width, a, w),
                      NEW v \in LoadCell(cells, a, w), NEW i \in 0 .. (w - 1)
               PROVE  ram[a + i] = ByteAt(v, i)
    BY DEF SeededLoadSound
  <2> DEFINE c == [b \in DOMAIN cells \ suspect |-> cells[b]]
  <2>1. a \in Int /\ w \in Nat /\ w > 0
    BY Widths, AddrAssumption DEF LoadWidth
  <2>2. \A b \in DOMAIN cells : b \in Int /\ cells[b].width \in Nat /\ cells[b].width > 0
    BY <1>1, Widths, AddrAssumption DEF SeedInv, TypeOK, CellsTyped, CellOK
  <2>3. CellsTyped(c) /\ Agree(c, ram)
    BY <1>1 DEF SeedInv, TypeOK, CellsTyped, CellOK, SeededAgree, Agree
  <2>4. v \in LoadCell(c, a, w)
    <3>1. ASSUME NEW b \in Covering(cells, a, w) PROVE b \in Covering(c, a, w) /\ c[b] = cells[b]
      <4>1. b \in DOMAIN cells /\ b <= a /\ a + w <= b + cells[b].width
        BY DEF Covering
      <4>2. ~ Apart(b, cells[b].width, a, w)
        BY <2>1, <2>2, <4>1 DEF Apart
      <4>3. b \notin suspect
        BY <4>1, <4>2
      <4> QED
        BY <4>1, <4>3 DEF Covering
    <3>2. CASE a \in DOMAIN cells /\ cells[a].width = w
      <4>1. a \in Covering(cells, a, w) /\ v = cells[a].val
        BY <2>1, <3>2 DEF Covering, LoadCell
      <4>2. a \in DOMAIN c /\ c[a] = cells[a]
        BY <3>1, <4>1 DEF Covering
      <4> HIDE DEF c
      <4> QED
        BY <3>2, <4>1, <4>2 DEF LoadCell
    <3>3. CASE ~ (a \in DOMAIN cells /\ cells[a].width = w)
      <4>1. PICK b \in Covering(cells, a, w) :
                cells[b].val.kind # "sym" /\ v = Cut(cells[b].val, a - b, w)
        BY <3>3 DEF LoadCell
      <4>2. b \in Covering(c, a, w) /\ c[b] = cells[b]
        BY <3>1
      <4>3. ~ (a \in DOMAIN c /\ c[a].width = w)
        BY <3>3
      <4> HIDE DEF c
      <4> QED
        BY <4>1, <4>2, <4>3 DEF LoadCell
    <3> QED BY <3>2, <3>3
  <2> HIDE DEF c
  <2> QED BY <2>3, <2>4, LoadReads
<1> QED
  BY <1>1, SeedInvInductive, PTL DEF SeedSpec
=============================================================================
