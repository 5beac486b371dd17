--------------------------- MODULE FrameSlotsProofs ---------------------------
(***************************************************************************)
(* For every set of slots and values and for bodies of any size: a load    *)
(* outside loops answers only what every path holds, no CrossArm mark      *)
(* outlives its join, and a join blames only its own arms.                 *)
(***************************************************************************)
EXTENDS FrameSlots, TLAPS, SequenceTheorems

Held == Abstract \cup {"missing"}
Taints == [Slot -> [kind : {"none", "CrossArm", "Conditional", "DeadThen", "LoopVariant"}, val : Held]]
Memory == [Slot -> Value \cup {"entry", "same"}]
Entry == [key : Slot, prev : Held, new : Abstract]
IfFrame ==
    [kind : {"if"}, stamps : BOOLEAN, arm : {"then", "else"}, pos : Nat, ended : BOOLEAN,
     before : SUBSET Memory, beforeTaints : Taints, beforeExposed : SUBSET Slot, seeded : SUBSET Slot,
     thenLive : SUBSET Memory, thenEnded : BOOLEAN, thenExposed : SUBSET Slot, thenStored : SUBSET Slot,
     thenTaints : Taints, thenWrites : SUBSET Slot, elsePos : Nat]
LoopFrame ==
    [kind : {"loop"}, stamps : {TRUE}, pos : Nat, before : SUBSET Memory,
     beforeTaints : Taints, beforeExposed : SUBSET Slot, seeded : SUBSET Slot,
     exits : SUBSET Memory, branches : BOOLEAN]
Frame == IfFrame \cup LoopFrame

Typed ==
    /\ slots \in [Slot -> Held]
    /\ taints \in Taints
    /\ defs \in [Slot -> Seq(Abstract)]
    /\ log \in Seq(Entry)
    /\ open \in Seq(Frame)
    /\ live \in SUBSET Memory
    /\ exposed \in SUBSET Slot

-----------------------------------------------------------------------------
(* A slot stored since a position has a first and a last such store.       *)
FirstIs(pos, k, j) == j \in Since(pos) /\ log[j].key = k /\ \A n \in Since(pos) : log[n].key = k => j <= n
LastIs(pos, k, j)  == j \in Since(pos) /\ log[j].key = k /\ \A n \in Since(pos) : log[n].key = k => n <= j
LogIndexed ==
    \A pos \in 0 .. Len(log) : \A k \in StoredSince(pos) :
        (\E j : FirstIs(pos, k, j)) /\ (\E j : LastIs(pos, k, j))

(* A slot the map has lost has no single definition a load could answer.   *)
NoLoneDef == \A k \in Slot : slots[k] = "missing" => ~ (Len(defs[k]) = 1 /\ defs[k][1] \in Value)

(* What a taint admits, and what the memories of a path must then hold: u, *)
(* or inside a loop body whatever the iteration started with.              *)
Poison(tn, k, u) == tn[k].kind # "none" /\ tn[k].val = u
Fits(ms, k, u) == \A m \in ms : m[k] \in {u, "same"}
Holds(ms, tn, k, u) == u \in Value /\ ~ Poison(tn, k, u) => Fits(ms, k, u)

Sound == \A k \in Slot \ exposed : Holds(live, taints, k, slots[k])

(* What slot k held when a construct opened, as far as the map still says. *)
Opened(f, k) == IF k \in StoredSince(f.pos) THEN FirstPrev(f.pos, k) ELSE slots[k]

(* What is known of an open construct f. *)
EntrySound(f) ==
    \A k \in Slot \ (f.seeded \cup f.beforeExposed) : Holds(f.before, f.beforeTaints, k, Opened(f, k))
OwnTaints(f) == \A k \in Slot \ StoredSince(f.pos) : taints[k] = f.beforeTaints[k]
LastStored(f) ==
    \A k \in StoredSince(f.pos) \ f.seeded : slots[k] \in {"missing", LastNew(f.pos, k)}
OwnExposed(f, ex) == ex \subseteq f.beforeExposed \cup StoredSince(f.pos) \cup f.seeded

InElse(f) == f.kind = "if" /\ f.arm = "else"
ArmsSplit(f) ==
    /\ f.pos <= f.elsePos /\ f.elsePos <= Len(log)
    /\ f.thenWrites \subseteq f.thenStored
    /\ f.thenStored \subseteq StoredSince(f.pos)
    /\ StoredSince(f.pos) \subseteq f.thenStored \cup StoredSince(f.elsePos)
    /\ OwnExposed(f, f.thenExposed)
ThenMarked(f) ==
    \A k \in Slot \ StoredSince(f.elsePos) :
        IF k \in f.thenWrites
        THEN taints[k].kind = "CrossArm" /\ (k \notin f.seeded => slots[k] \in {"missing", taints[k].val})
        ELSE taints[k] = f.thenTaints[k]
ThenSound(f) ==
    \A k \in Slot \ (StoredSince(f.elsePos) \cup f.seeded \cup f.thenExposed) :
        Holds(f.thenLive, f.thenTaints, k, slots[k])
ExitsSound(f) ==
    \A k \in Slot \ (StoredSince(f.pos) \cup f.seeded \cup f.beforeExposed) :
        Holds(f.exits, f.beforeTaints, k, slots[k])

FrameOK(f) ==
    /\ f.pos <= Len(log)
    /\ EntrySound(f) /\ OwnTaints(f) /\ LastStored(f) /\ OwnExposed(f, exposed)
    /\ InElse(f) => ArmsSplit(f) /\ ThenMarked(f) /\ ThenSound(f)
    /\ f.kind = "loop" => ExitsSound(f) /\ (~ f.branches => f.exits = {})

(* What is known of a construct g opened inside f. *)
Nested(f, g) ==
    /\ f.pos <= g.pos
    /\ InElse(f) => f.elsePos <= g.pos
    /\ g.seeded \subseteq f.seeded
    /\ OwnExposed(f, g.beforeExposed)
    /\ f.kind = "if" => ~ f.ended

FramesOK ==
    /\ \A d \in 1 .. Depth : FrameOK(open[d])
    /\ \A c, d \in 1 .. Depth : c < d => Nested(open[c], open[d])
    /\ Depth > 0 /\ Inner.kind = "if" /\ Inner.ended => live = {}

(* A CrossArm mark belongs to an `if' whose else arm is being lifted. *)
MarksOwned ==
    \A k \in Slot : taints[k].kind = "CrossArm" =>
        \E d \in 1 .. Depth : InElse(open[d]) /\ k \in open[d].thenWrites

(* Outside loops no memory is relative to an iteration's start. *)
Full(ms) == \A m \in ms, k \in Slot : m[k] # "same"
NoLoop(d) == \A c \in 1 .. d : open[c].kind # "loop"
Absolute ==
    /\ NoLoop(Depth) => Full(live)
    /\ \A d \in 1 .. Depth : NoLoop(d - 1) => Full(open[d].before)
    /\ \A d \in 1 .. Depth : NoLoop(d) => Full(open[d].thenLive)

IInv == Typed /\ LogIndexed /\ NoLoneDef /\ Sound /\ FramesOK /\ MarksOwned /\ Absolute
-----------------------------------------------------------------------------
(* The first store of a slot tells what it held before, the last one after.*)
LogReads ==
    log \in Seq(Entry) => \A pos \in Nat, k \in Slot : \A j :
        /\ FirstIs(pos, k, j) => FirstPrev(pos, k) = log[j].prev
        /\ LastIs(pos, k, j)  => LastNew(pos, k) = log[j].new

LEMMA ReadsLog == LogReads
<1> SUFFICES ASSUME log \in Seq(Entry), NEW pos \in Nat, NEW k \in Slot, NEW j
             PROVE  /\ FirstIs(pos, k, j) => FirstPrev(pos, k) = log[j].prev
                    /\ LastIs(pos, k, j)  => LastNew(pos, k) = log[j].new
  BY DEF LogReads
<1>1. \A i \in Since(pos) : i \in Int
  BY DEF Since
<1>2. ASSUME FirstIs(pos, k, j) PROVE FirstPrev(pos, k) = log[j].prev
  <2> DEFINE P(i) == log[i].key = k /\ \A n \in Since(pos) : log[n].key = k => i <= n
             c == CHOOSE i \in Since(pos) : P(i)
  <2>1. j \in Since(pos) /\ P(j)
    BY <1>2 DEF FirstIs
  <2>2. c \in Since(pos) /\ P(c)
    <3> HIDE DEF P
    <3> QED BY <2>1
  <2>3. c <= j /\ j <= c
    BY <2>1, <2>2
  <2>4. FirstPrev(pos, k) = log[c].prev
    BY Zenon DEF FirstPrev
  <2> HIDE DEF c
  <2> QED BY <1>1, <2>1, <2>2, <2>3, <2>4
<1>3. ASSUME LastIs(pos, k, j) PROVE LastNew(pos, k) = log[j].new
  <2> DEFINE P(i) == log[i].key = k /\ \A n \in Since(pos) : log[n].key = k => n <= i
             c == CHOOSE i \in Since(pos) : P(i)
  <2>1. j \in Since(pos) /\ P(j)
    BY <1>3 DEF LastIs
  <2>2. c \in Since(pos) /\ P(c)
    <3> HIDE DEF P
    <3> QED BY <2>1
  <2>3. c <= j /\ j <= c
    BY <2>1, <2>2
  <2>4. LastNew(pos, k) = log[c].new
    BY Zenon DEF LastNew
  <2> HIDE DEF c
  <2> QED BY <1>1, <2>1, <2>2, <2>3, <2>4
<1> QED BY <1>2, <1>3

(* What a store adds to what the log tells. *)
LEMMA LogAppend ==
    ASSUME log \in Seq(Entry), LogIndexed, NEW e \in Entry, log' = Append(log, e)
    PROVE  /\ log' \in Seq(Entry) /\ Len(log') = Len(log) + 1 /\ LogIndexed'
           /\ \A pos \in 0 .. Len(log) :
                /\ StoredSince(pos)' = StoredSince(pos) \cup {e.key}
                /\ LastNew(pos, e.key)' = e.new
                /\ FirstPrev(pos, e.key)' =
                       IF e.key \in StoredSince(pos) THEN FirstPrev(pos, e.key) ELSE e.prev
                /\ \A k \in StoredSince(pos) \ {e.key} :
                       FirstPrev(pos, k)' = FirstPrev(pos, k) /\ LastNew(pos, k)' = LastNew(pos, k)
<1>0. PICK n \in Nat : n = Len(log)
  BY LenProperties
<1>1. /\ log' \in Seq(Entry) /\ Len(log') = n + 1 /\ log'[n + 1] = e
      /\ \A i \in 1 .. n : log'[i] = log[i]
      /\ \A i \in 1 .. n : log[i] \in Entry
      /\ e.key \in Slot
  <2>1. log' \in Seq(Entry) /\ Len(log') = n + 1 /\ log'[n + 1] = e
    BY <1>0
  <2>2. \A i \in 1 .. n : log'[i] = log[i]
    BY <1>0
  <2>3. \A i \in 1 .. n : log[i] \in Entry
    BY <1>0, ElementOfSeq
  <2>4. e.key \in Slot
    BY DEF Entry
  <2> QED BY <2>1, <2>2, <2>3, <2>4
<1>2. ASSUME NEW pos \in 0 .. n
      PROVE  Since(pos)' = Since(pos) \cup {n + 1} /\ \A i \in Since(pos) : i \in 1 .. n
  BY <1>0, <1>1 DEF Since
<1>3. ASSUME NEW pos \in 0 .. n
      PROVE  StoredSince(pos)' = StoredSince(pos) \cup {e.key}
  BY <1>1, <1>2 DEF StoredSince
<1>4. ASSUME NEW pos \in 0 .. n, NEW k, NEW j, FirstIs(pos, k, j)
      PROVE  FirstIs(pos, k, j)' /\ log'[j] = log[j]
  BY <1>1, <1>2, <1>4 DEF FirstIs
<1>5. ASSUME NEW pos \in 0 .. n, NEW k, NEW j, k # e.key, LastIs(pos, k, j)
      PROVE  LastIs(pos, k, j)' /\ log'[j] = log[j]
  BY <1>1, <1>2, <1>5 DEF LastIs
<1>6. ASSUME NEW pos \in 0 .. n
      PROVE  LastIs(pos, e.key, n + 1)'
  BY <1>1, <1>2 DEF LastIs
<1>7. ASSUME NEW pos \in 0 .. n, e.key \notin StoredSince(pos)
      PROVE  FirstIs(pos, e.key, n + 1)'
  BY <1>1, <1>2, <1>7 DEF FirstIs, StoredSince
<1>8. LogReads /\ LogReads'
  <2>1. LogReads'
    BY ReadsLog, PTL
  <2> QED BY <2>1, ReadsLog
<1>9. \A pos \in 0 .. n : \A k \in StoredSince(pos) : k \in Slot
  BY <1>1, <1>2 DEF StoredSince, Entry
<1>10. LogIndexed'
  <2> SUFFICES ASSUME NEW pos \in 0 .. (n + 1), NEW k \in StoredSince(pos)'
               PROVE  (\E j : FirstIs(pos, k, j)') /\ (\E j : LastIs(pos, k, j)')
    BY <1>1 DEF LogIndexed
  <2>1. CASE pos = n + 1
    BY <1>1, <2>1 DEF StoredSince, Since
  <2>2. CASE pos # n + 1
    <3>1. pos \in 0 .. n
      BY <1>1, <2>2
    <3>2. k \in StoredSince(pos) => (\E j : FirstIs(pos, k, j)) /\ (\E j : LastIs(pos, k, j))
      BY <1>0, <3>1 DEF LogIndexed
    <3>3. k = e.key \/ k \in StoredSince(pos)
      BY <1>3, <3>1
    <3> QED BY <1>4, <1>5, <1>6, <1>7, <3>1, <3>2, <3>3
  <2> QED BY <2>1, <2>2
<1>11. ASSUME NEW pos \in 0 .. n, NEW k \in StoredSince(pos)
       PROVE  /\ FirstPrev(pos, k)' = FirstPrev(pos, k)
              /\ k # e.key => LastNew(pos, k)' = LastNew(pos, k)
  <2>0. pos \in Nat /\ k \in Slot
    BY <1>1, <1>9
  <2>1. PICK j : FirstIs(pos, k, j)
    BY <1>0 DEF LogIndexed
  <2>2. PICK l : LastIs(pos, k, l)
    BY <1>0 DEF LogIndexed
  <2>3. FirstIs(pos, k, j)' /\ log'[j] = log[j]
    BY <1>4, <2>1
  <2>4. k # e.key => LastIs(pos, k, l)' /\ log'[l] = log[l]
    BY <1>5, <2>2
  <2>9. /\ \A i : /\ FirstIs(pos, k, i) => FirstPrev(pos, k) = log[i].prev
                  /\ LastIs(pos, k, i) => LastNew(pos, k) = log[i].new
        /\ \A i : /\ FirstIs(pos, k, i)' => FirstPrev(pos, k)' = log'[i].prev
                  /\ LastIs(pos, k, i)' => LastNew(pos, k)' = log'[i].new
    <3>1. /\ \A p \in Nat, q \in Slot : \A i :
               /\ FirstIs(p, q, i) => FirstPrev(p, q) = log[i].prev
               /\ LastIs(p, q, i) => LastNew(p, q) = log[i].new
      BY <1>8 DEF LogReads
    <3>2. /\ \A p \in Nat, q \in Slot : \A i :
               /\ FirstIs(p, q, i)' => FirstPrev(p, q)' = log'[i].prev
               /\ LastIs(p, q, i)' => LastNew(p, q)' = log'[i].new
      BY <1>1, <1>8 DEF LogReads
    <3> QED BY <2>0, <3>1, <3>2
  <2>5. FirstPrev(pos, k) = log[j].prev /\ LastNew(pos, k) = log[l].new
    BY <2>1, <2>2, <2>9
  <2>6. FirstPrev(pos, k)' = log'[j].prev
    BY <2>3, <2>9
  <2>7. ASSUME k # e.key PROVE LastNew(pos, k)' = log'[l].new
    <3>1. LastIs(pos, k, l)'
      BY <2>4, <2>7
    <3> QED BY <2>9, <3>1
  <2> QED
    BY <2>3, <2>4, <2>5, <2>6, <2>7
<1>12. ASSUME NEW pos \in 0 .. n
       PROVE  /\ LastNew(pos, e.key)' = e.new
              /\ e.key \notin StoredSince(pos) => FirstPrev(pos, e.key)' = e.prev
  <2>1. pos \in Nat
    BY <1>1
  <2> QED
    BY <1>1, <1>6, <1>7, <1>8, <2>1 DEF LogReads
<1> QED
  BY <1>0, <1>1, <1>3, <1>10, <1>11, <1>12
-----------------------------------------------------------------------------
(* The fields of a construct. *)
LEMMA FrameTypes ==
    ASSUME NEW f \in Frame
    PROVE  /\ f.pos \in Nat /\ f.seeded \subseteq Slot /\ f.beforeExposed \subseteq Slot
           /\ f.before \subseteq Memory /\ f.beforeTaints \in Taints
           /\ f.kind \in {"if", "loop"}
           /\ f.kind = "if" => f \in IfFrame
           /\ f.kind = "loop" => f \in LoopFrame
BY DEF Frame, IfFrame, LoopFrame

LEMMA StoredSlots ==
    ASSUME log \in Seq(Entry), NEW pos \in Nat
    PROVE  StoredSince(pos) \subseteq Slot
<1>1. \A i \in Since(pos) : i \in 1 .. Len(log)
  BY LenProperties DEF Since
<1>2. \A i \in 1 .. Len(log) : log[i] \in Entry
  BY ElementOfSeq
<1> QED
  BY <1>1, <1>2 DEF StoredSince, Entry

(* What the log tells is a matter of the log alone. *)
LEMMA LogSame ==
    ASSUME UNCHANGED log
    PROVE  \A pos, k : /\ StoredSince(pos)' = StoredSince(pos)
                       /\ FirstPrev(pos, k)' = FirstPrev(pos, k)
                       /\ LastNew(pos, k)' = LastNew(pos, k)
BY DEF StoredSince, FirstPrev, LastNew, Since

LEMMA IndexSame ==
    ASSUME UNCHANGED log, LogIndexed
    PROVE  LogIndexed'
<1>1. \A pos, k, j : /\ FirstIs(pos, k, j)' <=> FirstIs(pos, k, j)
                     /\ LastIs(pos, k, j)' <=> LastIs(pos, k, j)
  BY DEF FirstIs, LastIs, Since
<1>2. \A pos : StoredSince(pos)' = StoredSince(pos)
  BY LogSame
<1> QED BY <1>1, <1>2 DEF LogIndexed

(* A logged store keeps what is known of each open construct.              *)
LEMMA StoreKeepsFrame ==
    ASSUME Typed, LogIndexed, NEW f \in Frame, FrameOK(f), NEW k \in Slot, NEW v \in Abstract,
           log' = Append(log, [key |-> k, prev |-> slots[k], new |-> v]),
           taints' = With(taints, k, NoTaint), slots' = With(slots, k, v), exposed' = exposed \ {k}
    PROVE  FrameOK(f)'
<1> DEFINE e == [key |-> k, prev |-> slots[k], new |-> v]
<1>1. e \in Entry /\ e.key = k /\ e.prev = slots[k] /\ e.new = v
  BY DEF Typed, Entry
<1>2. /\ Len(log') = Len(log) + 1 /\ Len(log) \in Nat
      /\ \A pos \in 0 .. Len(log) :
             /\ StoredSince(pos)' = StoredSince(pos) \cup {k}
             /\ LastNew(pos, k)' = v
             /\ FirstPrev(pos, k)' = IF k \in StoredSince(pos) THEN FirstPrev(pos, k) ELSE slots[k]
             /\ \A j \in StoredSince(pos) \ {k} :
                    FirstPrev(pos, j)' = FirstPrev(pos, j) /\ LastNew(pos, j)' = LastNew(pos, j)
  <2> HIDE DEF e
  <2>1. log' = Append(log, e)
    BY DEF e
  <2> QED BY <1>1, <2>1, LogAppend, LenProperties DEF Typed
<1>3. /\ \A j \in Slot \ {k} : slots'[j] = slots[j] /\ taints'[j] = taints[j]
      /\ slots'[k] = v
  BY DEF Typed, With, Taints
<1>4. f.pos \in 0 .. Len(log)
  BY <1>2, FrameTypes DEF FrameOK
<1>5. \A j \in Slot : Opened(f, j)' = Opened(f, j)
  BY <1>2, <1>3, <1>4 DEF Opened
<1>6. EntrySound(f)'
  BY <1>5 DEF FrameOK, EntrySound, Holds
<1>7. OwnTaints(f)' /\ LastStored(f)' /\ OwnExposed(f, exposed)'
  <2>1. OwnTaints(f)'
    BY <1>2, <1>3, <1>4 DEF FrameOK, OwnTaints
  <2>2. LastStored(f)'
    <3>1. StoredSince(f.pos) \subseteq Slot
      BY <1>4, StoredSlots DEF Typed
    <3>2. ASSUME NEW j \in StoredSince(f.pos)' \ f.seeded
          PROVE  slots'[j] \in {"missing", LastNew(f.pos, j)'}
      <4>1. CASE j = k
        BY <1>2, <1>3, <1>4, <4>1
      <4>2. CASE j # k
        BY <1>2, <1>3, <1>4, <3>1, <3>2, <4>2 DEF FrameOK, LastStored
      <4> QED BY <4>1, <4>2
    <3> QED BY <3>2 DEF LastStored
  <2>3. OwnExposed(f, exposed)'
    BY <1>2, <1>4 DEF FrameOK, OwnExposed
  <2> QED BY <2>1, <2>2, <2>3
<1>8. ASSUME InElse(f) PROVE ArmsSplit(f)' /\ ThenMarked(f)' /\ ThenSound(f)'
  <2>0. f \in IfFrame /\ ArmsSplit(f) /\ ThenMarked(f) /\ ThenSound(f)
    BY <1>8, FrameTypes DEF FrameOK, InElse
  <2>1. f.elsePos \in 0 .. Len(log)
    BY <2>0 DEF ArmsSplit, IfFrame
  <2>2. ArmsSplit(f)'
    BY <1>2, <1>4, <2>0, <2>1 DEF ArmsSplit, OwnExposed
  <2>3. ThenMarked(f)'
    BY <1>2, <1>3, <2>0, <2>1 DEF ThenMarked
  <2>4. ThenSound(f)'
    BY <1>2, <1>3, <2>0, <2>1 DEF ThenSound, Holds
  <2> QED BY <2>2, <2>3, <2>4
<1>9. ASSUME f.kind = "loop" PROVE ExitsSound(f)'
  BY <1>2, <1>3, <1>4, <1>9 DEF FrameOK, ExitsSound, Holds
<1> QED
  BY <1>2, <1>4, <1>6, <1>7, <1>8, <1>9 DEF FrameOK, InElse
(* A recogniser's write keeps it too, for a construct that notes the slot. *)
LEMMA SeedKeepsFrame ==
    ASSUME Typed, NEW f \in Frame, FrameOK(f), NEW k \in Slot, NEW v \in Value,
           NEW g \in Frame, g = [f EXCEPT !.seeded = @ \cup {k}],
           UNCHANGED <<log, taints>>, slots' = With(slots, k, v), exposed' = exposed \ {k}
    PROVE  FrameOK(g)'
<1>1. /\ g.seeded = f.seeded \cup {k} /\ g.pos = f.pos /\ g.kind = f.kind
      /\ g.before = f.before /\ g.beforeTaints = f.beforeTaints /\ g.beforeExposed = f.beforeExposed
  BY DEF Frame, IfFrame, LoopFrame
<1>2. \A j \in Slot \ {k} : slots'[j] = slots[j]
  BY DEF Typed, With
<1>3. /\ \A pos, j : /\ StoredSince(pos)' = StoredSince(pos)
                     /\ FirstPrev(pos, j)' = FirstPrev(pos, j)
                     /\ LastNew(pos, j)' = LastNew(pos, j)
      /\ taints' = taints /\ log' = log
  BY LogSame
<1>4. EntrySound(g)'
  <2>1. \A j \in Slot \ {k} : Opened(g, j)' = Opened(f, j)
    BY <1>1, <1>2, <1>3 DEF Opened
  <2>2. ASSUME NEW j \in Slot \ (g.seeded \cup g.beforeExposed)
        PROVE  Holds(g.before, g.beforeTaints, j, Opened(g, j)')
    <3>1. j \in Slot \ {k} /\ j \in Slot \ (f.seeded \cup f.beforeExposed)
      BY <1>1
    <3>2. Holds(f.before, f.beforeTaints, j, Opened(f, j))
      BY <3>1 DEF FrameOK, EntrySound
    <3> QED BY <1>1, <2>1, <3>1, <3>2
  <2> QED BY <2>2 DEF EntrySound
<1>5. OwnTaints(g)' /\ LastStored(g)' /\ OwnExposed(g, exposed)'
  <2>1. StoredSince(f.pos) \subseteq Slot
    BY FrameTypes, StoredSlots DEF Typed
  <2> QED BY <1>1, <1>2, <1>3, <2>1 DEF FrameOK, OwnTaints, LastStored, OwnExposed
<1>6. ASSUME InElse(g) PROVE ArmsSplit(g)' /\ ThenMarked(g)' /\ ThenSound(g)'
  <2>1. f \in IfFrame
    BY <1>1, <1>6, FrameTypes DEF InElse
  <2>2. /\ g.arm = f.arm /\ g.elsePos = f.elsePos /\ g.thenLive = f.thenLive
        /\ g.thenExposed = f.thenExposed /\ g.thenStored = f.thenStored
        /\ g.thenTaints = f.thenTaints /\ g.thenWrites = f.thenWrites
    BY <2>1 DEF IfFrame
  <2>3. ArmsSplit(f) /\ ThenMarked(f) /\ ThenSound(f)
    BY <1>1, <1>6, <2>2 DEF FrameOK, InElse
  <2>4. ArmsSplit(g)'
    BY <1>1, <1>3, <2>2, <2>3 DEF ArmsSplit, OwnExposed
  <2>5. ThenMarked(g)'
    BY <1>1, <1>2, <1>3, <2>2, <2>3 DEF ThenMarked
  <2>6. ThenSound(g)'
    BY <1>1, <1>2, <1>3, <2>2, <2>3 DEF ThenSound, Holds
  <2> QED BY <2>4, <2>5, <2>6
<1>7. ASSUME g.kind = "loop" PROVE ExitsSound(g)' /\ (~ g.branches => g.exits = {})
  <2>1. f \in LoopFrame
    BY <1>1, <1>7, FrameTypes
  <2>2. g.exits = f.exits /\ g.branches = f.branches
    BY <2>1 DEF LoopFrame
  <2> QED BY <1>1, <1>2, <1>3, <1>7, <2>2 DEF FrameOK, ExitsSound, Holds
<1> QED
  BY <1>1, <1>3, <1>4, <1>5, <1>6, <1>7 DEF FrameOK, InElse

(* Forgetting slots keeps it: nothing is claimed of a slot the map lost.   *)
LEMMA ForgetKeepsFrame ==
    ASSUME Typed, NEW f \in Frame, FrameOK(f), NEW hit \in SUBSET Slot,
           UNCHANGED <<log, taints, exposed>>,
           slots' = [k \in Slot |-> IF k \in hit THEN "missing" ELSE slots[k]]
    PROVE  FrameOK(f)'
<1>1. \A k \in Slot : slots'[k] = "missing" \/ slots'[k] = slots[k]
  OBVIOUS
<1>2. /\ \A pos, j : /\ StoredSince(pos)' = StoredSince(pos)
                     /\ FirstPrev(pos, j)' = FirstPrev(pos, j)
                     /\ LastNew(pos, j)' = LastNew(pos, j)
      /\ taints' = taints /\ log' = log /\ exposed' = exposed
  BY LogSame
<1>3. "missing" \notin Value
  BY SlotAssumption
<1>4. EntrySound(f)'
  <2>1. \A j \in Slot : Opened(f, j)' = "missing" \/ Opened(f, j)' = Opened(f, j)
    BY <1>1, <1>2 DEF Opened
  <2> QED BY <1>2, <1>3, <2>1 DEF FrameOK, EntrySound, Holds
<1>5. OwnTaints(f)' /\ LastStored(f)' /\ OwnExposed(f, exposed)'
  <2>1. StoredSince(f.pos) \subseteq Slot
    BY FrameTypes, StoredSlots DEF Typed
  <2> QED BY <1>1, <1>2, <2>1 DEF FrameOK, OwnTaints, LastStored, OwnExposed
<1>6. ASSUME InElse(f) PROVE ArmsSplit(f)' /\ ThenMarked(f)' /\ ThenSound(f)'
  <2>1. ArmsSplit(f) /\ ThenMarked(f) /\ ThenSound(f)
    BY <1>6 DEF FrameOK
  <2>2. ArmsSplit(f)'
    BY <1>2, <2>1 DEF ArmsSplit, OwnExposed
  <2>3. ThenMarked(f)'
    BY <1>1, <1>2, <2>1 DEF ThenMarked
  <2>4. ThenSound(f)'
    BY <1>1, <1>2, <1>3, <2>1 DEF ThenSound, Holds
  <2> QED BY <2>2, <2>3, <2>4
<1>7. ASSUME f.kind = "loop" PROVE ExitsSound(f)'
  BY <1>1, <1>2, <1>3, <1>7 DEF FrameOK, ExitsSound, Holds
<1> QED
  BY <1>2, <1>4, <1>5, <1>6, <1>7 DEF FrameOK, InElse

(* The end of an arm or of a construct keeps it for the constructs around: *)
(* it restamps only slots stored since it opened.                          *)
LEMMA StampKeepsFrame ==
    ASSUME Typed, NEW f \in Frame, FrameOK(f), NEW pos \in Nat,
           UNCHANGED <<log, slots>>, OwnExposed(f, exposed'),
           \A k \in Slot \ StoredSince(pos) : taints'[k] = taints[k],
           f.pos <= pos, InElse(f) => f.elsePos <= pos
    PROVE  FrameOK(f)'
<1>1. /\ \A p, j : /\ StoredSince(p)' = StoredSince(p)
                   /\ FirstPrev(p, j)' = FirstPrev(p, j)
                   /\ LastNew(p, j)' = LastNew(p, j)
      /\ slots' = slots /\ log' = log
  BY LogSame
<1>2. \A p \in Nat : p <= pos => StoredSince(pos) \subseteq StoredSince(p)
  BY DEF StoredSince, Since
<1>3. EntrySound(f)'
  <2>1. \A j \in Slot : Opened(f, j)' = Opened(f, j)
    BY <1>1 DEF Opened
  <2> QED BY <2>1 DEF FrameOK, EntrySound, Holds
<1>4. OwnTaints(f)'
  BY <1>1, <1>2, FrameTypes DEF FrameOK, OwnTaints
<1>5. LastStored(f)' /\ OwnExposed(f, exposed)'
  BY <1>1 DEF FrameOK, LastStored, OwnExposed
<1>6. ASSUME InElse(f) PROVE ArmsSplit(f)' /\ ThenMarked(f)' /\ ThenSound(f)'
  <2>1. ArmsSplit(f) /\ ThenMarked(f) /\ ThenSound(f) /\ f.elsePos \in Nat
    BY <1>6, FrameTypes DEF FrameOK, InElse, IfFrame
  <2>2. ArmsSplit(f)'
    BY <1>1, <2>1 DEF ArmsSplit, OwnExposed
  <2>3. ThenMarked(f)'
    BY <1>1, <1>2, <1>6, <2>1 DEF ThenMarked
  <2>4. ThenSound(f)'
    BY <1>1, <2>1 DEF ThenSound, Holds
  <2> QED BY <2>2, <2>3, <2>4
<1>7. ASSUME f.kind = "loop" PROVE ExitsSound(f)'
  BY <1>1, <1>7 DEF FrameOK, ExitsSound, Holds
<1> QED
  BY <1>1, <1>3, <1>4, <1>5, <1>6, <1>7 DEF FrameOK, InElse
-----------------------------------------------------------------------------
(* What every step's proof needs of the types.                             *)
LEMMA Opens ==
    ASSUME Typed
    PROVE  /\ Depth \in Nat
           /\ \A d \in 1 .. Depth : open[d] \in Frame
           /\ Depth = 0 <=> open = <<>>
           /\ Len(log) \in Nat
BY LenProperties, ElementOfSeq, EmptySeq DEF Typed, Depth

LEMMA NoLoopIf ==
    ASSUME Typed, NEW d \in 1 .. Depth, NoLoop(d)
    PROVE  open[d].kind = "if"
<1>1. d \in 1 .. d
  BY Opens
<1>2. open[d] \in Frame
  BY Opens
<1> QED BY <1>1, <1>2, FrameTypes DEF NoLoop

LEMMA NestedGrows ==
    ASSUME NEW f, NEW g, Nested(f, g), StoredSince(f.pos) \subseteq StoredSince(f.pos)'
    PROVE  Nested(f, g)'
BY DEF Nested, OwnExposed, InElse

(* The memories after the machine has written slot k. *)
LEMMA Writes ==
    ASSUME NEW ms \in SUBSET Memory, NEW k \in Slot, NEW x \in Value
    PROVE  /\ {With(m, k, x) : m \in ms} \subseteq Memory
           /\ \A m \in ms : With(m, k, x)[k] = x /\ \A j \in Slot \ {k} : With(m, k, x)[j] = m[j]
           /\ Full(ms) => Full({With(m, k, x) : m \in ms})
<1>1. \A m \in ms : /\ With(m, k, x) \in Memory /\ With(m, k, x)[k] = x
                    /\ \A j \in Slot \ {k} : With(m, k, x)[j] = m[j]
  BY DEF With, Memory
<1>2. x # "same"
  BY SlotAssumption
<1>3. Full(ms) => Full({With(m, k, x) : m \in ms})
  BY <1>1, <1>2 DEF Full
<1> QED BY <1>1, <1>3

LEMMA StoreStep ==
    ASSUME IInv, NEW k \in Slot, NEW v \in Abstract, NEW x \in Value, Store(k, v, x)
    PROVE  IInv'
<1> USE DEF IInv
<1>1. /\ slots' = With(slots, k, v) /\ taints' = With(taints, k, NoTaint) /\ defs' = Define(defs, k, v)
      /\ live' = {With(m, k, x) : m \in live} /\ exposed' = exposed \ {k} /\ open' = open
      /\ v # "unknown" => x = v
      /\ live # {}
  BY DEF Store, Reached
<1>2. /\ slots' \in [Slot -> Held] /\ slots'[k] = v /\ \A j \in Slot \ {k} : slots'[j] = slots[j]
      /\ taints' \in Taints /\ taints'[k] = NoTaint /\ \A j \in Slot \ {k} : taints'[j] = taints[j]
  BY <1>1 DEF Typed, With, Taints, Held, NoTaint
<1>3. defs' \in [Slot -> Seq(Abstract)] /\ \A j \in Slot \ {k} : defs'[j] = defs[j]
  BY <1>1 DEF Typed, Define, With
<1>4. v # "missing" /\ (v \in Value => x = v)
  BY <1>1, SlotAssumption DEF Abstract
<1>5. log' \in Seq(Entry) /\ LogIndexed' /\ \A d \in 1 .. Depth : FrameOK(open[d])'
      /\ \A c \in 1 .. Depth : StoredSince(open[c].pos) \subseteq StoredSince(open[c].pos)'
  <2>1. CASE open = <<>>
    <3>1. log' = <<>> /\ Depth = 0
      BY <2>1, Opens DEF Store
    <3> QED BY <3>1 DEF LogIndexed, StoredSince, Since
  <2>2. CASE open # <<>>
    <3> DEFINE e == [key |-> k, prev |-> slots[k], new |-> v]
    <3>1. log' = Append(log, e) /\ e \in Entry /\ e.key = k
      BY <2>2 DEF Store, Typed, Entry
    <3>2. /\ log' \in Seq(Entry) /\ LogIndexed'
          /\ \A pos \in 0 .. Len(log) : StoredSince(pos)' = StoredSince(pos) \cup {k}
      <4> HIDE DEF e
      <4> QED BY <3>1, LogAppend DEF Typed
    <3>3. ASSUME NEW d \in 1 .. Depth
          PROVE  FrameOK(open[d])' /\ open[d].pos \in 0 .. Len(log)
      <4>1. open[d] \in Frame /\ FrameOK(open[d])
        BY Opens DEF FramesOK
      <4>2. \A f \in Frame : FrameOK(f) => FrameOK(f)'
        BY <1>1, <3>1, StoreKeepsFrame
      <4>3. open[d].pos \in 0 .. Len(log)
        BY <4>1, Opens, FrameTypes DEF FrameOK
      <4> QED BY <1>1, <4>1, <4>2, <4>3
    <3> QED BY <1>1, <3>2, <3>3
  <2> QED BY <2>1, <2>2
<1>6. /\ live' \in SUBSET Memory
      /\ \A m \in live : With(m, k, x)[k] = x /\ \A j \in Slot \ {k} : With(m, k, x)[j] = m[j]
      /\ Full(live) => Full(live')
  <2>1. live \in SUBSET Memory
    BY DEF Typed
  <2>2. /\ {With(m, k, x) : m \in live} \subseteq Memory
        /\ \A m \in live : With(m, k, x)[k] = x /\ \A j \in Slot \ {k} : With(m, k, x)[j] = m[j]
        /\ Full(live) => Full({With(m, k, x) : m \in live})
    BY <2>1, Writes
  <2> QED BY <1>1, <2>2 DEF Full
<1>7. Typed'
  BY <1>1, <1>2, <1>3, <1>5, <1>6 DEF Typed
<1>8. NoLoneDef'
  BY <1>2, <1>3, <1>4 DEF NoLoneDef
<1>9. Sound'
  <2> SUFFICES ASSUME NEW j \in Slot \ exposed', slots'[j] \in Value, ~ Poison(taints', j, slots'[j]),
                      NEW m \in live
               PROVE  With(m, k, x)[j] \in {slots'[j], "same"}
    BY <1>1 DEF Sound, Holds, Fits
  <2>1. CASE j = k
    BY <1>2, <1>4, <1>6, <2>1
  <2>2. CASE j # k
    <3>1. With(m, k, x)[j] = m[j] /\ j \in Slot \ exposed
      BY <1>1, <1>6, <2>2
    <3> QED BY <1>2, <2>2, <3>1 DEF Sound, Holds, Fits, Poison
  <2> QED BY <2>1, <2>2
<1>10. FramesOK'
  <2>1. Depth' = Depth
    BY <1>1 DEF Depth
  <2>2. \A c, d \in 1 .. Depth : c < d => Nested(open[c], open[d])'
    <3>1. \A f, g : /\ Nested(f, g) /\ StoredSince(f.pos) \subseteq StoredSince(f.pos)'
                    => Nested(f, g)'
      BY NestedGrows
    <3> QED BY <1>1, <1>5, <3>1 DEF FramesOK
  <2>3. ~ (Depth > 0 /\ Inner.kind = "if" /\ Inner.ended)'
    BY <1>1, <2>1 DEF FramesOK, Inner
  <2> QED BY <1>5, <2>1, <2>2, <2>3 DEF FramesOK
<1>11. MarksOwned'
  <2>1. Depth' = Depth
    BY <1>1 DEF Depth
  <2>2. \A f : InElse(f)' = InElse(f)
    BY DEF InElse
  <2> QED BY <1>1, <1>2, <2>1 DEF MarksOwned, NoTaint, InElse
<1>12. Absolute'
  <2>1. Depth' = Depth /\ \A d : NoLoop(d)' = NoLoop(d)
    BY <1>1 DEF Depth, NoLoop
  <2> QED BY <1>1, <1>6, <2>1 DEF Absolute, Full
<1> QED BY <1>5, <1>7, <1>8, <1>9, <1>10, <1>11, <1>12
(* A construct that has noted one more slot. *)
LEMMA SeededFrame ==
    ASSUME NEW f \in Frame, NEW k \in Slot, NEW g, g = [f EXCEPT !.seeded = @ \cup {k}]
    PROVE  /\ g \in Frame /\ g.seeded = f.seeded \cup {k}
           /\ g.kind = f.kind /\ g.pos = f.pos /\ g.before = f.before /\ g.beforeExposed = f.beforeExposed
           /\ f.kind = "if" => /\ g.arm = f.arm /\ g.ended = f.ended /\ g.elsePos = f.elsePos
                               /\ g.thenLive = f.thenLive /\ g.thenWrites = f.thenWrites
<1>1. CASE f \in IfFrame
  <2>1. g.seeded \in SUBSET Slot
    BY <1>1 DEF IfFrame
  <2> QED BY <1>1, <2>1 DEF Frame, IfFrame
<1>2. CASE f \in LoopFrame
  <2>1. g.seeded \in SUBSET Slot
    BY <1>2 DEF LoopFrame
  <2> QED BY <1>2, <2>1 DEF Frame, LoopFrame
<1> QED BY <1>1, <1>2 DEF Frame

LEMMA SeedStep ==
    ASSUME IInv, NEW k \in Slot, NEW v \in Value, Seed(k, v)
    PROVE  IInv'
<1> USE DEF IInv
<1>1. /\ slots' = With(slots, k, v) /\ taints' = taints /\ defs' = defs /\ log' = log
      /\ live' = {With(m, k, v) : m \in live} /\ exposed' = exposed \ {k}
      /\ open' = [i \in 1 .. Depth |-> [open[i] EXCEPT !.seeded = @ \cup {k}]]
      /\ live # {}
  BY DEF Seed, Reached
<1>2. /\ slots' \in [Slot -> Held] /\ slots'[k] = v /\ \A j \in Slot \ {k} : slots'[j] = slots[j]
  BY <1>1 DEF Typed, With, Held, Abstract
<1>3. /\ v # "missing" /\ v # "same"
  BY SlotAssumption
<1>4. \A d \in 1 .. Depth : /\ open[d] \in Frame /\ FrameOK(open[d])
                            /\ open'[d] = [open[d] EXCEPT !.seeded = @ \cup {k}]
  BY <1>1, Opens DEF FramesOK
<1>5. ASSUME NEW d \in 1 .. Depth
      PROVE  /\ open'[d] \in Frame /\ open'[d].seeded = open[d].seeded \cup {k}
             /\ open'[d].kind = open[d].kind /\ open'[d].pos = open[d].pos
             /\ open'[d].before = open[d].before /\ open'[d].beforeExposed = open[d].beforeExposed
             /\ open[d].kind = "if" => /\ open'[d].arm = open[d].arm /\ open'[d].ended = open[d].ended
                                       /\ open'[d].elsePos = open[d].elsePos
                                       /\ open'[d].thenLive = open[d].thenLive
                                       /\ open'[d].thenWrites = open[d].thenWrites
  <2>1. PICK f \in Frame : f = open[d]
    BY <1>4
  <2>2. PICK g : g = [f EXCEPT !.seeded = @ \cup {k}]
    OBVIOUS
  <2>3. g = open'[d]
    BY <1>4, <2>1, <2>2
  <2>4. /\ g \in Frame /\ g.seeded = f.seeded \cup {k}
        /\ g.kind = f.kind /\ g.pos = f.pos /\ g.before = f.before /\ g.beforeExposed = f.beforeExposed
        /\ f.kind = "if" => /\ g.arm = f.arm /\ g.ended = f.ended /\ g.elsePos = f.elsePos
                            /\ g.thenLive = f.thenLive /\ g.thenWrites = f.thenWrites
    BY <2>2, SeededFrame
  <2> QED BY <2>1, <2>3, <2>4
<1>6. open' \in Seq(Frame) /\ Depth' = Depth
  <2>1. Depth \in Nat /\ open' \in [1 .. Depth -> Frame]
    BY <1>1, <1>5, Opens
  <2>2. open' \in Seq(Frame)
    BY <2>1, SeqDef
  <2>3. DOMAIN open' = 1 .. Len(open') /\ Len(open') \in Nat
    BY <2>2, LenProperties
  <2> QED BY <2>1, <2>2, <2>3 DEF Depth
<1>7. /\ live' \in SUBSET Memory
      /\ \A m \in live : With(m, k, v)[k] = v /\ \A j \in Slot \ {k} : With(m, k, v)[j] = m[j]
      /\ Full(live) => Full(live')
  <2>1. live \in SUBSET Memory
    BY DEF Typed
  <2>2. /\ {With(m, k, v) : m \in live} \subseteq Memory
        /\ \A m \in live : With(m, k, v)[k] = v /\ \A j \in Slot \ {k} : With(m, k, v)[j] = m[j]
        /\ Full(live) => Full({With(m, k, v) : m \in live})
    BY <2>1, Writes
  <2> QED BY <1>1, <2>2 DEF Full
<1>8. Typed'
  BY <1>1, <1>2, <1>6, <1>7 DEF Typed
<1>9. LogIndexed'
  BY <1>1, IndexSame
<1>10. NoLoneDef'
  BY <1>1, <1>2, <1>3 DEF NoLoneDef
<1>11. Sound'
  <2> SUFFICES ASSUME NEW j \in Slot \ exposed', slots'[j] \in Value, ~ Poison(taints', j, slots'[j]),
                      NEW m \in live
               PROVE  With(m, k, v)[j] \in {slots'[j], "same"}
    BY <1>1 DEF Sound, Holds, Fits
  <2>1. CASE j = k
    BY <1>2, <1>7, <2>1
  <2>2. CASE j # k
    <3>1. With(m, k, v)[j] = m[j] /\ j \in Slot \ exposed
      BY <1>1, <1>7, <2>2
    <3> QED BY <1>1, <1>2, <2>2, <3>1 DEF Sound, Holds, Fits, Poison
  <2> QED BY <2>1, <2>2
<1>12. FramesOK'
  <2>1. ASSUME NEW d \in 1 .. Depth PROVE FrameOK(open[d])'
    <3>1. \A f, g \in Frame : FrameOK(f) /\ g = [f EXCEPT !.seeded = @ \cup {k}] => FrameOK(g)'
      BY <1>1, SeedKeepsFrame
    <3> QED BY <1>4, <1>5, <3>1
  <2>2. ASSUME NEW c \in 1 .. Depth, NEW d \in 1 .. Depth, c < d PROVE Nested(open[c], open[d])'
    <3>1. Nested(open[c], open[d])
      BY <2>2 DEF FramesOK
    <3>2. \A pos : StoredSince(pos)' = StoredSince(pos)
      BY <1>1, LogSame
    <3>3. OwnExposed(open[c], open[d].beforeExposed)'
      BY <1>5, <3>1, <3>2 DEF Nested, OwnExposed
    <3> QED BY <1>5, <3>1, <3>3 DEF Nested, InElse
  <2>3. ~ (Depth > 0 /\ Inner.kind = "if" /\ Inner.ended)'
    BY <1>1, <1>5, <1>6, Opens DEF FramesOK, Inner
  <2> QED BY <1>6, <2>1, <2>2, <2>3 DEF FramesOK
<1>13. MarksOwned'
  <2> SUFFICES ASSUME NEW j \in Slot, taints[j].kind = "CrossArm"
               PROVE  \E d \in 1 .. Depth : InElse(open'[d]) /\ j \in open'[d].thenWrites
    BY <1>1, <1>6 DEF MarksOwned, InElse
  <2>1. PICK d \in 1 .. Depth : InElse(open[d]) /\ j \in open[d].thenWrites
    BY DEF MarksOwned
  <2> QED BY <1>5, <2>1 DEF InElse
<1>14. Absolute'
  <2>1. \A d \in 0 .. Depth : NoLoop(d)' <=> NoLoop(d)
    BY <1>5, Opens DEF NoLoop
  <2>2. Depth \in Nat
    BY Opens
  <2>3. \A d \in 1 .. Depth : NoLoop(d) => open[d].kind = "if"
    BY NoLoopIf
  <2>4. \A d \in 1 .. Depth : NoLoop(d - 1)' <=> NoLoop(d - 1)
    BY <2>1, <2>2
  <2>5. NoLoop(Depth)' => Full(live')
    BY <1>6, <1>7, <2>1, <2>2 DEF Absolute
  <2>6. \A d \in 1 .. Depth : NoLoop(d - 1)' => Full(open'[d].before)
    BY <1>5, <2>4 DEF Absolute
  <2>7. \A d \in 1 .. Depth : NoLoop(d)' => Full(open'[d].thenLive)
    BY <1>5, <2>1, <2>3 DEF Absolute
  <2> QED BY <1>6, <2>5, <2>6, <2>7 DEF Absolute, Full
<1> QED BY <1>8, <1>9, <1>10, <1>11, <1>12, <1>13, <1>14
(* A definition by an unknown value is not one a load could answer. *)
LEMMA UnknownSpoils ==
    ASSUME NEW d \in [Slot -> Seq(Abstract)], NEW k \in Slot
    PROVE  /\ Define(d, k, "unknown")[k] \in Seq(Abstract)
           /\ ~ (Len(Define(d, k, "unknown")[k]) = 1 /\ Define(d, k, "unknown")[k][1] \in Value)
<1>1. PICK s \in Seq(Abstract) : s = d[k]
  OBVIOUS
<1>2. PICK n \in Nat : n = Len(s)
  BY LenProperties
<1>3. "unknown" \in Abstract /\ "unknown" \notin Value
  BY SlotAssumption DEF Abstract
<1>4. CASE n < 2
  <2>1. Define(d, k, "unknown")[k] = Append(s, "unknown")
    BY <1>1, <1>2, <1>4 DEF Define, With
  <2>2. /\ Append(s, "unknown") \in Seq(Abstract) /\ Len(Append(s, "unknown")) = n + 1
        /\ Append(s, "unknown")[n + 1] = "unknown"
    BY <1>2, <1>3
  <2>3. n + 1 = 1 => Append(s, "unknown")[1] = "unknown"
    BY <2>2
  <2> QED BY <1>3, <2>1, <2>2, <2>3
<1>5. CASE n >= 2
  <2>1. Define(d, k, "unknown")[k] = s
    BY <1>1, <1>2, <1>5 DEF Define
  <2>2. n # 1
    BY <1>5
  <2>3. Len(s) # 1
    BY <1>2, <2>2
  <2> QED BY <2>1, <2>3
<1> QED BY <1>4, <1>5

LEMMA ForgetStep ==
    ASSUME IInv, NEW hit \in SUBSET Slot, NEW x \in Value, DynamicStore(hit, x)
    PROVE  IInv'
<1> USE DEF IInv
<1> DEFINE held == {k \in hit : slots[k] # "missing"}
<1>1. /\ slots' = [k \in Slot |-> IF k \in hit THEN "missing" ELSE slots[k]]
      /\ defs' = [k \in Slot |-> IF k \in held THEN Define(defs, k, "unknown")[k] ELSE defs[k]]
      /\ taints' = taints /\ log' = log /\ open' = open /\ exposed' = exposed
      /\ live' = live \cup {With(m, k, x) : m \in live, k \in hit}
      /\ live # {}
  BY DEF DynamicStore, Reached
<1>2. "missing" \notin Value /\ x # "same" /\ "unknown" \notin Value
  BY SlotAssumption
<1>3. slots' \in [Slot -> Held] /\ \A k \in Slot : slots'[k] = IF k \in hit THEN "missing" ELSE slots[k]
  BY <1>1 DEF Typed, Held
<1>4. ASSUME NEW k \in Slot
      PROVE  /\ defs'[k] \in Seq(Abstract)
             /\ k \notin held => defs'[k] = defs[k]
             /\ k \in held => ~ (Len(defs'[k]) = 1 /\ defs'[k][1] \in Value)
  <2>1. defs \in [Slot -> Seq(Abstract)]
    BY DEF Typed
  <2>2. /\ Define(defs, k, "unknown")[k] \in Seq(Abstract)
        /\ ~ (Len(Define(defs, k, "unknown")[k]) = 1 /\ Define(defs, k, "unknown")[k][1] \in Value)
    BY <2>1, UnknownSpoils
  <2> QED BY <1>1, <2>1, <2>2
<1>5. live' \in SUBSET Memory /\ (Full(live) => Full(live'))
      /\ \A m \in live' : m \in live \/ \E n \in live, k \in hit :
             m[k] = x /\ \A j \in Slot \ {k} : m[j] = n[j]
  <2>1. live \in SUBSET Memory
    BY DEF Typed
  <2>2. \A n \in live, k \in hit : /\ With(n, k, x) \in Memory /\ With(n, k, x)[k] = x
                                   /\ \A j \in Slot \ {k} : With(n, k, x)[j] = n[j]
    BY <2>1 DEF With, Memory
  <2> QED BY <1>1, <1>2, <2>1, <2>2 DEF Full
<1>6. Typed'
  <2>1. defs' \in [Slot -> Seq(Abstract)]
    BY <1>1, <1>4
  <2> QED BY <1>1, <1>3, <1>5, <2>1 DEF Typed
<1>7. LogIndexed'
  BY <1>1, IndexSame
<1>8. NoLoneDef'
  <2> SUFFICES ASSUME NEW k \in Slot, slots'[k] = "missing"
               PROVE  ~ (Len(defs'[k]) = 1 /\ defs'[k][1] \in Value)
    BY DEF NoLoneDef
  <2>1. CASE k \in held
    BY <1>4, <2>1
  <2>2. CASE k \notin held
    <3>1. slots[k] = "missing"
      BY <1>3, <2>2
    <3> QED BY <1>4, <2>2, <3>1 DEF NoLoneDef
  <2> QED BY <2>1, <2>2
<1>9. Sound'
  <2> SUFFICES ASSUME NEW j \in Slot \ exposed, slots'[j] \in Value, ~ Poison(taints, j, slots'[j]),
                      NEW m \in live'
               PROVE  m[j] \in {slots'[j], "same"}
    BY <1>1 DEF Sound, Holds, Fits, Poison
  <2>1. j \notin hit /\ slots'[j] = slots[j]
    BY <1>2, <1>3
  <2>2. \A n \in live : n[j] \in {slots[j], "same"}
    BY <2>1 DEF Sound, Holds, Fits
  <2> QED BY <1>5, <2>1, <2>2
<1>10. FramesOK'
  <2>1. Depth' = Depth
    BY <1>1 DEF Depth
  <2>2. ASSUME NEW d \in 1 .. Depth PROVE FrameOK(open[d])'
    <3>1. \A f \in Frame : FrameOK(f) => FrameOK(f)'
      BY <1>1, ForgetKeepsFrame
    <3>2. open[d] \in Frame /\ FrameOK(open[d])
      BY Opens DEF FramesOK
    <3> QED BY <1>1, <3>1, <3>2
  <2>3. \A c, d \in 1 .. Depth : c < d => Nested(open[c], open[d])'
    <3>1. \A f, g : Nested(f, g) => Nested(f, g)'
      BY <1>1, LogSame, NestedGrows
    <3> QED BY <1>1, <3>1 DEF FramesOK
  <2>4. ~ (Depth > 0 /\ Inner.kind = "if" /\ Inner.ended)'
    BY <1>1, <2>1 DEF FramesOK, Inner
  <2> QED BY <2>1, <2>2, <2>3, <2>4 DEF FramesOK
<1>11. MarksOwned'
  <2>1. Depth' = Depth
    BY <1>1 DEF Depth
  <2> QED BY <1>1, <2>1 DEF MarksOwned, InElse
<1>12. Absolute'
  <2>1. Depth' = Depth /\ \A d : NoLoop(d)' = NoLoop(d)
    BY <1>1 DEF Depth, NoLoop
  <2> QED BY <1>1, <1>5, <2>1 DEF Absolute, Full
<1> QED BY <1>6, <1>7, <1>8, <1>9, <1>10, <1>11, <1>12
-----------------------------------------------------------------------------
(* A construct opens: it knows of itself what holds here. *)
LEMMA FrameSame ==
    ASSUME NEW f, FrameOK(f), UNCHANGED <<slots, taints, log, exposed>>
    PROVE  FrameOK(f)'
<1>1. /\ \A p, j : /\ StoredSince(p)' = StoredSince(p)
                   /\ FirstPrev(p, j)' = FirstPrev(p, j)
                   /\ LastNew(p, j)' = LastNew(p, j)
      /\ slots' = slots /\ log' = log /\ taints' = taints /\ exposed' = exposed
  BY LogSame
<1>2. EntrySound(f)'
  <2>1. \A j \in Slot : Opened(f, j)' = Opened(f, j)
    BY <1>1 DEF Opened
  <2> QED BY <2>1 DEF FrameOK, EntrySound, Holds
<1>3. OwnTaints(f)' /\ LastStored(f)' /\ OwnExposed(f, exposed)'
  BY <1>1 DEF FrameOK, OwnTaints, LastStored, OwnExposed
<1>4. ASSUME InElse(f) PROVE ArmsSplit(f)' /\ ThenMarked(f)' /\ ThenSound(f)'
  BY <1>1, <1>4 DEF FrameOK, ArmsSplit, OwnExposed, ThenMarked, ThenSound, Holds
<1>5. ASSUME f.kind = "loop" PROVE ExitsSound(f)'
  BY <1>1, <1>5 DEF FrameOK, ExitsSound, Holds
<1> QED BY <1>1, <1>2, <1>3, <1>4, <1>5 DEF FrameOK, InElse

LEMMA Opening ==
    ASSUME IInv, live # {}, NEW f \in Frame, open' = Append(open, f),
           f.pos = Len(log), f.before = live, f.beforeTaints = taints, f.beforeExposed = exposed,
           f.seeded = {}, ~ InElse(f), f.kind = "if" => ~ f.ended /\ f.thenLive = {},
           f.kind = "loop" => f.exits = {},
           UNCHANGED <<slots, taints, log, exposed>>,
           f.kind = "if" => live' = live
    PROVE  open' \in Seq(Frame) /\ FramesOK' /\ MarksOwned' /\ Absolute'
<1> USE DEF IInv
<1>0. PICK N \in Nat : N = Depth
  BY Opens
<1>1. /\ Len(log) \in Nat /\ \A d \in 1 .. N : open[d] \in Frame
      /\ \A d \in 1 .. (N + 1) : d \in 1 .. N \/ d = N + 1
      /\ \A d \in 1 .. N : d \in 1 .. (N + 1)
      /\ N + 1 \in 1 .. (N + 1)
  BY <1>0, Opens
<1>2. /\ open' \in Seq(Frame) /\ Depth' = N + 1 /\ open'[N + 1] = f
      /\ \A d \in 1 .. N : open'[d] = open[d]
  <2>1. open \in Seq(Frame) /\ Len(open) \in Nat
    BY LenProperties DEF Typed
  <2> QED BY <1>0, <2>1 DEF Depth
<1>3. StoredSince(f.pos) = {}
  BY <1>1 DEF StoredSince, Since
<1>4. \A pos : StoredSince(pos)' = StoredSince(pos)
  BY LogSame
<1>5. FrameOK(f)
  <2>1. EntrySound(f)
    BY <1>3 DEF EntrySound, Opened, Sound
  <2>2. f.kind = "loop" => ExitsSound(f)
    BY DEF ExitsSound, Holds, Fits
  <2> QED BY <1>1, <1>3, <2>1, <2>2 DEF FrameOK, OwnTaints, LastStored, OwnExposed
<1>6. \A d \in 1 .. N : FrameOK(open[d]) /\ Nested(open[d], f)
  <2> SUFFICES ASSUME NEW d \in 1 .. N PROVE FrameOK(open[d]) /\ Nested(open[d], f)
    OBVIOUS
  <2>1. FrameOK(open[d])
    BY <1>0 DEF FramesOK
  <2>2. open[d].kind = "if" => ~ open[d].ended
    <3>1. CASE d = N
      BY <1>0, <3>1 DEF FramesOK, Inner
    <3>2. CASE d < N
      <4>1. N \in 1 .. N
        BY <3>2
      <4> QED BY <1>0, <3>2, <4>1 DEF FramesOK, Nested
    <3> QED BY <3>1, <3>2
  <2> QED BY <2>1, <2>2 DEF Nested, FrameOK, ArmsSplit
<1>7. FramesOK'
  <2>1. ASSUME NEW d \in 1 .. (N + 1) PROVE FrameOK(open[d])'
    <3>1. \A g : FrameOK(g) => FrameOK(g)'
      BY FrameSame
    <3>2. CASE d \in 1 .. N
      BY <1>2, <1>6, <3>1, <3>2
    <3>3. CASE d = N + 1
      BY <1>2, <1>5, <3>1, <3>3
    <3> QED BY <1>1, <3>2, <3>3
  <2>2. ASSUME NEW c \in 1 .. (N + 1), NEW d \in 1 .. (N + 1), c < d PROVE Nested(open[c], open[d])'
    <3>1. \A g, h : Nested(g, h) => Nested(g, h)'
      BY <1>4, NestedGrows
    <3>2. c \in 1 .. N
      BY <2>2
    <3>3. CASE d \in 1 .. N
      <4>1. Nested(open[c], open[d])
        BY <1>0, <2>2, <3>2, <3>3 DEF FramesOK
      <4> QED BY <1>2, <3>1, <3>2, <3>3, <4>1
    <3>4. CASE d = N + 1
      BY <1>2, <1>6, <3>1, <3>2, <3>4
    <3> QED BY <1>1, <3>3, <3>4
  <2>3. ~ (Inner.kind = "if" /\ Inner.ended)'
    BY <1>2 DEF Inner, InElse
  <2> QED BY <1>2, <2>1, <2>2, <2>3 DEF FramesOK
<1>8. MarksOwned'
  <2> SUFFICES ASSUME NEW k \in Slot, taints[k].kind = "CrossArm"
               PROVE  \E d \in 1 .. (N + 1) : InElse(open'[d]) /\ k \in open'[d].thenWrites
    BY <1>2 DEF MarksOwned, InElse
  <2>1. PICK d \in 1 .. N : InElse(open[d]) /\ k \in open[d].thenWrites
    BY <1>0 DEF MarksOwned
  <2> QED BY <1>1, <1>2, <2>1
<1>9. Absolute'
  <2>0. \A n : NoLoop(n)' <=> \A c \in 1 .. n : open'[c].kind # "loop"
    BY DEF NoLoop
  <2>1. ASSUME NEW d \in 0 .. N PROVE NoLoop(d)' <=> NoLoop(d)
    <3>1. \A c \in 1 .. d : c \in 1 .. N
      OBVIOUS
    <3> QED BY <1>2, <2>0, <3>1 DEF NoLoop
  <2>2. NoLoop(N + 1)' => NoLoop(N) /\ f.kind = "if"
    BY <1>1, <1>2, <2>0, FrameTypes DEF NoLoop
  <2>3. Full(live)' => Full(live')
    BY DEF Full
  <2>4. NoLoop(Depth)' => Full(live')
    BY <1>0, <1>2, <2>2 DEF Absolute
  <2>5. ASSUME NEW d \in 1 .. (N + 1), NoLoop(d - 1)' PROVE Full(open'[d].before)
    <3>1. NoLoop(d - 1)
      BY <2>1, <2>5
    <3>2. CASE d \in 1 .. N
      <4>1. Full(open[d].before)
        BY <1>0, <3>1, <3>2 DEF Absolute
      <4> QED BY <1>2, <3>2, <4>1
    <3>3. CASE d = N + 1
      <4>1. Full(live)
        BY <1>0, <3>1, <3>3 DEF Absolute
      <4> QED BY <1>2, <3>3, <4>1
    <3> QED BY <1>1, <3>2, <3>3
  <2>6. ASSUME NEW d \in 1 .. (N + 1), NoLoop(d)' PROVE Full(open'[d].thenLive)
    <3>1. CASE d \in 1 .. N
      <4>1. Full(open[d].thenLive)
        BY <1>0, <2>1, <2>6, <3>1 DEF Absolute
      <4> QED BY <1>2, <3>1, <4>1
    <3>2. CASE d = N + 1
      BY <1>2, <2>2, <2>6, <3>2 DEF Full
    <3> QED BY <1>1, <3>1, <3>2
  <2> QED BY <1>2, <2>4, <2>5, <2>6 DEF Absolute, Full
<1> QED BY <1>2, <1>7, <1>8, <1>9
LEMMA OpenIfStep ==
    ASSUME IInv, NEW stamps \in BOOLEAN, OpenIf(stamps)
    PROVE  IInv'
<1> USE DEF IInv
<1> DEFINE f == [kind |-> "if", stamps |-> stamps, arm |-> "then", pos |-> Len(log), ended |-> FALSE,
                 before |-> live, beforeTaints |-> taints, beforeExposed |-> exposed, seeded |-> {},
                 thenLive |-> {}, thenEnded |-> FALSE, thenExposed |-> {}, thenStored |-> {},
                 thenTaints |-> taints, thenWrites |-> {}, elsePos |-> 0]
<1>1. open' = Append(open, f) /\ UNCHANGED <<slots, taints, defs, log, live, exposed>> /\ live # {}
  BY DEF OpenIf, Reached
<1>2. f \in Frame
  <2>1. f \in IfFrame
    BY Opens DEF Typed, IfFrame
  <2> QED BY <2>1 DEF Frame
<1>3. open' \in Seq(Frame) /\ FramesOK' /\ MarksOwned' /\ Absolute'
  <2>1. /\ f.pos = Len(log) /\ f.before = live /\ f.beforeTaints = taints /\ f.beforeExposed = exposed
        /\ f.seeded = {} /\ ~ InElse(f) /\ f.kind = "if" /\ ~ f.ended /\ f.thenLive = {}
    BY DEF InElse
  <2> HIDE DEF f
  <2> QED BY <1>1, <1>2, <2>1, Opening
<1>4. Typed'
  BY <1>1, <1>3 DEF Typed
<1>5. LogIndexed'
  BY <1>1, IndexSame
<1>6. NoLoneDef' /\ Sound'
  BY <1>1 DEF NoLoneDef, Sound, Holds, Fits, Poison
<1> QED BY <1>3, <1>4, <1>5, <1>6

LEMMA OpenLoopStep ==
    ASSUME IInv, OpenLoop
    PROVE  IInv'
<1> USE DEF IInv
<1> DEFINE f == [kind |-> "loop", stamps |-> TRUE, pos |-> Len(log), before |-> live,
                 beforeTaints |-> taints, beforeExposed |-> exposed, seeded |-> {},
                 exits |-> {}, branches |-> FALSE]
<1>1. /\ open' = Append(open, f) /\ UNCHANGED <<slots, taints, defs, log, exposed>> /\ live # {}
      /\ live' = {[k \in Slot |-> "same"]}
  BY DEF OpenLoop, Reached
<1>2. f \in Frame
  <2>1. f \in LoopFrame
    BY Opens DEF Typed, LoopFrame
  <2> QED BY <2>1 DEF Frame
<1>3. open' \in Seq(Frame) /\ FramesOK' /\ MarksOwned' /\ Absolute'
  <2>1. /\ f.pos = Len(log) /\ f.before = live /\ f.beforeTaints = taints /\ f.beforeExposed = exposed
        /\ f.seeded = {} /\ ~ InElse(f) /\ f.kind = "loop" /\ f.exits = {}
    BY DEF InElse
  <2> HIDE DEF f
  <2> QED BY <1>1, <1>2, <2>1, Opening
<1>4. Typed'
  BY <1>1, <1>3 DEF Typed, Memory
<1>5. LogIndexed'
  BY <1>1, IndexSame
<1>6. NoLoneDef' /\ Sound'
  BY <1>1 DEF NoLoneDef, Sound, Holds, Fits
<1> QED BY <1>3, <1>4, <1>5, <1>6

-----------------------------------------------------------------------------
(* The innermost construct moves on: the others are as they were.          *)
Moves(N, f, g) ==
    /\ open' \in Seq(Frame) /\ Depth' = N /\ open'[N] = g
    /\ \A d \in 1 .. (N - 1) : open'[d] = open[d] /\ open[d] \in Frame /\ Nested(open[d], f)
    /\ \A c, d \in 1 .. N : c < d => Nested(open[c], open[d])'
    /\ \A d \in 0 .. N : NoLoop(d)' <=> NoLoop(d)
    /\ \A d \in 1 .. N : NoLoop(d - 1)' => Full(open'[d].before)

LEMMA Changing ==
    ASSUME Typed, FramesOK, Absolute, UNCHANGED log,
           NEW N \in Nat, N = Depth, N > 0, NEW f \in Frame, f = open[N],
           NEW g \in Frame, open' = [open EXCEPT ![N] = g],
           g.kind = f.kind, g.pos = f.pos, g.before = f.before, g.seeded = f.seeded,
           g.beforeExposed = f.beforeExposed
    PROVE  Moves(N, f, g)
<1>1. /\ open \in Seq(Frame) /\ Len(open) = N /\ N \in 1 .. N
      /\ \A d \in 1 .. N : d \in 1 .. (N - 1) \/ d = N
      /\ \A d \in 1 .. (N - 1) : d \in 1 .. N /\ d # N /\ d < N
  BY DEF Typed, Depth
<1>2. /\ open' \in Seq(Frame) /\ Depth' = N /\ open'[N] = g
      /\ \A d \in 1 .. (N - 1) : open'[d] = open[d]
  BY <1>1, ExceptSeq DEF Depth
<1>3. ASSUME NEW d \in 1 .. (N - 1) PROVE open[d] \in Frame /\ Nested(open[d], f)
  BY <1>1, Opens DEF FramesOK
<1>4. ASSUME NEW c \in 1 .. N, NEW d \in 1 .. N, c < d PROVE Nested(open[c], open[d])'
  <2>1. \A p : StoredSince(p)' = StoredSince(p)
    BY LogSame
  <2>2. \A h, i : Nested(h, i) => Nested(h, i)'
    BY <2>1, NestedGrows
  <2>3. c \in 1 .. (N - 1)
    BY <1>4
  <2>4. CASE d \in 1 .. (N - 1)
    <3>1. Nested(open[c], open[d])
      BY <1>1, <1>4, <2>3, <2>4 DEF FramesOK
    <3> QED BY <1>2, <2>2, <2>3, <2>4, <3>1
  <2>5. CASE d = N
    <3>1. Nested(open[c], g)
      BY <1>3, <2>3 DEF Nested, OwnExposed
    <3> QED BY <1>2, <2>2, <2>3, <2>5, <3>1
  <2> QED BY <1>1, <2>4, <2>5
<1>5. \A d \in 1 .. N : open'[d].kind = open[d].kind
  BY <1>1, <1>2
<1>6. ASSUME NEW d \in 0 .. N PROVE NoLoop(d)' <=> NoLoop(d)
  <2>1. \A c \in 1 .. d : c \in 1 .. N
    OBVIOUS
  <2> QED BY <1>5, <2>1 DEF NoLoop
<1>7. ASSUME NEW d \in 1 .. N, NoLoop(d - 1)' PROVE Full(open'[d].before)
  <2>1. NoLoop(d - 1)
    BY <1>6, <1>7
  <2>2. open'[d].before = open[d].before
    BY <1>1, <1>2
  <2> QED BY <2>1, <2>2 DEF Absolute
<1> QED BY <1>2, <1>3, <1>4, <1>6, <1>7 DEF Moves
(* No step of an open construct leaves a mark without its owner, or makes  *)
(* a memory relative, as long as the construct keeps these fields.         *)
LEMMA Kept ==
    ASSUME Typed, MarksOwned, Absolute, NEW N \in Nat, N = Depth, N > 0, Depth' = N,
           \A d \in 1 .. (N - 1) : open'[d] = open[d],
           \A d \in 0 .. N : NoLoop(d)' <=> NoLoop(d),
           open[N].kind = "if" => /\ open'[N].kind = "if" /\ open'[N].arm = open[N].arm
                                  /\ open'[N].thenLive = open[N].thenLive
                                  /\ open'[N].thenWrites = open[N].thenWrites
    PROVE  /\ taints' = taints => MarksOwned'
           /\ \A d \in 1 .. N : NoLoop(d)' => Full(open'[d].thenLive)
<1>1. N \in 1 .. N /\ \A d \in 1 .. N : d \in 1 .. (N - 1) \/ d = N
  OBVIOUS
<1>2. ASSUME taints' = taints PROVE MarksOwned'
  <2> SUFFICES ASSUME NEW k \in Slot, taints[k].kind = "CrossArm"
               PROVE  \E d \in 1 .. N : InElse(open'[d]) /\ k \in open'[d].thenWrites
    BY <1>2 DEF MarksOwned, InElse
  <2>1. PICK d \in 1 .. N : InElse(open[d]) /\ k \in open[d].thenWrites
    BY DEF MarksOwned
  <2>2. InElse(open'[d]) /\ k \in open'[d].thenWrites
    BY <1>1, <2>1 DEF InElse
  <2> QED BY <2>2
<1>3. ASSUME NEW d \in 1 .. N, NoLoop(d)' PROVE Full(open'[d].thenLive)
  <2>1. NoLoop(d) /\ Full(open[d].thenLive) /\ open[d].kind = "if"
    BY <1>3, NoLoopIf DEF Absolute
  <2>2. open'[d].thenLive = open[d].thenLive
    BY <1>1, <2>1
  <2> QED BY <2>1, <2>2
<1> QED BY <1>2, <1>3

LEMMA DivergeStep ==
    ASSUME IInv, NEW visible \in BOOLEAN, Diverge(visible)
    PROVE  IInv'
<1> USE DEF IInv
<1>0. PICK N \in Nat : N = Depth /\ N > 0
  BY Opens DEF Diverge
<1>1. PICK f \in IfFrame : f = open[N] /\ f = Inner /\ FrameOK(f)
  BY <1>0, Opens, FrameTypes DEF Diverge, Inner, FramesOK
<1>2. PICK g : g = [f EXCEPT !.ended = @ \/ visible]
  OBVIOUS
<1>3. /\ g \in IfFrame /\ g \in Frame /\ f \in Frame
      /\ g.kind = "if" /\ f.kind = "if" /\ g.pos = f.pos /\ g.before = f.before /\ g.seeded = f.seeded
      /\ g.beforeExposed = f.beforeExposed /\ g.beforeTaints = f.beforeTaints /\ g.arm = f.arm
      /\ g.elsePos = f.elsePos /\ g.thenLive = f.thenLive /\ g.thenExposed = f.thenExposed
      /\ g.thenStored = f.thenStored /\ g.thenTaints = f.thenTaints /\ g.thenWrites = f.thenWrites
  BY <1>2 DEF Frame, IfFrame
<1>4. /\ open' = [open EXCEPT ![N] = g] /\ live' = {}
      /\ UNCHANGED <<slots, taints, defs, log, exposed>>
  BY <1>0, <1>1, <1>2 DEF Diverge
<1>5. /\ open' \in Seq(Frame) /\ Depth' = N /\ open'[N] = g
      /\ \A d \in 1 .. (N - 1) : open'[d] = open[d] /\ open[d] \in Frame /\ Nested(open[d], f)
      /\ \A c, d \in 1 .. N : c < d => Nested(open[c], open[d])'
      /\ \A d \in 0 .. N : NoLoop(d)' <=> NoLoop(d)
      /\ \A d \in 1 .. N : NoLoop(d - 1)' => Full(open'[d].before)
  <2>1. UNCHANGED log /\ f \in Frame /\ f = open[N] /\ Typed /\ FramesOK /\ Absolute
    BY <1>1, <1>3, <1>4
  <2>2. /\ g \in Frame /\ open' = [open EXCEPT ![N] = g]
        /\ g.kind = f.kind /\ g.pos = f.pos /\ g.before = f.before /\ g.seeded = f.seeded
        /\ g.beforeExposed = f.beforeExposed
    BY <1>3, <1>4
  <2>3. Moves(N, f, g)
    BY <1>0, <2>1, <2>2, Changing
  <2> QED BY <2>3 DEF Moves
<1>6. FrameOK(g)
  <2>1. EntrySound(g) /\ OwnTaints(g) /\ LastStored(g) /\ OwnExposed(g, exposed)
    BY <1>1, <1>3 DEF FrameOK, EntrySound, Opened, OwnTaints, LastStored, OwnExposed
  <2>2. InElse(g) => ArmsSplit(g) /\ ThenMarked(g) /\ ThenSound(g)
    BY <1>1, <1>3 DEF FrameOK, InElse, ArmsSplit, OwnExposed, ThenMarked, ThenSound
  <2> QED BY <1>1, <1>3, <2>1, <2>2 DEF FrameOK
<1>7. FramesOK'
  <2>1. ASSUME NEW d \in 1 .. N PROVE FrameOK(open[d])'
    <3>1. \A h : FrameOK(h) => FrameOK(h)'
      BY <1>4, FrameSame
    <3>2. CASE d = N
      BY <1>5, <1>6, <3>1, <3>2
    <3>3. CASE d # N
      <4>1. d \in 1 .. (N - 1)
        BY <3>3
      <4> QED BY <1>0, <1>5, <3>1, <4>1 DEF FramesOK
    <3> QED BY <3>2, <3>3
  <2> QED BY <1>4, <1>5, <2>1 DEF FramesOK
<1>8. MarksOwned' /\ \A d \in 1 .. N : NoLoop(d)' => Full(open'[d].thenLive)
  <2>1. /\ Typed /\ MarksOwned /\ Absolute /\ N = Depth /\ N > 0 /\ Depth' = N /\ taints' = taints
        /\ \A d \in 1 .. (N - 1) : open'[d] = open[d]
        /\ \A d \in 0 .. N : NoLoop(d)' <=> NoLoop(d)
    BY <1>0, <1>4, <1>5
  <2>2. /\ open'[N].kind = "if" /\ open'[N].arm = open[N].arm
        /\ open'[N].thenLive = open[N].thenLive /\ open'[N].thenWrites = open[N].thenWrites
    BY <1>1, <1>3, <1>5
  <2> QED BY <2>1, <2>2, Kept
<1>9. Absolute'
  BY <1>4, <1>5, <1>8 DEF Absolute, Full
<1>10. Typed'
  BY <1>4, <1>5 DEF Typed
<1>11. LogIndexed'
  BY <1>4, IndexSame
<1>12. NoLoneDef' /\ Sound'
  BY <1>4 DEF NoLoneDef, Sound, Holds, Fits
<1> QED BY <1>7, <1>8, <1>9, <1>10, <1>11, <1>12

LEMMA BreakStep ==
    ASSUME IInv, Break
    PROVE  IInv'
<1> USE DEF IInv
<1>0. PICK N \in Nat : N = Depth /\ N > 0
  BY Opens DEF Break
<1>1. PICK f \in LoopFrame : f = open[N] /\ f = Inner /\ FrameOK(f)
  BY <1>0, Opens, FrameTypes DEF Break, Inner, FramesOK
<1>2. PICK g : g = [f EXCEPT !.exits = @ \cup live, !.branches = TRUE]
  OBVIOUS
<1>3. /\ g \in LoopFrame /\ g \in Frame /\ f \in Frame
      /\ g.kind = "loop" /\ f.kind = "loop" /\ g.pos = f.pos /\ g.before = f.before /\ g.seeded = f.seeded
      /\ g.beforeExposed = f.beforeExposed /\ g.beforeTaints = f.beforeTaints
      /\ g.exits = f.exits \cup live /\ g.branches
  <2>1. f.exits \cup live \in SUBSET Memory
    BY DEF Typed, LoopFrame
  <2> QED BY <1>2, <2>1 DEF Frame, LoopFrame
<1>4. /\ open' = [open EXCEPT ![N] = g]
      /\ UNCHANGED <<slots, taints, defs, log, live, exposed>>
  BY <1>0, <1>1, <1>2 DEF Break
<1>5. /\ open' \in Seq(Frame) /\ Depth' = N /\ open'[N] = g
      /\ \A d \in 1 .. (N - 1) : open'[d] = open[d] /\ open[d] \in Frame /\ Nested(open[d], f)
      /\ \A c, d \in 1 .. N : c < d => Nested(open[c], open[d])'
      /\ \A d \in 0 .. N : NoLoop(d)' <=> NoLoop(d)
      /\ \A d \in 1 .. N : NoLoop(d - 1)' => Full(open'[d].before)
  <2>1. UNCHANGED log /\ f \in Frame /\ f = open[N] /\ Typed /\ FramesOK /\ Absolute
    BY <1>1, <1>3, <1>4
  <2>2. /\ g \in Frame /\ open' = [open EXCEPT ![N] = g]
        /\ g.kind = f.kind /\ g.pos = f.pos /\ g.before = f.before /\ g.seeded = f.seeded
        /\ g.beforeExposed = f.beforeExposed
    BY <1>3, <1>4
  <2>3. Moves(N, f, g)
    BY <1>0, <2>1, <2>2, Changing
  <2> QED BY <2>3 DEF Moves
<1>6. FrameOK(g)
  <2>1. EntrySound(g) /\ OwnTaints(g) /\ LastStored(g) /\ OwnExposed(g, exposed)
    BY <1>1, <1>3 DEF FrameOK, EntrySound, Opened, OwnTaints, LastStored, OwnExposed
  <2>2. ExitsSound(g)
    <3> SUFFICES ASSUME NEW k \in Slot \ (StoredSince(f.pos) \cup f.seeded \cup f.beforeExposed),
                        slots[k] \in Value, ~ Poison(f.beforeTaints, k, slots[k])
                 PROVE  Fits(f.exits \cup live, k, slots[k])
      BY <1>3 DEF ExitsSound, Holds
    <3>1. k \notin exposed /\ taints[k] = f.beforeTaints[k]
      BY <1>1 DEF FrameOK, OwnTaints, OwnExposed
    <3>2. Fits(live, k, slots[k])
      BY <3>1 DEF Sound, Holds, Poison
    <3>3. Fits(f.exits, k, slots[k])
      BY <1>1, <1>3 DEF FrameOK, ExitsSound, Holds
    <3> QED BY <3>2, <3>3 DEF Fits
  <2>3. ~ InElse(g)
    BY <1>3 DEF InElse
  <2> QED BY <1>1, <1>3, <2>1, <2>2, <2>3 DEF FrameOK
<1>7. FramesOK'
  <2>1. ASSUME NEW d \in 1 .. N PROVE FrameOK(open[d])'
    <3>1. \A h : FrameOK(h) => FrameOK(h)'
      BY <1>4, FrameSame
    <3>2. CASE d = N
      BY <1>5, <1>6, <3>1, <3>2
    <3>3. CASE d # N
      <4>1. d \in 1 .. (N - 1)
        BY <3>3
      <4> QED BY <1>0, <1>5, <3>1, <4>1 DEF FramesOK
    <3> QED BY <3>2, <3>3
  <2>2. ~ (Inner.kind = "if")'
    BY <1>3, <1>5 DEF Inner
  <2> QED BY <1>5, <2>1, <2>2 DEF FramesOK
<1>8. MarksOwned' /\ \A d \in 1 .. N : NoLoop(d)' => Full(open'[d].thenLive)
  BY <1>0, <1>1, <1>3, <1>4, <1>5, Kept
<1>9. Absolute'
  <2>1. N \in 0 .. N
    OBVIOUS
  <2> QED BY <1>0, <1>4, <1>5, <1>8, <2>1 DEF Absolute, Full
<1>10. Typed'
  BY <1>4, <1>5 DEF Typed
<1>11. LogIndexed'
  BY <1>4, IndexSame
<1>12. NoLoneDef' /\ Sound'
  BY <1>4 DEF NoLoneDef, Sound, Holds, Fits, Poison
<1> QED BY <1>7, <1>8, <1>9, <1>10, <1>11, <1>12
-----------------------------------------------------------------------------
(* What the log tells of a slot is a value of the map. *)
LEMMA LogTyped ==
    ASSUME Typed, LogIndexed, NEW pos \in 0 .. Len(log), NEW k \in StoredSince(pos)
    PROVE  k \in Slot /\ FirstPrev(pos, k) \in Held /\ LastNew(pos, k) \in Abstract
<1>1. pos \in Nat /\ k \in Slot /\ log \in Seq(Entry)
  BY StoredSlots DEF Typed
<1>2. PICK j : FirstIs(pos, k, j)
  BY DEF LogIndexed
<1>3. PICK l : LastIs(pos, k, l)
  BY DEF LogIndexed
<1>4. FirstPrev(pos, k) = log[j].prev /\ LastNew(pos, k) = log[l].new
  BY <1>1, <1>2, <1>3, ReadsLog DEF LogReads
<1>5. j \in 1 .. Len(log) /\ l \in 1 .. Len(log)
  BY <1>1, <1>2, <1>3, Opens DEF FirstIs, LastIs, Since
<1>6. log[j] \in Entry /\ log[l] \in Entry
  BY <1>1, <1>5, ElementOfSeq
<1> QED BY <1>1, <1>4, <1>6 DEF Entry

(* The stamps at the end of an arm or of a loop body. *)
LEMMA Stamped ==
    ASSUME Typed, LogIndexed, NEW pos \in 0 .. Len(log), NEW w \in SUBSET StoredSince(pos),
           NEW c \in {"CrossArm", "LoopVariant"},
           taints' = [k \in Slot |-> IF k \in w THEN Taint(c, LastNew(pos, k)) ELSE taints[k]]
    PROVE  /\ taints' \in Taints
           /\ \A k \in w : taints'[k].kind = c /\ taints'[k].val = LastNew(pos, k)
           /\ \A k \in Slot \ w : taints'[k] = taints[k]
<1>1. ASSUME NEW k \in w
      PROVE  /\ k \in Slot /\ taints'[k].kind = c /\ taints'[k].val = LastNew(pos, k)
             /\ taints'[k] \in [kind : {"none", "CrossArm", "Conditional", "DeadThen", "LoopVariant"}, val : Held]
  <2>1. k \in Slot /\ LastNew(pos, k) \in Held
    BY LogTyped DEF Held
  <2>2. taints'[k] = [kind |-> c, val |-> LastNew(pos, k)]
    BY <2>1 DEF Taint
  <2> QED BY <2>1, <2>2
<1>2. ASSUME NEW k \in Slot \ w
      PROVE  /\ taints'[k] = taints[k]
             /\ taints[k] \in [kind : {"none", "CrossArm", "Conditional", "DeadThen", "LoopVariant"}, val : Held]
  BY DEF Typed, Taints
<1>3. taints' \in Taints
  <2>1. \A k \in Slot : taints'[k] \in [kind : {"none", "CrossArm", "Conditional", "DeadThen", "LoopVariant"}, val : Held]
    BY <1>1, <1>2
  <2> QED BY <2>1 DEF Taints
<1>4. \A k \in w : taints'[k].kind = c /\ taints'[k].val = LastNew(pos, k)
  BY <1>1
<1>5. \A k \in Slot \ w : taints'[k] = taints[k]
  BY <1>2
<1> QED BY <1>3, <1>4, <1>5

(* The end of an arm or of construct f, seen from a construct around it.   *)
LEMMA AroundKeeps ==
    ASSUME Typed, NEW c \in Frame, FrameOK(c), NEW f \in Frame, Nested(c, f), UNCHANGED <<log, slots>>,
           exposed' \subseteq f.beforeExposed \cup StoredSince(f.pos) \cup f.seeded,
           \A k \in Slot \ StoredSince(f.pos) : taints'[k] = taints[k]
    PROVE  FrameOK(c)'
<1>1. f.pos \in Nat /\ c.pos \in Nat /\ c.pos <= f.pos /\ (InElse(c) => c.elsePos <= f.pos)
  BY FrameTypes DEF Nested
<1>2. StoredSince(f.pos) \subseteq StoredSince(c.pos)
  BY <1>1 DEF StoredSince, Since
<1>3. OwnExposed(c, exposed')
  BY <1>2 DEF Nested, OwnExposed
<1> QED BY <1>1, <1>3, StampKeepsFrame

LEMMA ToElseStep ==
    ASSUME IInv, ToElse
    PROVE  IInv'
<1> USE DEF IInv
<1>0. PICK N \in Nat : N = Depth /\ N > 0
  BY Opens DEF ToElse
<1>1. PICK f \in IfFrame : f = open[N] /\ f = Inner /\ FrameOK(f) /\ f.arm = "then" /\ f.kind = "if"
  BY <1>0, Opens, FrameTypes DEF ToElse, Inner, FramesOK
<1> DEFINE writes == IF f.stamps THEN Changed(f.pos) ELSE {}
<1>2. PICK g : g = [f EXCEPT !.arm = "else", !.ended = FALSE, !.thenLive = live, !.thenEnded = f.ended,
                             !.thenExposed = exposed, !.thenStored = StoredSince(f.pos),
                             !.thenTaints = taints, !.thenWrites = writes, !.elsePos = Len(log)]
  OBVIOUS
<1>3. /\ f.pos \in 0 .. Len(log) /\ StoredSince(f.pos) \subseteq Slot /\ writes \subseteq StoredSince(f.pos)
      /\ f \in Frame
  <2>1. f.pos \in 0 .. Len(log)
    BY <1>1, Opens DEF FrameOK, IfFrame
  <2>2. StoredSince(f.pos) \subseteq Slot
    BY <2>1, StoredSlots DEF Typed
  <2> QED BY <2>1, <2>2 DEF Changed, Frame
<1>4. /\ g \in IfFrame /\ g \in Frame /\ g.kind = "if" /\ g.pos = f.pos /\ g.before = f.before
      /\ g.seeded = f.seeded /\ g.beforeExposed = f.beforeExposed /\ g.beforeTaints = f.beforeTaints
      /\ g.arm = "else" /\ g.ended = FALSE /\ g.thenLive = live /\ g.thenExposed = exposed
      /\ g.thenStored = StoredSince(f.pos) /\ g.thenTaints = taints /\ g.thenWrites = writes
      /\ g.elsePos = Len(log)
  <2>1. /\ live \in SUBSET Memory /\ exposed \in SUBSET Slot /\ taints \in Taints
        /\ StoredSince(f.pos) \in SUBSET Slot /\ writes \in SUBSET Slot /\ Len(log) \in Nat
    BY <1>3, Opens DEF Typed
  <2> HIDE DEF writes
  <2>2. g \in IfFrame
    BY <1>2, <2>1 DEF IfFrame
  <2>3. g \in Frame /\ g.kind = "if"
    BY <2>2 DEF IfFrame, Frame
  <2>4. /\ g.pos = f.pos /\ g.before = f.before /\ g.seeded = f.seeded
        /\ g.beforeExposed = f.beforeExposed /\ g.beforeTaints = f.beforeTaints
    BY <1>1, <1>2 DEF IfFrame
  <2>5. /\ g.arm = "else" /\ g.ended = FALSE /\ g.thenLive = live /\ g.thenExposed = exposed
        /\ g.thenStored = StoredSince(f.pos)
    BY <1>1, <1>2 DEF IfFrame
  <2>6. g.thenTaints = taints /\ g.thenWrites = writes /\ g.elsePos = Len(log)
    BY <1>1, <1>2 DEF IfFrame
  <2> QED BY <2>2, <2>3, <2>4, <2>5, <2>6
<1>5. /\ taints' = [k \in Slot |-> IF k \in writes THEN Taint("CrossArm", LastNew(f.pos, k)) ELSE taints[k]]
      /\ open' = [open EXCEPT ![N] = g] /\ live' = f.before
      /\ exposed' = f.beforeExposed \cup f.seeded \cup Cleared
                    \cup (IF f.stamps THEN {} ELSE StoredSince(f.pos))
      /\ slots' = slots /\ defs' = defs /\ log' = log
  BY <1>0, <1>1, <1>2 DEF ToElse
<1> HIDE DEF writes
<1>6. /\ taints' \in Taints
      /\ \A k \in writes : taints'[k].kind = "CrossArm" /\ taints'[k].val = LastNew(f.pos, k)
      /\ \A k \in Slot \ writes : taints'[k] = taints[k]
  <2>1. writes \in SUBSET StoredSince(f.pos)
    BY <1>3
  <2> QED BY <1>3, <1>5, <2>1, Stamped
<1>7. /\ open' \in Seq(Frame) /\ Depth' = N /\ open'[N] = g
      /\ \A d \in 1 .. (N - 1) : open'[d] = open[d] /\ open[d] \in Frame /\ Nested(open[d], f)
      /\ \A c, d \in 1 .. N : c < d => Nested(open[c], open[d])'
      /\ \A d \in 0 .. N : NoLoop(d)' <=> NoLoop(d)
      /\ \A d \in 1 .. N : NoLoop(d - 1)' => Full(open'[d].before)
  <2>1. UNCHANGED log /\ f \in Frame /\ f = open[N] /\ Typed /\ FramesOK /\ Absolute
    BY <1>1, <1>3, <1>5
  <2>2. /\ g \in Frame /\ open' = [open EXCEPT ![N] = g]
        /\ g.kind = f.kind /\ g.pos = f.pos /\ g.before = f.before /\ g.seeded = f.seeded
        /\ g.beforeExposed = f.beforeExposed
    BY <1>1, <1>4, <1>5
  <2>3. Moves(N, f, g)
    BY <1>0, <2>1, <2>2, Changing
  <2> QED BY <2>3 DEF Moves
<1>8. /\ \A p, j : /\ StoredSince(p)' = StoredSince(p)
                   /\ FirstPrev(p, j)' = FirstPrev(p, j)
                   /\ LastNew(p, j)' = LastNew(p, j)
      /\ \A k \in StoredSince(f.pos) : k \in Changed(f.pos) \/ k \in Restored(f.pos)
      /\ Cleared = {k \in Restored(f.pos) : f.beforeTaints[k].kind # "none"}
      /\ Restored(f.pos) \subseteq StoredSince(f.pos)
  BY <1>1, <1>5, LogSame DEF Changed, Restored, Cleared
<1>9. exposed' \subseteq f.beforeExposed \cup StoredSince(f.pos) \cup f.seeded /\ exposed' \subseteq Slot
  BY <1>1, <1>3, <1>5, <1>8, FrameTypes
<1>10. Sound'
  <2> SUFFICES ASSUME NEW k \in Slot \ exposed', slots[k] \in Value, ~ Poison(taints', k, slots[k])
               PROVE  Fits(f.before, k, slots[k])
    BY <1>5 DEF Sound, Holds, Fits, Poison
  <2>0. k \in Slot \ (f.seeded \cup f.beforeExposed)
    BY <1>5
  <2>1. Holds(f.before, f.beforeTaints, k, Opened(f, k))
    BY <1>1, <2>0 DEF FrameOK, EntrySound
  <2>2. CASE k \notin StoredSince(f.pos)
    <3>1. taints'[k] = f.beforeTaints[k] /\ Opened(f, k) = slots[k]
      BY <1>1, <1>3, <1>6, <2>2 DEF FrameOK, OwnTaints, Opened
    <3> QED BY <2>1, <3>1 DEF Holds, Poison
  <2>3. CASE k \in StoredSince(f.pos)
    <3>1. f.stamps /\ slots[k] = LastNew(f.pos, k)
      BY <1>1, <1>5, <2>0, <2>3, SlotAssumption DEF FrameOK, LastStored
    <3>2. k \in Restored(f.pos)
      BY <1>6, <1>8, <2>3, <3>1 DEF Poison, writes
    <3>3. f.beforeTaints[k].kind = "none" /\ Opened(f, k) = slots[k]
      BY <1>5, <1>8, <2>3, <3>1, <3>2 DEF Opened, Restored
    <3> QED BY <2>1, <3>3 DEF Holds, Poison
  <2> QED BY <2>2, <2>3
<1>11. FrameOK(g)'
  <2>1. EntrySound(g)'
    BY <1>1, <1>4, <1>5, <1>8 DEF FrameOK, EntrySound, Opened, Holds
  <2>2. OwnTaints(g)' /\ LastStored(g)' /\ OwnExposed(g, exposed)'
    BY <1>1, <1>3, <1>4, <1>5, <1>6, <1>8, <1>9 DEF FrameOK, OwnTaints, LastStored, OwnExposed
  <2>3. StoredSince(Len(log)) = {}
    BY Opens DEF StoredSince, Since
  <2>4. ArmsSplit(g)'
    BY <1>1, <1>3, <1>4, <1>5, <1>8, Opens DEF FrameOK, ArmsSplit, OwnExposed
  <2>5. ThenMarked(g)'
    <3>1. /\ slots' = slots /\ g.thenWrites = writes /\ g.thenTaints = taints /\ g.seeded = f.seeded
          /\ writes \subseteq StoredSince(f.pos)
          /\ \A k \in StoredSince(f.pos) \ f.seeded : slots[k] \in {"missing", LastNew(f.pos, k)}
      BY <1>1, <1>3, <1>4, <1>5 DEF FrameOK, LastStored
    <3>2. ASSUME NEW k \in writes
          PROVE  /\ taints'[k].kind = "CrossArm"
                 /\ k \notin g.seeded => slots'[k] \in {"missing", taints'[k].val}
      BY <1>6, <3>1
    <3>3. ASSUME NEW k \in Slot \ writes PROVE taints'[k] = g.thenTaints[k]
      BY <1>6, <3>1
    <3> HIDE DEF writes
    <3> QED BY <3>1, <3>2, <3>3 DEF ThenMarked
  <2>6. ThenSound(g)'
    BY <1>4, <1>5, <1>8, <2>3 DEF ThenSound, Sound, Holds
  <2> QED BY <1>3, <1>4, <1>5, <2>1, <2>2, <2>4, <2>5, <2>6 DEF FrameOK
<1>12. FramesOK'
  <2>1. ASSUME NEW d \in 1 .. N PROVE FrameOK(open[d])'
    <3>1. CASE d = N
      BY <1>7, <1>11, <3>1
    <3>2. CASE d # N
      <4>1. d \in 1 .. (N - 1) /\ d \in 1 .. Depth
        BY <1>0, <3>2
      <4>2. \A c \in Frame : FrameOK(c) /\ Nested(c, f) => FrameOK(c)'
        BY <1>3, <1>5, <1>6, <1>9, AroundKeeps
      <4> QED BY <1>7, <4>1, <4>2 DEF FramesOK
    <3> QED BY <3>1, <3>2
  <2> QED BY <1>4, <1>7, <2>1 DEF FramesOK, Inner
<1>13. MarksOwned'
  <2> SUFFICES ASSUME NEW k \in Slot, taints'[k].kind = "CrossArm"
               PROVE  \E d \in 1 .. N : InElse(open'[d]) /\ k \in open'[d].thenWrites
    BY <1>7 DEF MarksOwned, InElse
  <2>1. CASE k \in writes
    <3>1. N \in 1 .. N
      BY <1>0
    <3> QED BY <1>4, <1>7, <2>1, <3>1 DEF InElse
  <2>2. CASE k \notin writes
    <3>1. PICK d \in 1 .. N : InElse(open[d]) /\ k \in open[d].thenWrites
      BY <1>0, <1>6, <2>2 DEF MarksOwned
    <3>2. d # N
      BY <1>1, <3>1 DEF InElse
    <3>3. d \in 1 .. (N - 1)
      BY <3>2
    <3> QED BY <1>7, <3>1, <3>3
  <2> QED BY <2>1, <2>2
<1>14. Absolute'
  <2>1. N \in 0 .. N /\ N - 1 \in 0 .. N /\ N \in 1 .. N /\ \A d \in 1 .. N : d \in 1 .. (N - 1) \/ d = N
    BY <1>0
  <2>2. NoLoop(N) => NoLoop(N - 1)
    BY <1>0 DEF NoLoop
  <2>3. NoLoop(Depth)' => Full(live')
    BY <1>0, <1>1, <1>5, <1>7, <2>1, <2>2 DEF Absolute
  <2>4. ASSUME NEW d \in 1 .. N, NoLoop(d)' PROVE Full(open'[d].thenLive)
    BY <1>0, <1>4, <1>7, <2>1, <2>4 DEF Absolute
  <2> QED BY <1>7, <2>3, <2>4 DEF Absolute, Full
<1>15. Typed'
  <2>1. f.before \subseteq Memory
    BY <1>3, FrameTypes
  <2> QED BY <1>5, <1>6, <1>7, <1>9, <2>1 DEF Typed
<1>16. LogIndexed'
  BY <1>5, IndexSame
<1>17. NoLoneDef'
  BY <1>5 DEF NoLoneDef
<1> QED BY <1>10, <1>12, <1>13, <1>14, <1>15, <1>16, <1>17
-----------------------------------------------------------------------------
(* A construct closes: those around it had noted its recognised writes.    *)
Closes(N) ==
    /\ open' \in Seq(Frame) /\ Depth' = N - 1 /\ log' \in Seq(Entry) /\ LogIndexed'
    /\ \A d \in 1 .. (N - 1) : open'[d] = open[d]
    /\ FramesOK'
    /\ \A d \in 0 .. (N - 1) : NoLoop(d)' <=> NoLoop(d)
    /\ \A d \in 1 .. (N - 1) : NoLoop(d - 1)' => Full(open'[d].before)
    /\ \A d \in 1 .. (N - 1) : NoLoop(d)' => Full(open'[d].thenLive)

LEMMA SeededAlready ==
    ASSUME NEW c \in Frame, NEW s, s \subseteq c.seeded
    PROVE  [c EXCEPT !.seeded = @ \cup s] = c
<1>1. c.seeded \cup s = c.seeded
  OBVIOUS
<1>2. CASE c \in IfFrame
  BY <1>1, <1>2 DEF IfFrame
<1>3. CASE c \in LoopFrame
  BY <1>1, <1>3 DEF LoopFrame
<1> QED BY <1>2, <1>3 DEF Frame

LEMMA Closing ==
    ASSUME Typed, LogIndexed, FramesOK, Absolute, NEW N \in Nat, N = Depth, N > 0,
           NEW f \in Frame, f = open[N], Closed(Outer), UNCHANGED slots,
           exposed' \subseteq f.beforeExposed \cup StoredSince(f.pos) \cup f.seeded,
           \A k \in Slot \ StoredSince(f.pos) : taints'[k] = taints[k]
    PROVE  Closes(N)
<1> DEFINE o == SubSeq(open, 1, N - 1)
<1>1. /\ open \in Seq(Frame) /\ Len(open) = N /\ N \in 1 .. N /\ 1 \in Int /\ N - 1 \in Int
      /\ \A d \in 1 .. (N - 1) : d \in 1 .. N /\ d < N /\ 1 + d - 1 = d
      /\ (N - 1) - 1 + 1 = N - 1
  BY DEF Typed, Depth
<1>2. \A d \in 1 .. N : open[d] \in Frame
  BY Opens
<1>3. \A d \in 1 .. (N - 1) : open[d] \in Frame /\ FrameOK(open[d]) /\ Nested(open[d], f)
  BY <1>1, <1>2 DEF FramesOK
<1>4. o \in Seq(Frame) /\ Len(o) = N - 1 /\ \A d \in 1 .. (N - 1) : o[d] = open[d]
  <2>1. \A d \in 1 .. (N - 1) : open[d] \in Frame
    BY <1>3
  <2>2. /\ o \in Seq(Frame) /\ Len(o) = IF 1 <= N - 1 THEN (N - 1) - 1 + 1 ELSE 0
        /\ \A d \in 1 .. ((N - 1) - 1 + 1) : o[d] = open[1 + d - 1]
    BY <1>1, <2>1, SubSeqProperties
  <2>3. 1 <= N - 1 \/ N - 1 = 0
    OBVIOUS
  <2> HIDE DEF o
  <2> QED BY <1>1, <2>2, <2>3
<1>5. /\ open' = IF o = <<>> THEN <<>> ELSE [o EXCEPT ![Len(o)].seeded = @ \cup f.seeded]
      /\ log' = IF o = <<>> THEN <<>> ELSE log
  BY Zenon DEF Closed, Outer, Inner
<1> HIDE DEF o
<1>6. open' = o
  <2>1. CASE o = <<>>
    BY <1>5, <2>1
  <2>2. CASE o # <<>>
    <3>1. N - 1 \in 1 .. (N - 1)
      BY <1>4, <2>2, EmptySeq
    <3>2. f.seeded \subseteq o[N - 1].seeded /\ o[N - 1] \in Frame
      BY <1>3, <1>4, <3>1 DEF Nested
    <3>3. [o[N - 1] EXCEPT !.seeded = @ \cup f.seeded] = o[N - 1]
      BY <3>2, SeededAlready
    <3>4. open' = [o EXCEPT ![N - 1] = [o[N - 1] EXCEPT !.seeded = @ \cup f.seeded]]
      BY <1>4, <1>5, <2>2
    <3>5. open' = [o EXCEPT ![N - 1] = o[N - 1]]
      BY <3>3, <3>4
    <3> QED BY <1>4, <3>1, <3>5
  <2> QED BY <2>1, <2>2
<1>7. open' \in Seq(Frame) /\ Depth' = N - 1 /\ \A d \in 1 .. (N - 1) : open'[d] = open[d]
  BY <1>4, <1>6 DEF Depth
<1>8. log' \in Seq(Entry) /\ LogIndexed' /\ (N > 1 => log' = log)
  <2>1. CASE N = 1
    <3>1. log' = <<>>
      BY <1>4, <1>5, <2>1, EmptySeq
    <3> QED BY <2>1, <3>1 DEF LogIndexed, StoredSince, Since
  <2>2. CASE N # 1
    <3>1. log' = log
      BY <1>4, <1>5, <2>2
    <3> QED BY <3>1, IndexSame DEF Typed
  <2> QED BY <2>1, <2>2
<1>9. FramesOK'
  <2>1. CASE N = 1
    BY <1>7, <2>1 DEF FramesOK
  <2>2. CASE N # 1
    <3>0. log' = log /\ N - 1 \in 1 .. (N - 1)
      BY <1>8, <2>2
    <3>1. ASSUME NEW d \in 1 .. (N - 1) PROVE FrameOK(open[d])'
      <4>1. \A c \in Frame : FrameOK(c) /\ Nested(c, f) => FrameOK(c)'
        BY <3>0, AroundKeeps
      <4> QED BY <1>3, <1>7, <4>1
    <3>2. ASSUME NEW c \in 1 .. (N - 1), NEW d \in 1 .. (N - 1), c < d PROVE Nested(open[c], open[d])'
      <4>1. \A g, h : Nested(g, h) => Nested(g, h)'
        BY <3>0, LogSame, NestedGrows
      <4>2. Nested(open[c], open[d])
        BY <1>1, <3>2 DEF FramesOK
      <4> QED BY <1>7, <4>1, <4>2
    <3>3. ~ (Inner.kind = "if" /\ Inner.ended)'
      BY <1>3, <1>7, <3>0 DEF Inner, Nested
    <3> QED BY <1>7, <3>1, <3>2, <3>3 DEF FramesOK
  <2> QED BY <2>1, <2>2
<1>10. ASSUME NEW d \in 0 .. (N - 1) PROVE NoLoop(d)' <=> NoLoop(d)
  <2>1. \A c \in 1 .. d : c \in 1 .. (N - 1)
    OBVIOUS
  <2> QED BY <1>7, <2>1 DEF NoLoop
<1>11. ASSUME NEW d \in 1 .. (N - 1)
       PROVE  (NoLoop(d - 1)' => Full(open'[d].before)) /\ (NoLoop(d)' => Full(open'[d].thenLive))
  <2>1. d \in 0 .. (N - 1) /\ d - 1 \in 0 .. (N - 1)
    OBVIOUS
  <2> QED BY <1>1, <1>7, <1>10, <2>1 DEF Absolute
<1> QED BY <1>7, <1>8, <1>9, <1>10, <1>11 DEF Closes
-----------------------------------------------------------------------------
LEMMA EndIfStep ==
    ASSUME IInv, EndIf
    PROVE  IInv'
<1> USE DEF IInv
<1>0. PICK N \in Nat : N = Depth /\ N > 0
  BY Opens DEF EndIf
<1>1. PICK f \in IfFrame : f = open[N] /\ f = Inner /\ FrameOK(f) /\ f.arm = "else" /\ f.kind = "if"
  BY <1>0, Opens, FrameTypes DEF EndIf, Inner, FramesOK
<1>2. /\ ArmsSplit(f) /\ ThenMarked(f) /\ ThenSound(f) /\ OwnExposed(f, exposed) /\ OwnExposed(f, f.thenExposed)
      /\ f.pos \in Nat /\ f.elsePos \in Nat /\ f.pos <= f.elsePos
      /\ f.ended => live = {}
      /\ f \in Frame
  BY <1>0, <1>1 DEF FrameOK, InElse, IfFrame, Frame, ArmsSplit, FramesOK
<1>3. /\ taints' = [k \in Slot |-> Reclassified(k)]
      /\ live' = f.thenLive \cup live
      /\ exposed' = (IF f.thenLive = {} THEN {} ELSE f.thenExposed)
                    \cup (IF live = {} THEN {} ELSE exposed) \cup Gaps
      /\ Closed(Outer) /\ slots' = slots /\ defs' = defs
  BY <1>1 DEF EndIf
<1>4. Gaps = f.seeded \cup (IF f.thenLive # {} THEN StoredSince(f.elsePos) ELSE {})
             \cup (IF f.ended THEN {k \in f.thenWrites : f.thenTaints[k].kind # "none"} ELSE {})
  BY <1>1 DEF Gaps
<1>5. ASSUME NEW k \in Slot
      PROVE  /\ taints'[k] \in [kind : {"none", "CrossArm", "Conditional", "DeadThen", "LoopVariant"}, val : Held]
             /\ k \notin f.thenWrites \/ taints[k].kind # "CrossArm" => taints'[k] = taints[k]
             /\ k \in f.thenWrites /\ taints[k].kind = "CrossArm" =>
                    /\ taints'[k].kind # "CrossArm"
                    /\ ~ f.ended => taints'[k].val = taints[k].val /\ taints'[k].kind # "none"
  <2>1. PICK t \in [kind : {"none", "CrossArm", "Conditional", "DeadThen", "LoopVariant"}, val : Held] : t = taints[k]
    BY DEF Typed, Taints
  <2>2. taints'[k] = IF k \notin f.thenWrites \/ t.kind # "CrossArm" THEN t
                     ELSE IF f.ended THEN NoTaint
                     ELSE [t EXCEPT !.kind = IF f.thenEnded THEN "DeadThen" ELSE "Conditional"]
    BY <1>1, <1>3, <2>1 DEF Reclassified
  <2>3. NoTaint \in [kind : {"none", "CrossArm", "Conditional", "DeadThen", "LoopVariant"}, val : Held]
        /\ NoTaint.kind = "none"
    BY DEF NoTaint, Held
  <2>4. PICK c \in {"DeadThen", "Conditional"} : c = IF f.thenEnded THEN "DeadThen" ELSE "Conditional"
    OBVIOUS
  <2>5. /\ [t EXCEPT !.kind = c] \in [kind : {"none", "CrossArm", "Conditional", "DeadThen", "LoopVariant"}, val : Held]
        /\ [t EXCEPT !.kind = c].kind = c /\ [t EXCEPT !.kind = c].val = t.val
    OBVIOUS
  <2> QED BY <2>1, <2>2, <2>3, <2>4, <2>5
<1>6. taints' \in Taints
  BY <1>3, <1>5 DEF Taints
<1>7. StoredSince(f.elsePos) \subseteq StoredSince(f.pos) /\ f.thenWrites \subseteq StoredSince(f.pos)
  BY <1>2 DEF StoredSince, Since, ArmsSplit
<1>8. exposed' \subseteq f.beforeExposed \cup StoredSince(f.pos) \cup f.seeded
  BY <1>2, <1>3, <1>4, <1>7 DEF OwnExposed
<1>9. Closes(N)
  <2>1. \A k \in Slot \ StoredSince(f.pos) : taints'[k] = taints[k]
    BY <1>5, <1>7
  <2> QED BY <1>0, <1>1, <1>2, <1>3, <1>8, <2>1, Closing
<1>10. Sound'
  <2> SUFFICES ASSUME NEW k \in Slot \ exposed', slots[k] \in Value, ~ Poison(taints', k, slots[k]),
                      NEW m \in f.thenLive \cup live
               PROVE  m[k] \in {slots[k], "same"}
    BY <1>3 DEF Sound, Holds, Fits, Poison
  <2>1. CASE m \in f.thenLive
    <3>1. k \notin StoredSince(f.elsePos) \cup f.seeded \cup f.thenExposed
      BY <1>3, <1>4, <2>1
    <3>2. ~ Poison(f.thenTaints, k, slots[k])
      <4>1. CASE k \in f.thenWrites
        <5>1. taints[k].kind = "CrossArm" /\ slots[k] = taints[k].val
          BY <1>2, <3>1, <4>1, SlotAssumption DEF ThenMarked
        <5>2. f.ended
          BY <1>5, <4>1, <5>1 DEF Poison
        <5> QED BY <1>3, <1>4, <4>1, <5>2 DEF Poison
      <4>2. CASE k \notin f.thenWrites
        BY <1>2, <1>5, <3>1, <4>2 DEF ThenMarked, Poison
      <4> QED BY <4>1, <4>2
    <3> QED BY <1>2, <2>1, <3>1, <3>2 DEF ThenSound, Holds, Fits
  <2>2. CASE m \in live
    <3>1. k \notin exposed /\ ~ f.ended
      BY <1>2, <1>3, <2>2
    <3>2. ~ Poison(taints, k, slots[k])
      BY <1>5, <3>1 DEF Poison
    <3> QED BY <2>2, <3>1, <3>2 DEF Sound, Holds, Fits
  <2> QED BY <2>1, <2>2
<1>11. MarksOwned'
  <2> SUFFICES ASSUME NEW k \in Slot, taints'[k].kind = "CrossArm"
               PROVE  \E d \in 1 .. (N - 1) : InElse(open'[d]) /\ k \in open'[d].thenWrites
    BY <1>9 DEF MarksOwned, InElse, Closes
  <2>1. taints[k].kind = "CrossArm" /\ k \notin f.thenWrites
    BY <1>5
  <2>2. PICK d \in 1 .. N : InElse(open[d]) /\ k \in open[d].thenWrites
    BY <1>0, <2>1 DEF MarksOwned
  <2>3. d # N
    BY <1>1, <2>1, <2>2
  <2>4. d \in 1 .. (N - 1)
    BY <2>3
  <2> QED BY <1>9, <2>2, <2>4 DEF Closes
<1>12. Absolute'
  <2>1. N - 1 \in 0 .. (N - 1) /\ N \in 1 .. N /\ \A d \in 1 .. N : d \in 1 .. (N - 1) \/ d = N
    BY <1>0
  <2>2. NoLoop(N - 1) => NoLoop(N)
    BY <1>1, <2>1 DEF NoLoop
  <2>3. NoLoop(Depth)' => Full(live')
    BY <1>0, <1>1, <1>3, <1>9, <2>1, <2>2 DEF Absolute, Closes, Full
  <2> QED BY <1>9, <2>3 DEF Absolute, Closes, Full
<1>13. Typed'
  <2>1. f.thenLive \subseteq Memory /\ f.beforeExposed \subseteq Slot /\ f.seeded \subseteq Slot
        /\ StoredSince(f.pos) \subseteq Slot
    BY <1>2, StoredSlots DEF IfFrame, Typed
  <2> QED BY <1>3, <1>6, <1>8, <1>9, <2>1 DEF Typed, Closes
<1>14. NoLoneDef'
  BY <1>3 DEF NoLoneDef
<1> QED BY <1>9, <1>10, <1>11, <1>12, <1>13, <1>14 DEF Closes

(* An iteration, or a path out of the loop, after others: slot k still     *)
(* fits when it fits in each of them.                                      *)
LEMMA AfterFits ==
    ASSUME NEW m \in Memory, NEW e \in Memory, NEW k \in Slot
    PROVE  /\ After(m, e) \in Memory
           /\ After(m, e)[k] = IF e[k] = "same" THEN m[k] ELSE e[k]
BY DEF After, Memory

LEMMA IteratedFits ==
    ASSUME NEW ms \in SUBSET Memory
    PROVE  /\ Iterated(ms) \in SUBSET Memory
           /\ \A k \in Slot : \A u : Fits(ms, k, u) => Fits(Iterated(ms), k, u)
<1> DEFINE next(rs) == rs \cup {After(m, e) : m \in rs, e \in ms}
           start == {[k \in Slot |-> "same"]}
<1>1. Iterated(ms) = next(next(start))
  BY DEF Iterated
<1>2. start \in SUBSET Memory /\ \A k \in Slot : \A u : Fits(start, k, u)
  BY DEF Memory, Fits
<1>3. ASSUME NEW rs \in SUBSET Memory, \A k \in Slot : \A u : Fits(ms, k, u) => Fits(rs, k, u)
      PROVE  next(rs) \in SUBSET Memory /\ \A k \in Slot : \A u : Fits(ms, k, u) => Fits(next(rs), k, u)
  <2>1. \A m \in rs, e \in ms, k \in Slot : /\ After(m, e) \in Memory
                                            /\ After(m, e)[k] = IF e[k] = "same" THEN m[k] ELSE e[k]
    BY AfterFits
  <2>2. \A m \in rs, e \in ms : After(m, e) \in Memory
    BY DEF After, Memory
  <2>3. ASSUME NEW k \in Slot, NEW u, Fits(ms, k, u), NEW m \in next(rs)
        PROVE  m[k] \in {u, "same"}
    BY <1>3, <2>1, <2>3 DEF Fits
  <2> QED BY <2>2, <2>3 DEF Fits
<1> HIDE DEF next, start
<1>4. next(start) \in SUBSET Memory /\ \A k \in Slot : \A u : Fits(ms, k, u) => Fits(next(start), k, u)
  BY <1>2, <1>3
<1>5. next(next(start)) \in SUBSET Memory /\ \A k \in Slot : \A u : Fits(ms, k, u) => Fits(next(next(start)), k, u)
  BY <1>3, <1>4
<1> QED BY <1>1, <1>5

LEMMA EndLoopStep ==
    ASSUME IInv, EndLoop
    PROVE  IInv'
<1> USE DEF IInv
<1>0. PICK N \in Nat : N = Depth /\ N > 0
  BY Opens DEF EndLoop
<1>1. PICK f \in LoopFrame : f = open[N] /\ f = Inner /\ FrameOK(f) /\ f.kind = "loop"
  BY <1>0, Opens, FrameTypes DEF EndLoop, Inner, FramesOK
<1>2. /\ EntrySound(f) /\ OwnTaints(f) /\ LastStored(f) /\ OwnExposed(f, exposed)
      /\ ExitsSound(f) /\ (~ f.branches => f.exits = {})
      /\ f.pos \in 0 .. Len(log) /\ StoredSince(f.pos) \subseteq Slot /\ f \in Frame
      /\ f.before \in SUBSET Memory /\ f.exits \cup live \in SUBSET Memory /\ live \in SUBSET Memory
  <2>1. f.pos \in Nat /\ f.pos <= Len(log) /\ Len(log) \in Nat /\ f \in Frame
    BY <1>1, Opens DEF FrameOK, LoopFrame, Frame
  <2>2. StoredSince(f.pos) \subseteq Slot
    BY <2>1, StoredSlots DEF Typed
  <2>3. f.before \in SUBSET Memory /\ f.exits \cup live \in SUBSET Memory /\ live \in SUBSET Memory
    BY DEF LoopFrame, Typed
  <2> QED BY <1>1, <2>1, <2>2, <2>3 DEF FrameOK
<1>3. /\ taints' = [k \in Slot |-> IF k \in Changed(f.pos) THEN Taint("LoopVariant", LastNew(f.pos, k)) ELSE taints[k]]
      /\ exposed' = f.beforeExposed \cup f.seeded \cup exposed
                    \cup {k \in StoredSince(f.pos) \ Changed(f.pos) : f.branches \/ f.beforeTaints[k].kind # "none"}
      /\ live' = {After(After(m, i), e) : m \in f.before, i \in Iterated(live), e \in f.exits \cup live}
      /\ Closed(Outer) /\ slots' = slots /\ defs' = defs
  BY <1>1 DEF EndLoop
<1>4. /\ Changed(f.pos) \subseteq StoredSince(f.pos)
      /\ \A k \in StoredSince(f.pos) \ Changed(f.pos) : FirstPrev(f.pos, k) = LastNew(f.pos, k)
  BY DEF Changed
<1>5. /\ taints' \in Taints
      /\ \A k \in Changed(f.pos) : taints'[k].kind = "LoopVariant" /\ taints'[k].val = LastNew(f.pos, k)
      /\ \A k \in Slot \ Changed(f.pos) : taints'[k] = taints[k]
  <2>1. Changed(f.pos) \in SUBSET StoredSince(f.pos)
    BY <1>4
  <2> QED BY <1>2, <1>3, <2>1, Stamped
<1>6. exposed' \subseteq f.beforeExposed \cup StoredSince(f.pos) \cup f.seeded
  BY <1>2, <1>3 DEF OwnExposed
<1>7. Closes(N)
  <2>1. \A k \in Slot \ StoredSince(f.pos) : taints'[k] = taints[k]
    BY <1>4, <1>5
  <2> QED BY <1>0, <1>1, <1>2, <1>3, <1>6, <2>1, Closing
<1>8. /\ Iterated(live) \in SUBSET Memory
      /\ \A k \in Slot : \A u : Fits(live, k, u) => Fits(Iterated(live), k, u)
  BY <1>2, IteratedFits
<1>9. ASSUME NEW m \in f.before, NEW i \in Iterated(live), NEW e \in f.exits \cup live
      PROVE  /\ After(After(m, i), e) \in Memory
             /\ \A k \in Slot : After(After(m, i), e)[k] \in {m[k], i[k], e[k]}
                                /\ (m[k] # "same" => After(After(m, i), e)[k] # "same")
  <2>1. m \in Memory /\ i \in Memory /\ e \in Memory
    BY <1>2, <1>8
  <2>2. After(m, i) \in Memory
    BY <2>1 DEF After, Memory
  <2>3. After(After(m, i), e) \in Memory
    BY <2>1, <2>2 DEF After, Memory
  <2>4. \A k \in Slot : /\ After(m, i)[k] = IF i[k] = "same" THEN m[k] ELSE i[k]
                        /\ After(After(m, i), e)[k] = IF e[k] = "same" THEN After(m, i)[k] ELSE e[k]
    BY <2>1, <2>2, AfterFits
  <2> QED BY <2>3, <2>4
<1>10. Sound'
  <2> SUFFICES ASSUME NEW k \in Slot \ exposed', slots[k] \in Value, ~ Poison(taints', k, slots[k])
               PROVE  \A m \in f.before, i \in Iterated(live), e \in f.exits \cup live :
                          After(After(m, i), e)[k] \in {slots[k], "same"}
    BY <1>3 DEF Sound, Holds, Fits, Poison
  <2>0. k \notin f.beforeExposed \cup f.seeded \cup exposed /\ k \notin Changed(f.pos)
    <3>1. k \notin f.beforeExposed \cup f.seeded \cup exposed
      BY <1>3
    <3>2. ASSUME k \in Changed(f.pos) PROVE FALSE
      <4>1. slots[k] = LastNew(f.pos, k)
        BY <1>2, <1>4, <3>1, <3>2, SlotAssumption DEF LastStored
      <4> QED BY <1>5, <3>2, <4>1 DEF Poison
    <3> QED BY <3>1, <3>2
  <2>1. Fits(live, k, slots[k])
    BY <1>5, <2>0 DEF Sound, Holds, Poison
  <2>2. Fits(f.before, k, slots[k]) /\ Fits(f.exits, k, slots[k])
    <3>1. CASE k \notin StoredSince(f.pos)
      <4>1. ~ Poison(f.beforeTaints, k, slots[k]) /\ Opened(f, k) = slots[k]
        BY <1>2, <1>5, <2>0, <3>1 DEF OwnTaints, Poison, Opened
      <4> QED BY <1>2, <2>0, <3>1, <4>1 DEF EntrySound, ExitsSound, Holds
    <3>2. CASE k \in StoredSince(f.pos)
      <4>1. ~ f.branches /\ f.beforeTaints[k].kind = "none"
        BY <1>3, <2>0, <3>2
      <4>2. slots[k] = LastNew(f.pos, k) /\ Opened(f, k) = slots[k]
        BY <1>2, <1>4, <2>0, <3>2, SlotAssumption DEF LastStored, Opened
      <4> QED BY <1>2, <2>0, <4>1, <4>2 DEF EntrySound, Holds, Poison, Fits
    <3> QED BY <3>1, <3>2
  <2>3. Fits(Iterated(live), k, slots[k])
    BY <1>8, <2>1
  <2> QED BY <1>9, <2>1, <2>2, <2>3 DEF Fits
<1>11. MarksOwned'
  <2> SUFFICES ASSUME NEW k \in Slot, taints'[k].kind = "CrossArm"
               PROVE  \E d \in 1 .. (N - 1) : InElse(open'[d]) /\ k \in open'[d].thenWrites
    BY <1>7 DEF MarksOwned, InElse, Closes
  <2>1. taints[k].kind = "CrossArm"
    BY <1>5
  <2>2. PICK d \in 1 .. N : InElse(open[d]) /\ k \in open[d].thenWrites
    BY <1>0, <2>1 DEF MarksOwned
  <2>3. d # N
    BY <1>1, <2>2 DEF InElse
  <2>4. d \in 1 .. (N - 1)
    BY <2>3
  <2> QED BY <1>7, <2>2, <2>4 DEF Closes
<1>12. Absolute'
  <2>1. N - 1 \in 0 .. (N - 1) /\ N \in 1 .. N
    BY <1>0
  <2>2. NoLoop(N - 1) => Full(f.before)
    BY <1>0, <1>1, <2>1 DEF Absolute
  <2>3. Full(f.before) => Full(live')
    BY <1>3, <1>9 DEF Full
  <2>4. NoLoop(Depth)' => Full(live')
    BY <1>7, <2>1, <2>2, <2>3 DEF Closes
  <2> QED BY <1>7, <2>4 DEF Absolute, Closes, Full
<1>13. Typed'
  <2>1. f.beforeExposed \subseteq Slot /\ f.seeded \subseteq Slot /\ live' \in SUBSET Memory
    BY <1>2, <1>3, <1>9, FrameTypes
  <2> QED BY <1>2, <1>3, <1>5, <1>6, <1>7, <2>1 DEF Typed, Closes
<1>14. NoLoneDef'
  BY <1>3 DEF NoLoneDef
<1> QED BY <1>7, <1>10, <1>11, <1>12, <1>13, <1>14 DEF Closes
-----------------------------------------------------------------------------
LEMMA IInvInit == Init => IInv
<1> SUFFICES ASSUME Init PROVE IInv
  OBVIOUS
<1> DEFINE m0 == [k \in Slot |-> "entry"]
<1>1. /\ slots = [k \in Slot |-> "missing"] /\ taints = [k \in Slot |-> NoTaint] /\ defs = [k \in Slot |-> <<>>]
      /\ log = <<>> /\ open = <<>> /\ live = {m0} /\ exposed = {}
  BY DEF Init
<1>2. Depth = 0 /\ Len(log) = 0
  BY <1>1 DEF Depth
<1>3. m0 \in Memory /\ Full({m0})
  BY DEF Memory, Full
<1>4. Typed
  <2>1. taints \in Taints
    BY <1>1 DEF Taints, NoTaint, Held
  <2> QED BY <1>1, <1>3, <2>1 DEF Typed, Held
<1>5. LogIndexed
  <2>1. \A pos \in 0 .. Len(log) : StoredSince(pos) = {}
    BY <1>2 DEF StoredSince, Since
  <2> QED BY <2>1 DEF LogIndexed
<1>6. NoLoneDef /\ Sound
  BY <1>1, SlotAssumption DEF NoLoneDef, Sound, Holds
<1>7. FramesOK /\ Absolute
  BY <1>1, <1>2, <1>3 DEF FramesOK, Absolute
<1>8. MarksOwned
  BY <1>1 DEF MarksOwned, NoTaint
<1> QED BY <1>4, <1>5, <1>6, <1>7, <1>8 DEF IInv

LEMMA IInvStutter ==
    ASSUME IInv, UNCHANGED vars
    PROVE  IInv'
<1> USE DEF IInv
<1>1. /\ slots' = slots /\ taints' = taints /\ defs' = defs /\ log' = log
      /\ open' = open /\ live' = live /\ exposed' = exposed
  BY DEF vars
<1>2. Typed' /\ NoLoneDef' /\ Sound' /\ LogIndexed'
  BY <1>1, IndexSame DEF Typed, NoLoneDef, Sound, Holds, Poison, Fits
<1>3. Depth' = Depth
  BY <1>1 DEF Depth
<1>4. FramesOK'
  <2>1. \A f : FrameOK(f) => FrameOK(f)'
    BY <1>1, FrameSame
  <2>2. \A f, g : Nested(f, g) => Nested(f, g)'
    BY <1>1, LogSame, NestedGrows
  <2>3. Inner' = Inner
    BY <1>1, <1>3 DEF Inner
  <2> QED BY <1>1, <1>3, <2>1, <2>2, <2>3 DEF FramesOK
<1>5. MarksOwned' /\ Absolute'
  BY <1>1, <1>3 DEF MarksOwned, InElse, Absolute, NoLoop, Full
<1> QED BY <1>2, <1>4, <1>5

(* The invariant of the walk: store_frame_slot and the recognisers' writes,*)
(* invalidate_static_aliases, the arms and joins of lift_structured and    *)
(* the loops of lift_structured_loop all keep it.                          *)
THEOREM FrameInvInductive == Spec => []IInv
<1>1. ASSUME IInv, [Next]_vars PROVE IInv'
  <2>1. CASE \E k \in Slot, v \in Abstract, x \in Value : Store(k, v, x)
    BY <1>1, <2>1, StoreStep
  <2>2. CASE \E k \in Slot, v \in Value : Seed(k, v)
    BY <1>1, <2>2, SeedStep
  <2>3. CASE \E hit \in SUBSET Slot, x \in Value : DynamicStore(hit, x)
    BY <1>1, <2>3, ForgetStep
  <2>4. CASE \E stamps \in BOOLEAN : OpenIf(stamps)
    BY <1>1, <2>4, OpenIfStep
  <2>5. CASE ToElse
    BY <1>1, <2>5, ToElseStep
  <2>6. CASE EndIf
    BY <1>1, <2>6, EndIfStep
  <2>7. CASE \E visible \in BOOLEAN : Diverge(visible)
    BY <1>1, <2>7, DivergeStep
  <2>8. CASE OpenLoop
    BY <1>1, <2>8, OpenLoopStep
  <2>9. CASE Break
    BY <1>1, <2>9, BreakStep
  <2>10. CASE EndLoop
    BY <1>1, <2>10, EndLoopStep
  <2>11. CASE UNCHANGED vars
    BY <1>1, <2>11, IInvStutter
  <2> QED
    BY <1>1, <2>1, <2>2, <2>3, <2>4, <2>5, <2>6, <2>7, <2>8, <2>9, <2>10, <2>11 DEF Next
<1> QED BY IInvInit, <1>1, PTL DEF Spec

(* Outside loop bodies a generic load answers a value only when every path *)
(* that reaches it holds that value, the named gaps apart: for any number  *)
(* of slots and values, any body and any nesting.                          *)
THEOREM LoadsAreSound == Spec => []ReadSound
<1>1. ASSUME IInv PROVE ReadSound
  <2> SUFFICES ASSUME OutsideLoops, NEW k \in Slot \ exposed, Load(k) \in Value, NEW m \in live
               PROVE  m[k] = Load(k)
    BY DEF ReadSound
  <2>1. Full(live)
    BY <1>1 DEF IInv, Absolute, NoLoop, OutsideLoops
  <2>2. "unknown" \notin Value
    BY SlotAssumption
  <2>3. CASE slots[k] = "missing"
    BY <1>1, <2>2, <2>3 DEF IInv, NoLoneDef, Load
  <2>4. CASE slots[k] # "missing"
    <3>1. Load(k) = slots[k] /\ ~ Poison(taints, k, slots[k])
      BY <2>2, <2>4 DEF Load, Poisoned, Poison
    <3>2. m[k] \in {slots[k], "same"}
      BY <1>1, <3>1 DEF IInv, Sound, Holds, Fits
    <3> QED BY <2>1, <3>1, <3>2 DEF Full
  <2> QED BY <2>3, <2>4
<1> QED BY FrameInvInductive, <1>1, PTL

(* No CrossArm mark outlives the join it was stamped for, so none reaches  *)
(* the readers that only know the other kinds.                             *)
THEOREM MarksEndAtJoins == Spec => []CrossArmsEnd
<1>1. ASSUME IInv PROVE CrossArmsEnd
  <2> SUFFICES ASSUME open = <<>>, NEW k \in Slot PROVE taints[k].kind # "CrossArm"
    BY DEF CrossArmsEnd
  <2>1. Depth = 0
    BY DEF Depth
  <2> QED BY <1>1, <2>1 DEF IInv, MarksOwned
<1> QED BY FrameInvInductive, <1>1, PTL

(* A join leaves the taint of a slot neither arm wrote as it was before    *)
(* the `if': nested joins and loops inside the arms included.              *)
THEOREM JoinsAreLocal == Spec => JoinIsLocal
<1>1. ASSUME IInv, EndIf, NEW k \in Slot,
             k \notin Inner.thenStored \cup StoredSince(Inner.elsePos) \cup Inner.seeded
      PROVE  taints'[k] = Inner.beforeTaints[k]
  <2>1. PICK f \in IfFrame : f = Inner /\ FrameOK(f) /\ f.arm = "else" /\ f.kind = "if"
    <3>1. Typed /\ Depth > 0 /\ Inner.kind = "if" /\ Inner.arm = "else"
      BY <1>1 DEF EndIf, IInv
    <3>2. Depth \in 1 .. Depth /\ Inner \in Frame
      BY <3>1, Opens DEF Inner
    <3>3. FrameOK(Inner) /\ Inner \in IfFrame
      BY <1>1, <3>1, <3>2, FrameTypes DEF IInv, FramesOK, Inner
    <3> QED BY <3>1, <3>3
  <2>2. k \notin StoredSince(f.pos) /\ k \notin f.thenWrites /\ taints[k] = f.beforeTaints[k]
    BY <1>1, <2>1 DEF FrameOK, InElse, ArmsSplit, OwnTaints
  <2>3. taints'[k] = Reclassified(k)
    BY <1>1 DEF EndIf
  <2> QED BY <2>1, <2>2, <2>3 DEF Reclassified
<1>2. IInv => [EndIf => \A k \in Slot :
                  (k \notin Inner.thenStored \cup StoredSince(Inner.elsePos) \cup Inner.seeded)
                     => taints'[k] = Inner.beforeTaints[k]]_vars
  BY <1>1
<1> QED BY FrameInvInductive, <1>2, PTL DEF JoinIsLocal, Spec
=============================================================================
