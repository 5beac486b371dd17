--------------------------- MODULE DescriptorSeed ---------------------------
(***************************************************************************)
(* How try_fold_frame_descriptor_key fills the evaluator's memory.         *)
(*                                                                         *)
(* A storage key built in the caller's stack frame is recovered by running *)
(* its constructor on the frame "as the lift context knows it": the map    *)
(* `slots' from frame offset to abstract value, justified entry by entry   *)
(* by the ordered log of the stores the lifter modelled.  The map is       *)
(* written by more than those stores, and the machine by more than the     *)
(* lifter sees; the gate has to tell.  DESC_BASE is a translation the      *)
(* model drops: a descriptor byte keeps its frame offset.                  *)
(***************************************************************************)
EXTENDS DkMemory, Sequences

CONSTANTS
    DescBytes,  \* bytes of a descriptor row
    MaxLog,     \* bound: logged stores
    MaxUnlogged,\* bound: writes the log never sees
    CallerVal   \* the values callers store

ASSUME DescAssumption ==
    /\ DescBytes \in Nat \ {0} /\ MaxLog \in Nat /\ MaxUnlogged \in Nat
    /\ CallerVal \subseteq DkVal

VARIABLES
    slots,      \* frame_slots, of the descriptor's frame
    log,        \* slot_write_log, of the descriptor's frame
    folded,     \* the evaluator is seeded
    suspect,    \* history: offsets the machine may have written unseen
    unlogged    \* history: how many writes the log never saw

seedVars == <<cells, ram, slots, log, folded, suspect, unlogged>>

Row == 0 .. (DescBytes - 1)
Negative(v) == 2 * v.bytes[Word - 1] >= Radix

(* The bytes a store of v at width w may leave: an i32 constant stored as  *)
(* an i64 was zero- or sign-extended, which the lifter does not record.    *)
Extensions(v, w) ==
    IF v.kind = "i32" /\ w = DWord /\ Negative(v)
    THEN {[kind |-> "i64", bytes |-> [i \in 0 .. (DWord - 1) |->
              IF i < Word THEN v.bytes[i] ELSE fill]] : fill \in {0, Radix - 1}}
    ELSE {v}

Truncate(v) == [kind |-> "i32", bytes |-> [i \in 0 .. (Word - 1) |-> v.bytes[i]]]

(* The cell a justified slot becomes; the set is empty when it stays out.  *)
SeedVal(v, w) ==
    CASE v.kind = "sym" /\ w >= Word                      -> {v}
      [] v.kind = "i32" /\ w = Word                       -> {v}
      [] v.kind = "i64" /\ w = DWord                      -> {v}
      [] v.kind = "i32" /\ w = DWord /\ ~Negative(v)      -> {ZeroExtend(v)}
      [] v.kind = "i64" /\ w = Word                       -> {Truncate(v)}
      [] OTHER                                            -> {}

(* The reverse walk of the log stops once it has met as many row slots as  *)
(* the map holds at whole-i64 offsets.                                     *)
SeenAfter(i) == {log[j].off : j \in (i + 1) .. Len(log)} \cap Row
SlotTotal == Cardinality({k \in Row : k % DWord = 0 /\ k \in DOMAIN slots})
Walked(i) == Cardinality(SeenAfter(i)) < SlotTotal

(* A later logged store overlapped the slot from another offset. *)
Clobbered_Never(i) == FALSE
Clobbered(i) ==
    \E j \in (i + 1) .. Len(log) :
        log[j].off # log[i].off /\ ~Apart(log[j].off, log[j].width, log[i].off, log[i].width)

(* The provenance gate: the slot's value is its last entry in the log. *)
Justified_LogAlone(i) ==
    Walked(i) /\ log[i].off \in Row /\ log[i].off \notin SeenAfter(i) /\ ~Clobbered(i)
Justified(i) ==
    /\ Walked(i)
    /\ log[i].off \in Row /\ log[i].off \notin SeenAfter(i)
    /\ ~Clobbered(i)
    /\ log[i].off \in DOMAIN slots /\ slots[log[i].off] = log[i].new

Seeded ==
    LET picks == {i \in 1 .. Len(log) :
                     Justified(i) /\ SeedVal(log[i].new, log[i].width) # {}}
        cellOf(a) == LET i == CHOOSE j \in picks : log[j].off = a
                     IN  [val |-> CHOOSE v \in SeedVal(log[i].new, log[i].width) : TRUE,
                          width |-> log[i].width]
    IN  [a \in {log[i].off : i \in picks} |-> cellOf(a)]

-----------------------------------------------------------------------------
SeedInit ==
    /\ Init
    /\ slots = [a \in {} |-> 0]
    /\ log = <<>>
    /\ folded = FALSE
    /\ suspect = {}
    /\ unlogged = 0

SetSlot(a, v) == slots' = [b \in DOMAIN slots \cup {a} |-> IF b = a THEN v ELSE slots[b]]
Logged(a, v, w) == log' = Append(log, [off |-> a, new |-> v, width |-> w])
Caller == ~folded /\ UNCHANGED <<cells, folded>>
LoggedWrite(a, v, w) ==
    /\ Caller /\ Len(log) < MaxLog /\ InRange(a, w)
    /\ SetSlot(a, v) /\ Logged(a, v, w)
    /\ UNCHANGED unlogged
UnloggedWrite(a, v) ==
    /\ Caller /\ unlogged < MaxUnlogged /\ InRange(a, DWord)
    /\ ram' = WriteRam(ram, a, v, DWord)
    /\ suspect' = suspect \cup {b \in Addr \ {a} : ~Apart(b, DWord, a, DWord)}
    /\ unlogged' = unlogged + 1
    /\ UNCHANGED log

(* store_frame_slot for a store the machine makes on every path. *)
StoreFrameSlot(a, v, w) ==
    /\ LoggedWrite(a, v, w)
    /\ \E x \in Extensions(v, w) : ram' = WriteRam(ram, a, x, w)
    /\ suspect' = suspect \ {a}

(* The same store inside an `if' arm that falls through: the lifter runs   *)
(* the arm, the machine only when the condition holds.                     *)
StoreInArm(a, v, w) ==
    /\ LoggedWrite(a, v, w)
    /\ \/ ram' = ram
       \/ \E x \in Extensions(v, w) : ram' = WriteRam(ram, a, x, w)
    /\ suspect' = suspect \cup {a}

(* A recognised call answers through memory: its i64 result is put in the  *)
(* map and never in the log.                                               *)
RecognizerSeed(a, v) == UnloggedWrite(a, v) /\ SetSlot(a, v)

(* A store at base + coeff * term: invalidate_static_aliases forgets every *)
(* slot the term can reach; the term's value is the machine's.             *)
DynamicStore(base, coeff, term, v) ==
    LET reached == {b \in DOMAIN slots : b >= base /\ (b - base) % coeff = 0}
    IN  /\ UnloggedWrite(base + coeff * term, v)
        /\ slots' = [b \in DOMAIN slots \ reached |-> slots[b]]

(* The fold seeds a fresh evaluator, if any slot is justified.             *)
Fold ==
    /\ ~folded
    /\ \E i \in 1 .. Len(log) : Justified(i)
    /\ cells' = Seeded
    /\ folded' = TRUE
    /\ UNCHANGED <<ram, slots, log, suspect, unlogged>>

(* The evaluator is dropped with the fold and the caller's lifting goes on.*)
(* (The constructor's own stores are DkMemory's Next.)                     *)
Finish ==
    /\ folded
    /\ cells' = [a \in {} |-> 0]
    /\ folded' = FALSE
    /\ UNCHANGED <<ram, slots, log, suspect, unlogged>>

SeedNext ==
    \/ \E a \in Addr, v \in CallerVal, w \in {1, Word, DWord} :
           StoreFrameSlot(a, v, w) \/ StoreInArm(a, v, w)
    \/ \E a \in Addr, v \in SymVal : RecognizerSeed(a, v)
    \/ \E a \in Addr, term \in {0, 1}, v \in SymVal : DynamicStore(a, DWord, term, v)
    \/ Fold
    \/ Finish

SeedSpec == SeedInit /\ [][SeedNext]_seedVars

-----------------------------------------------------------------------------
(* The seeded memory is built without DkEval::store, so nothing has thrown *)
(* overlapping cells out: the clobber test over the log must have.         *)
SeededDisjoint == CellsDisjoint

(* A cell that differs from the machine is one an arm, a recognised call   *)
(* or a dynamic store touched without an unconditional logged store since: *)
(* the log walk misses no overlap among the stores it does see.            *)
SeededAgree ==
    \A a \in DOMAIN cells \ suspect : \A i \in 0 .. (cells[a].width - 1) :
        ram[a + i] = ByteAt(cells[a].val, i)
=============================================================================
