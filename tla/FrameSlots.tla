----------------------------- MODULE FrameSlots -----------------------------
(***************************************************************************)
(* The lifter's view of the shadow-stack frame.  It walks the structured   *)
(* body once, both arms of an `if' and every loop body included, over ONE  *)
(* map from frame slot to abstract value; the machine takes one path.  The *)
(* taints stamped at the joins are to keep a read from answering a value   *)
(* that the path the machine took never produced.                          *)
(*                                                                         *)
(* A step is one construct of the body in the order the lifter meets it:   *)
(* a behaviour is a program and its lift.  `live' holds what the slots may *)
(* hold at this point, over every path that reaches it.  Conditions are    *)
(* opaque.  One inline depth; slots are apart (DkMemory has the overlaps); *)
(* promoted slots, whose reads are a mutable variable, are left out.       *)
(***************************************************************************)
EXTENDS Integers, Sequences

CONSTANTS
    Slot,       \* frame slots
    Value,      \* values that can be told apart
    MaxSize,    \* bound: constructs in the body
    MaxNest     \* bound: constructs open at once

ASSUME SlotAssumption ==
    MaxSize \in Nat /\ MaxNest \in Nat /\ {"unknown", "missing", "entry", "same"} \cap Value = {}

VARIABLES
    slots,      \* frame_slots: a value, "unknown" (StackVal::Unknown) or "missing"
    taints,     \* slot_taints: [kind, val], kind "none" when there is none
    defs,       \* slot_defs, of which only "exactly one" is ever asked: first two
    log,        \* slot_write_log, kept while a construct is open
    open,       \* the constructs being lifted, outermost first
    live,       \* the memories the machine may have here
    exposed,    \* history: slots whose taint a named gap has lost
    size        \* constructs so far

vars == <<slots, taints, defs, log, open, live, exposed, size>>

Abstract == Value \cup {"unknown"}
NoTaint == [kind |-> "none", val |-> "missing"]
Taint(kind, v) == [kind |-> kind, val |-> v]
With(f, k, v) == [f EXCEPT ![k] = v]

Depth == Len(open)
Inner == open[Depth]
OutsideLoops == \A d \in 1 .. Depth : open[d].kind # "loop"

(* The generic load of a static slot.  A taint poisons the read while the  *)
(* map still holds the very value it names; a slot the map lost reads its  *)
(* only definition, outside loops.                                         *)
Poisoned(k) == taints[k].kind # "none" /\ taints[k].val = slots[k]
Load(k) ==
    CASE slots[k] = "missing" -> IF OutsideLoops /\ Len(defs[k]) = 1 THEN defs[k][1] ELSE "unknown"
      [] Poisoned(k)          -> "unknown"
      [] OTHER                -> slots[k]

(* The stores since log position pos, slot by slot: what the slot held     *)
(* before the first and holds after the last.                              *)
Since(pos) == (pos + 1) .. Len(log)
StoredSince(pos) == {log[i].key : i \in Since(pos)}
FirstPrev(pos, k) ==
    LET i == CHOOSE j \in Since(pos) : log[j].key = k /\ \A n \in Since(pos) : log[n].key = k => j <= n
    IN  log[i].prev
LastNew(pos, k) ==
    LET i == CHOOSE j \in Since(pos) : log[j].key = k /\ \A n \in Since(pos) : log[n].key = k => n <= j
    IN  log[i].new
(* A slot left as it was found is a net no-op, and dropped. *)
Restored(pos) == {k \in StoredSince(pos) : FirstPrev(pos, k) = LastNew(pos, k)}
Changed(pos) == {k \in StoredSince(pos) : FirstPrev(pos, k) # LastNew(pos, k)}

-----------------------------------------------------------------------------
Init ==
    /\ slots = [k \in Slot |-> "missing"]
    /\ taints = [k \in Slot |-> NoTaint]
    /\ defs = [k \in Slot |-> <<>>]
    /\ log = <<>>
    /\ open = <<>>
    /\ live = {[k \in Slot |-> "entry"]}
    /\ exposed = {}
    /\ size = 0

Reached == live # {} /\ size < MaxSize /\ size' = size + 1
Define(d, k, v) == IF Len(d[k]) < 2 THEN With(d, k, Append(d[k], v)) ELSE d

(* store_frame_slot: a real store.  x is the machine's value when the      *)
(* lifter has not recovered it.                                            *)
Store(k, v, x) ==
    /\ Reached
    /\ v # "unknown" => x = v
    /\ log' = IF open = <<>> THEN <<>> ELSE Append(log, [key |-> k, prev |-> slots[k], new |-> v])
    /\ taints' = With(taints, k, NoTaint)
    /\ defs' = Define(defs, k, v)
    /\ slots' = With(slots, k, v)
    /\ live' = {With(m, k, x) : m \in live}
    /\ exposed' = exposed \ {k}
    /\ UNCHANGED open

(* A recogniser models a call that answers through memory: it writes the   *)
(* map alone, no log, no journal, no taint.                                *)
Seed(k, v) ==
    /\ Reached
    /\ slots' = With(slots, k, v)
    /\ live' = {With(m, k, v) : m \in live}
    /\ exposed' = exposed \ {k}
    /\ open' = [i \in 1 .. Depth |-> [open[i] EXCEPT !.seeded = @ \cup {k}]]
    /\ UNCHANGED <<taints, defs, log>>

(* A store through a loop-indexed address: invalidate_static_aliases       *)
(* forgets every slot it may hit and poisons their journal.                *)
DynamicStore(hit, x) ==
    /\ Reached
    /\ LET held == {k \in hit : slots[k] # "missing"}
       IN  /\ slots' = [k \in Slot |-> IF k \in hit THEN "missing" ELSE slots[k]]
           /\ defs' = [k \in Slot |-> IF k \in held THEN Define(defs, k, "unknown")[k] ELSE defs[k]]
    /\ live' = live \cup {With(m, k, x) : m \in live, k \in hit}
    /\ UNCHANGED <<taints, log, open, exposed>>

-----------------------------------------------------------------------------
(* An `if'.  Inside a loop body lift_structured_loop lifts it, and stamps  *)
(* nothing; everywhere else, in a plain block of a loop body too,          *)
(* lift_structured does, and stamps the join.                              *)
InLoopBody == Depth > 0 /\ (Inner.kind = "loop" \/ ~Inner.stamps)
OpenIf(stamps) ==
    /\ Reached /\ Depth < MaxNest
    /\ ~stamps => InLoopBody
    /\ open' = Append(open,
         [kind |-> "if", stamps |-> stamps, arm |-> "then", pos |-> Len(log), ended |-> FALSE,
          before |-> live, beforeTaints |-> taints, beforeExposed |-> exposed, seeded |-> {},
          thenLive |-> {}, thenEnded |-> FALSE, thenExposed |-> {}, thenStored |-> {},
          thenTaints |-> taints, thenWrites |-> {}, elsePos |-> 0])
    /\ UNCHANGED <<slots, taints, defs, log, live, exposed>>

(* The end of the then arm: what it changed is stamped CrossArm before the *)
(* else arm is lifted against the same map.                                *)
Cleared == {k \in Restored(Inner.pos) : Inner.beforeTaints[k].kind # "none"}
ToElse ==
    /\ Depth > 0 /\ Inner.kind = "if" /\ Inner.arm = "then"
    /\ LET writes == IF Inner.stamps THEN Changed(Inner.pos) ELSE {}
       IN  /\ taints' = [k \in Slot |->
                            IF k \in writes THEN Taint("CrossArm", LastNew(Inner.pos, k))
                            ELSE taints[k]]
           /\ open' = [open EXCEPT ![Depth] = [@ EXCEPT
                   !.arm = "else", !.ended = FALSE, !.thenLive = live, !.thenEnded = Inner.ended,
                   !.thenExposed = exposed, !.thenStored = StoredSince(Inner.pos),
                   !.thenTaints = taints, !.thenWrites = writes, !.elsePos = Len(log)]]
    /\ live' = Inner.before
    /\ exposed' = Inner.beforeExposed \cup Inner.seeded \cup Cleared
                  \cup (IF Inner.stamps THEN {} ELSE StoredSince(Inner.pos))
    /\ UNCHANGED <<slots, defs, log, size>>

(* The join.  A CrossArm stamp the else arm has not overwritten is dropped *)
(* when the else arm ended in a terminator, and kept under the class of    *)
(* the path it came from otherwise.                                        *)
Reclassified_ThenEnded(k) ==
    IF k \notin Inner.thenWrites \/ taints[k].kind # "CrossArm" THEN taints[k]
    ELSE IF Inner.thenEnded THEN NoTaint
    ELSE [taints[k] EXCEPT !.kind = "Conditional"]
Reclassified_Any(k) ==
    IF taints[k].kind # "CrossArm" THEN taints[k]
    ELSE IF Inner.ended THEN NoTaint
    ELSE [taints[k] EXCEPT !.kind = IF Inner.thenEnded THEN "DeadThen" ELSE "Conditional"]
Reclassified_DeadOnly(k) ==
    IF k \notin Inner.thenWrites \/ taints[k].kind # "CrossArm" THEN taints[k]
    ELSE IF Inner.ended THEN NoTaint
    ELSE IF Inner.thenEnded THEN [taints[k] EXCEPT !.kind = "DeadThen"] ELSE taints[k]
Reclassified(k) ==
    IF k \notin Inner.thenWrites \/ taints[k].kind # "CrossArm" THEN taints[k]
    ELSE IF Inner.ended THEN NoTaint
    ELSE [taints[k] EXCEPT !.kind = IF Inner.thenEnded THEN "DeadThen" ELSE "Conditional"]

(* What the stamps do not cover, named.  Between the arms (ToElse): what a *)
(* recogniser wrote, a tainted slot that a net no-op in the then arm has   *)
(* cleared, and every store of an `if' that stamps nothing.  At the join:  *)
(* what a recogniser wrote in either arm; what the else arm stored, when   *)
(* the then arm falls through; and a then value that was itself            *)
(* conditional, once the else arm's end has cleared it.                    *)
Gaps ==
    LET elseStored == StoredSince(Inner.elsePos)
        falls == Inner.thenLive # {}
    IN  Inner.seeded
        \cup (IF falls THEN elseStored ELSE {})
        \cup (IF Inner.ended
              THEN {k \in Inner.thenWrites : Inner.thenTaints[k].kind # "none"} ELSE {})

Closed(rest) ==
    /\ open' = IF rest = <<>> THEN <<>>
               ELSE [rest EXCEPT ![Len(rest)].seeded = @ \cup Inner.seeded]
    /\ log' = IF rest = <<>> THEN <<>> ELSE log
Outer == SubSeq(open, 1, Depth - 1)

EndIf ==
    /\ Depth > 0 /\ Inner.kind = "if" /\ Inner.arm = "else"
    /\ taints' = [k \in Slot |-> Reclassified(k)]
    /\ live' = Inner.thenLive \cup live
    /\ exposed' = (IF Inner.thenLive = {} THEN {} ELSE Inner.thenExposed)
                  \cup (IF live = {} THEN {} ELSE exposed) \cup Gaps
    /\ Closed(Outer)
    /\ UNCHANGED <<slots, defs, size>>

(* return or a trap in an arm: no path goes on.  Only some of them leave a *)
(* terminator statement, the only thing is_terminator_stmt can see.        *)
Diverge(visible) ==
    /\ Reached /\ Depth > 0 /\ Inner.kind = "if"
    /\ live' = {}
    /\ open' = [open EXCEPT ![Depth].ended = @ \/ visible]
    /\ UNCHANGED <<slots, taints, defs, log, exposed>>

-----------------------------------------------------------------------------
(* A loop body is lifted once; the machine may leave it early, or run it   *)
(* again.  Inside, `live' holds what one iteration has written so far.     *)
OpenLoop ==
    /\ Reached /\ Depth < MaxNest
    /\ open' = Append(open,
         [kind |-> "loop", stamps |-> TRUE, pos |-> Len(log), before |-> live,
          beforeTaints |-> taints, beforeExposed |-> exposed, seeded |-> {},
          exits |-> {}, branches |-> FALSE])
    /\ live' = {[k \in Slot |-> "same"]}
    /\ UNCHANGED <<slots, taints, defs, log, exposed>>

(* br_if out of the loop, at its top level. *)
Break ==
    /\ Reached /\ Depth > 0 /\ Inner.kind = "loop"
    /\ open' = [open EXCEPT ![Depth].exits = @ \cup live, ![Depth].branches = TRUE]
    /\ UNCHANGED <<slots, taints, defs, log, live, exposed>>

After(m, e) == [k \in Slot |-> IF e[k] = "same" THEN m[k] ELSE e[k]]
Iterated(rounds) ==
    LET next(ms) == ms \cup {After(m, e) : m \in ms, e \in rounds}
        start == {[k \in Slot |-> "same"]}
    IN  next(next(start))

(* taint_loop_variant_slots, after the body. *)
EndLoop ==
    /\ Depth > 0 /\ Inner.kind = "loop"
    /\ LET variant == Changed(Inner.pos)
           restored == StoredSince(Inner.pos) \ variant
       IN  /\ taints' = [k \in Slot |-> IF k \in variant
                                        THEN Taint("LoopVariant", LastNew(Inner.pos, k))
                                        ELSE taints[k]]
           /\ exposed' = Inner.beforeExposed \cup Inner.seeded \cup exposed
                         \cup {k \in restored : Inner.branches \/ Inner.beforeTaints[k].kind # "none"}
    /\ live' = {After(After(m, i), e) :
                   m \in Inner.before, i \in Iterated(live), e \in Inner.exits \cup live}
    /\ Closed(Outer)
    /\ UNCHANGED <<slots, defs, size>>

Next ==
    \/ \E k \in Slot, v \in Abstract, x \in Value : Store(k, v, x)
    \/ \E k \in Slot, v \in Value : Seed(k, v)
    \/ \E hit \in SUBSET Slot, x \in Value : DynamicStore(hit, x)
    \/ \E stamps \in BOOLEAN : OpenIf(stamps)
    \/ ToElse \/ EndIf
    \/ \E visible \in BOOLEAN : Diverge(visible)
    \/ OpenLoop \/ Break \/ EndLoop

Spec == Init /\ [][Next]_vars

-----------------------------------------------------------------------------
(* The sound-join read poison: outside loop bodies, a generic load answers *)
(* a value only if every path that reaches it holds that value, except for *)
(* slots that went through one of the named gaps.                          *)
ReadSound ==
    OutsideLoops =>
        \A k \in Slot \ exposed :
            Load(k) \in Value => \A m \in live : m[k] = Load(k)

(* CrossArm is a mark between two arms: none outlives its join. *)
CrossArmsEnd ==
    open = <<>> => \A k \in Slot : taints[k].kind # "CrossArm"

(* A join blames only its own arms: what a load answered before the `if'   *)
(* it still answers after it for a slot neither arm wrote.                 *)
JoinIsLocal ==
    [][EndIf => \A k \in Slot :
          (k \notin Inner.thenStored \cup StoredSince(Inner.elsePos) \cup Inner.seeded)
             => taints'[k] = Inner.beforeTaints[k]]_vars
=============================================================================
