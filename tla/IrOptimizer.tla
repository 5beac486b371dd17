---------------------------- MODULE IrOptimizer -----------------------------
(* optimize_stmts on the values of a body: the passes of a round that fold, *)
(* drop, bind and name them, in their order, the rounds up to the fixpoint, *)
(* and the counted loops recovered behind it.  The passes between them that *)
(* only move control are in the module Optimizer.                           *)
EXTENDS IrNames

CONSTANTS
    Programs,       \* [body, valued: its last expression is the function's value, preserve]
    MaxIterations   \* rounds

ASSUME IrOptimizerAssumption == MaxIterations \in Nat \ {0}

VARIABLES
    source,         \* history: the program as it was lifted
    body, stage,
    before,         \* the body at the start of this round
    iteration,      \* rounds begun
    converged
vars == <<source, body, stage, before, iteration, converged>>

Order == <<"constants", "conditions", "matches", "has get", "orphan has", "lets", "has get again", "leading",
           "lost lengths", "lost loads", "lengths", "gets", "orphans", "new", "duplicates", "invokes", "tags",
           "leading again", "counters", "selfs", "unbound", "names", "shadows", "self assigns", "round over">>
After == [s \in ToSet(Front(Order)) |-> Order[SelectInSeq(Order, LAMBDA x : x = s) + 1]]

Init == /\ source \in Programs
        /\ body = source.body /\ before = source.body
        /\ stage = Order[1] /\ iteration = 1 /\ converged = FALSE

Pass(s, new) ==
    /\ stage = s
    /\ body' = new
    /\ stage' = After[s]
    /\ UNCHANGED <<source, before, iteration, converged>>

RemoveLeadingPanic(t) == IF Len(t) > 1 /\ RaisesFirst(t) THEN Tail(t) ELSE t

Fold ==
    \/ Pass("constants", FoldConstants(body))
    \/ Pass("conditions", FoldConditions(body))
    \/ Pass("matches", FoldConstantMatches(body))
    \/ Pass("has get", FoldHasGetPattern(body))
    \/ Pass("orphan has", RemoveOrphanHasBeforeGet(body))

Clean ==
    \/ Pass("lets", RemoveRedundantLets(body))
    \/ Pass("has get again", FoldHasGetPattern(body))
    \/ Pass("leading", RemoveLeadingPanic(body))
    \/ Pass("lost lengths", RecoverDiscardedLen(body))
    \/ Pass("lost loads", RecoverDiscardedStorageGet(body))
    \/ Pass("lengths", RemoveSpuriousLen(body))
    \/ Pass("gets", RemoveSpuriousGet(body))
    \/ Pass("orphans", IF source.preserve THEN body ELSE DropOrphans(body))
    \/ Pass("new", RemoveStandaloneNew(body))
    \/ Pass("duplicates", DropDuplicates(body))
    \/ Pass("invokes", RecoverInvokeReturnTypes(body))
    \/ Pass("tags", StripTagGuards(body))
    \/ Pass("leading again", RemoveLeadingPanic(body))
    \/ Pass("counters", RemoveDeadCarriedCounters(body))

Name ==
    \/ Pass("selfs", ResolveSelfReferentialLets(body))
    \/ \E new \in BindUnboundLocals(body) : Pass("unbound", new)
    \/ Pass("names", PropagateNames(body))
    \/ Pass("shadows", DeshadowNames(body))
    \/ Pass("self assigns", RemoveSelfAssignments(body))

(* Rounds until one changes nothing; the first is not compared. *)
Settled == iteration > 1 /\ body = before
Round ==
    /\ stage = "round over"
    /\ converged' = Settled
    /\ IF Settled \/ iteration = MaxIterations
       THEN stage' = "loops" /\ UNCHANGED <<before, iteration>>
       ELSE stage' = Order[1] /\ before' = body /\ iteration' = iteration + 1
    /\ UNCHANGED <<source, body>>

CountedLoops ==
    /\ stage = "loops"
    /\ body' = RecoverForLoops(body)
    /\ stage' = "done"
    /\ UNCHANGED <<source, before, iteration, converged>>

Done == stage = "done" /\ UNCHANGED vars
Next == Fold \/ Clean \/ Name \/ Round \/ CountedLoops \/ Done
Spec == Init /\ [][Next]_vars
=============================================================================
