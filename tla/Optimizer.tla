----------------------------- MODULE Optimizer -----------------------------
(***************************************************************************)
(* The control-flow passes of the optimizer, in the order they run, the    *)
(* rounds of the fixpoint, the guard against broken constructs and the     *)
(* second try of the pipeline.  Bodies without locals: the passes about    *)
(* bindings, storage reads and names find nothing to do in them.           *)
(***************************************************************************)
EXTENDS SorobanBody

CONSTANTS
    Sources,        \* batches of lifted function bodies
    MaxIterations   \* of the fixpoint

ASSUME OptimizerAssumption == MaxIterations \in Nat \ {0}

VARIABLES
    source,         \* the body as it was lifted
    stmts,          \* the body now
    next,           \* the pass to run next, an index of Order
    previous,       \* the body before this round
    iteration,      \* rounds finished
    converged,      \* the last round changed nothing
    preserve        \* preserve_orphans

vars == <<source, stmts, next, previous, iteration, converged, preserve>>

Order == <<"hoist", "collapse", "fold", "conditions", "collapse", "leading", "empty",
           "orphans", "new", "duplicates", "tags", "leading", "invert", "stray", "dead",
           "collapse", "empty", "strip">>
RoundOver == Len(Order) + 1
Finished  == RoundOver + 1

Each(t, Rewrite(_)) == FlattenSeq([i \in DOMAIN t |-> Rewrite(t[i])])

-----------------------------------------------------------------------------
(* Loops. *)

(* What follows the first break of a body moves behind the loop. *)
Hoisted_KeepsCopy(body) ==
    LET p == SelectInSeq(body, LAMBDA x : x.k = "break")
    IN  <<Loop(body)>> \o IF p = 0 THEN <<>> ELSE SubSeq(body, p + 1, Len(body))
Hoisted(body) ==
    LET p == SelectInSeq(body, LAMBDA x : x.k = "break")
        after == SubSeq(body, p + 1, Len(body))
    IN  IF p # 0 /\ after # <<>> /\ ~ Mentions(after, {"break", "continue"})
        THEN <<Loop(SubSeq(body, 1, p))>> \o after ELSE <<Loop(body)>>

RECURSIVE HoistPostBreakCode(_)
HoistPostBreakCode(t) ==
    LET hoist(s0) ==
            LET s == MapBodies(s0, HoistPostBreakCode)
            IN  IF s.k = "loop" THEN Hoisted(s.body) ELSE <<s>>
    IN  Each(t, hoist)

OnlyBreaks(t) ==        \* loop { if cond { break } } with a condition that does nothing
    /\ Len(t) = 1 /\ t[1].k = "if"
    /\ t[1].then = <<Break>> /\ t[1].els = <<>> /\ ~ HasSideEffects(t[1].cond)

Unrolled(body) ==       \* what is left of a loop
    LET control == {"break", "continue"}
        b == IF body # <<>> /\ Last(body) = Continue THEN Front(body) ELSE body
    IN  CASE b = <<>>                -> <<>>
          [] Head(b).k = "continue"  -> <<>>
          [] OnlyBreaks(b)           -> <<>>
          [] Last(b).k = "break" /\ ~ Mentions(Front(b), {"continue"}) -> Front(b)
          [] Last(b) = Return("none") /\ ~ Mentions(b, control)        -> Front(b)
          [] ~ Mentions(b, control)  -> b
          [] OTHER                   -> <<Loop(b)>>

RECURSIVE CollapseTrivialLoops(_)
CollapseTrivialLoops(t) ==
    LET collapse(s0) ==
            LET s == MapBodies(s0, CollapseTrivialLoops)
            IN  IF s.k = "loop" THEN Unrolled(s.body) ELSE <<s>>
    IN  Each(t, collapse)

-----------------------------------------------------------------------------
(* Conditions. *)

FoldExpr(cond) ==       \* a negated comparison or constant is its opposite
    IF cond.not /\ cond.op \in DOMAIN Opposite THEN Cond(Opposite[cond.op]) ELSE cond
Negated(cond) == FoldExpr([cond EXCEPT !.not = ~ @])

RECURSIVE FoldConstants(_)
FoldConstants(t) ==
    [i \in DOMAIN t |->
        LET s == MapBodies(t[i], FoldConstants)
        IN  IF s.k \in {"if", "match"} THEN [s EXCEPT !.cond = FoldExpr(@)] ELSE s]

RECURSIVE FoldConstantConditions(_)
FoldConstantConditions(t) ==
    LET fold(s0) ==
            LET s == MapBodies(s0, FoldConstantConditions)
            IN  IF s.k # "if" THEN <<s>>
                ELSE CASE s.cond = Cond("yes") -> s.then
                       [] s.cond = Cond("no")  -> s.els
                       [] OTHER                -> <<s>>
    IN  Each(t, fold)

IsTagGuard(s) == s.k = "if" /\ s.els = <<>> /\ s.cond.op = "tag" /\ s.then # <<>>

RECURSIVE RemoveValTagGuards(_)
RemoveValTagGuards(t) ==
    LET strip(s) ==
            IF IsTagGuard(s) /\ PanicsFirst(s.then) THEN <<>>
            ELSE IF IsTagGuard(s) /\ Head(s.then).k \in {"break", "continue"}
                 THEN <<[s EXCEPT !.cond = Cond("unknown")]>>
                 ELSE <<MapBodies(s, RemoveValTagGuards)>>
    IN  Each(t, strip)

Comparisons == {"lt", "le", "gt", "ge"}
IsInvertedComparison(cond) ==
    \/ cond \in {Cond("le"), Cond("ge")}
    \/ cond.not /\ cond.op \in Comparisons
InvertComparison(cond) ==
    IF cond.not THEN Cond(cond.op) ELSE Cond(Opposite[cond.op])

IsVoidGuard(s)  == s.k = "if" /\ s.els = <<>> /\ s.then = <<Return("none")>>
IsPanicGuard(s) == s.k = "if" /\ s.els = <<>> /\ PanicsFirst(s.then)

RECURSIVE Inverted(_)
Inverted(t) ==          \* at this level
    IF t = <<>> THEN <<>>
    ELSE LET s == Head(t)
         IN  IF IsVoidGuard(s) /\ Len(t) > 1 THEN <<If(Negated(s.cond), Tail(t), <<>>)>>
             ELSE IF IsPanicGuard(s) /\ IsInvertedComparison(s.cond)
                  THEN <<[s EXCEPT !.cond = InvertComparison(@)]>> \o Inverted(Tail(t))
                  ELSE <<s>> \o Inverted(Tail(t))

RECURSIVE InvertGuardClauses(_)
InvertGuardClauses(t) ==
    Inverted([i \in DOMAIN t |-> MapBodies(t[i], InvertGuardClauses)])

-----------------------------------------------------------------------------
(* Artifacts. *)

RemoveLeadingPanic(t) == IF Len(t) > 1 /\ PanicsFirst(t) THEN Tail(t) ELSE t

RECURSIVE RemoveEmptyMatches(_)
RemoveEmptyMatches(t) ==
    LET empty(s) == \A i \in DOMAIN Bodies(s) : Bodies(s)[i] = <<>>
        remove(s) ==
            IF \/ s.k = "if" /\ empty(s)
               \/ s.k = "match" /\ empty(s) /\ ~ HasSideEffects(s.cond)
            THEN <<>> ELSE <<MapBodies(s, RemoveEmptyMatches)>>
    IN  Each(t, remove)

RECURSIVE RemoveOrphanHostCalls(_)
RemoveOrphanHostCalls(t) ==
    LET remove(s) == IF s.k = "expr" /\ s.e \in {"unknown", "has"} THEN <<>>
                     ELSE <<MapBodies(s, RemoveOrphanHostCalls)>>
    IN  Each(t, remove)

RECURSIVE NestedCollectionNew(_)
NestedCollectionNew(t) ==
    LET remove(s) == IF s = Expr("new") THEN <<>> ELSE <<MapBodies(s, NestedCollectionNew)>>
    IN  Each(t, remove)
RemoveStandaloneCollectionNew(t) ==     \* the last statement may be the function's value
    NestedCollectionNew(IF t # <<>> THEN Front(t) ELSE t)
    \o IF t # <<>> /\ Last(t) # Expr("new") THEN NestedCollectionNew(<<Last(t)>>)
       ELSE IF t # <<>> THEN <<Last(t)>> ELSE <<>>

RECURSIVE RemoveDuplicateExprs(_)
RemoveDuplicateExprs(t) ==
    LET add(result, s0) ==
            LET s == MapBodies(s0, RemoveDuplicateExprs)
                duplicate == /\ s.k \in {"expr", "return"} /\ result # <<>>
                             /\ Last(result) = Expr(s.e)
            IN  Append(IF duplicate THEN Front(result) ELSE result, s)
    IN  FoldLeft(add, <<>>, t)

RealContinuation(s) ==
    IF s.k = "expr" THEN s.e \in Effects \cup {"has"} ELSE s.k \notin {"break", "continue"}
DropStrayPanics(t) ==
    LET stray(i) == IsPanic(t[i]) /\ \E j \in (i + 1) .. Len(t) : RealContinuation(t[j])
    IN  FlattenSeq([i \in DOMAIN t |-> IF stray(i) THEN <<>> ELSE <<t[i]>>])

-----------------------------------------------------------------------------
(* What cannot be reached. *)

RECURSIVE IsTerminator_EitherArm(_, _)
IsTerminator_EitherArm(s, strong) ==
    LET some(t) == \E i \in DOMAIN t : IsTerminator_EitherArm(t[i], strong)
    IN  \/ s.k = "return" \/ (s.k = "expr" /\ IsPanic(s))
        \/ (s.k = "if" /\ (some(s.then) \/ some(s.els)))

RECURSIVE IsTerminator(_, _)
IsTerminator(s, strong) ==      \* at the top level a loop that never breaks is one, too
    LET some(t) == \E i \in DOMAIN t : IsTerminator(t[i], strong)
    IN  CASE s.k = "expr"   -> IsPanic(s)
          [] s.k = "return" -> TRUE
          [] s.k = "if"     -> s.els # <<>> /\ some(s.then) /\ some(s.els)
          [] s.k = "match"  -> s.arms # <<>> /\ \A i \in DOMAIN s.arms : some(s.arms[i])
          [] s.k = "loop"   -> strong /\ ~ Mentions(s.body, {"break"})
          [] OTHER          -> FALSE

RECURSIVE TruncateAfter(_, _)
TruncateAfter(t, strong) ==
    IF t = <<>> THEN <<>>
    ELSE LET nested(body) == TruncateAfter(body, FALSE)
         IN  <<MapBodies(Head(t), nested)>>
             \o IF IsTerminator(Head(t), strong) THEN <<>> ELSE TruncateAfter(Tail(t), strong)
RemoveDeadCode(t) == TruncateAfter(t, TRUE)

RECURSIVE StripTrailingVoidReturns(_)
StripTrailingVoidReturns(t) ==
    LET nested == [i \in DOMAIN t |-> MapBodies(t[i], StripTrailingVoidReturns)]
    IN  IF t # <<>> /\ Last(t) = Return("none") THEN Front(nested) ELSE nested

RECURSIVE DropBreaks(_)
DropBreaks(t) ==                \* of a list outside of any loop
    LET drop(s) == IF s.k \in {"break", "continue"} THEN <<>>
                   ELSE IF s.k = "loop" THEN <<s>> ELSE <<MapBodies(s, DropBreaks)>>
    IN  Each(t, drop)

-----------------------------------------------------------------------------
Start(body, orphans) ==
    /\ stmts' = body
    /\ next' = 1
    /\ previous' = body
    /\ iteration' = 0
    /\ converged' = FALSE
    /\ preserve' = orphans

Init ==
    /\ \E batch \in Sources : source \in batch
    /\ stmts = source
    /\ next = 1
    /\ previous = source
    /\ iteration = 0
    /\ converged = FALSE
    /\ preserve = FALSE

Pass(name, Rewrite(_)) ==
    /\ next \in DOMAIN Order
    /\ Order[next] = name
    /\ stmts' = Rewrite(stmts)
    /\ next' = next + 1
    /\ UNCHANGED <<source, previous, iteration, converged, preserve>>

Hoist      == Pass("hoist", HoistPostBreakCode)
Collapse   == Pass("collapse", CollapseTrivialLoops)
Fold       == Pass("fold", FoldConstants)
Conditions == Pass("conditions", FoldConstantConditions)
Leading    == Pass("leading", RemoveLeadingPanic)
Empty      == Pass("empty", RemoveEmptyMatches)
Orphans    == Pass("orphans", LAMBDA t : IF preserve THEN t ELSE RemoveOrphanHostCalls(t))
New        == Pass("new", RemoveStandaloneCollectionNew)
Duplicates == Pass("duplicates", RemoveDuplicateExprs)
Tags       == Pass("tags", RemoveValTagGuards)
Invert     == Pass("invert", InvertGuardClauses)
Stray      == Pass("stray", DropStrayPanics)
Dead       == Pass("dead", RemoveDeadCode)
Strip      == Pass("strip", StripTrailingVoidReturns)

(* A round that changed nothing is the last, except that the first is not  *)
(* compared with anything.                                                 *)
Settled == iteration > 0 /\ stmts = previous

AnotherRound ==
    /\ next = RoundOver
    /\ ~ Settled
    /\ iteration + 1 < MaxIterations
    /\ previous' = stmts
    /\ next' = 1
    /\ iteration' = iteration + 1
    /\ UNCHANGED <<source, stmts, converged, preserve>>

(* guard_broken_constructs, in the build that does not check the assertion.*)
GuardBrokenConstructs ==
    /\ next = RoundOver
    /\ Settled \/ iteration + 1 = MaxIterations
    /\ converged' = Settled
    /\ stmts' = DropBreaks(stmts)
    /\ next' = Finished
    /\ UNCHANGED <<source, previous, iteration, preserve>>

RECURSIVE HasHostCalls(_)
HasHostCalls(t) ==
    \E i \in DOMAIN t : \/ t[i].k \in {"expr", "return"} /\ t[i].e \in Effects \cup {"has"}
                        \/ t[i].k \in {"if", "match"} /\ HasSideEffects(t[i].cond)
                        \/ \E j \in DOMAIN Bodies(t[i]) : HasHostCalls(Bodies(t[i])[j])

(* The pipeline: a body with host calls that comes out empty is optimized  *)
(* again, orphans kept.                                                    *)
OptimizeAgain_FromOutput ==
    /\ next = Finished
    /\ stmts = <<>>
    /\ ~ preserve
    /\ HasHostCalls(source)
    /\ Start(stmts, TRUE)
    /\ UNCHANGED source

OptimizeAgain ==
    /\ next = Finished
    /\ stmts = <<>>
    /\ ~ preserve
    /\ HasHostCalls(source)
    /\ Start(source, TRUE)
    /\ UNCHANGED source

Next == \/ Hoist \/ Collapse \/ Fold \/ Conditions \/ Leading \/ Empty \/ Orphans \/ New
        \/ Duplicates \/ Tags \/ Invert \/ Stray \/ Dead \/ Strip
        \/ AnotherRound \/ GuardBrokenConstructs \/ OptimizeAgain

Spec == Init /\ [][Next]_vars
=============================================================================
