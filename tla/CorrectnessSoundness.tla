----------------------- MODULE CorrectnessSoundness ------------------------
(* What the last passes and the writing of the text promise: broken shapes *)
(* are gone, nothing is changed into something else that runs, holes stand *)
(* only where the value was lost, and the text does what the body says.    *)
EXTENDS Correctness, FnRuns

CONSTANT Worlds

Meaning(t, world) == MeaningOf(fn.ret, t, Start(world, FALSE))

TextMeaning(t, world) ==        \* of a text: Ok and Err are written
    LET r == Exec(t, Start(world, TRUE), 2)
        v == r.val
    IN  CASE r.sig = "panic"                 -> Fails(v, r)
          [] ~ Ended(r)                      -> Signals(r.sig, r)
          [] ~ HasReturnType(fn.ret)         -> IF v = <<"unit">> THEN Yields(v, r) ELSE Signals("stuck", r)
          [] IsResult(fn.ret) /\ v[1] = "ok"  -> Yields(v[2], r)
          [] IsResult(fn.ret) /\ v[1] = "err" -> Fails(v[2], r)
          [] IsResult(fn.ret) \/ v[1] \in {"raw", "unit"} -> Signals("stuck", r)
          [] OTHER                           -> Yields(v, r)

-----------------------------------------------------------------------------
RECURSIVE BreaksLoose(_)
BreaksLoose(t) == \E i \in DOMAIN t :
                      \/ t[i].k \in {"Break", "Continue"}
                      \/ /\ t[i].k \notin {"Loop", "For"}
                         /\ \E j \in DOMAIN t[i].bodies : BreaksLoose(t[i].bodies[j])

(* The guards' promise (the detectors of correctness.rs): in the body that *)
(* is written no local is used where no binding of it is in scope, no      *)
(* break stands outside a loop, no member of an error value is read, and   *)
(* an assignment's target is declared somewhere.  The walker of the error  *)
(* guard takes Shl and Try for leaves.                                     *)
GuardedShapes ==
    stage \in {"emit", "done"} =>
        /\ Loose(body, ParamNames) = {}
        /\ ~ BreaksLoose(body)
        /\ \A n \in NodesOf(body, Opaque) :
               n.op \in {"FieldAccess", "MethodCall"} => ~ IsErrorSentinel(n.kids[1])
        /\ \A s \in StmtsOf(body) : s.k = "Assign" => s.name \in LetNames(body) \cup ParamNames

(* No pass turns what a body does into something else: after it the body   *)
(* does the same in every world, or stops at a hole before.  An annotated  *)
(* get is a raw Val, so an annotation on a value that is used shows.       *)
PassesHonour ==
    [][stage # "emit" /\ body' # body =>
         \A w \in Worlds : HonestEnd(Meaning(body', w), Meaning(body, w))]_vars

(* A pass hides a value behind a hole only where the value was lost: a     *)
(* literal of the wrong type, or an empty collection where no load of the  *)
(* body goes anywhere.  The search for an escaping load does not look into *)
(* an enum's payload, a storage write, an event or a shift.                *)
Unsearched == {"EnumConstruct", "StorageSet", "PublishEvent", "Shl"}
LoadGoesOn(t) == \E s \in StmtsOf(t) : /\ s.k \in {"Let", "Assign", "Return"}
                                       /\ \E e \in ToSet(s.es) : \E n \in Nodes(e, Unsearched) : IsGet(n)
Earned(w) ==
    \/ stage = "literal" /\ Meaning(body, w).val[1] \in {"int", "bool", "Symbol", "String", "Bytes"}
                         /\ ~ (Meaning(body, w).val[1] = "int" /\ ScalarOkClass(fn.ret[2]) = "numeric")
    \/ stage = "tail" /\ Meaning(body, w).val = <<"map">> /\ ~ LoadGoesOn(Front(body))
HolesEarnedBar ==
    [][stage # "emit" /\ body' # body =>
         \A w \in Worlds :
            Meaning(body, w).sig = "value" /\ Meaning(body', w).sig = "hole" => Earned(w)]_vars

(* The text does what the body says, stops at a todo!(), or does not       *)
(* compile.  Two forms of the text do not keep the order of evaluation:    *)
(* a let merged with the if or match behind it, when its initialiser is    *)
(* more than a value or the two mention the name; and an if/else-if chain  *)
(* that evaluates a call again for every arm.                              *)
Lists(t) == {t} \cup UNION {ToSet(s.bodies) : s \in StmtsOf(t)}
MergeReorders(l, s) ==
    \/ ~ IsEffectFree(l.es[1])
    \/ l.name \in Names(<<s>>, Nothing)
Reordered(t) ==
    \/ \E u \in Lists(t) : \E i \in DOMAIN u :
           Combines(SubSeq(u, i, Len(u))) /\ MergeReorders(u[i], u[i + 1])
    \/ \E s \in StmtsOf(t) : s.k = "Match" /\ AllUnit(s) /\ ~ IsEffectFree(s.es[1])
TextFaithfulBar ==
    stage = "done" /\ ~ Reordered(body) =>
        \A w \in Worlds : LET is == TextMeaning(text, w) IN
            Silent(is) \/ is.sig = "moved" \/ HonestEnd(is, Meaning(body, w))

(* A handle is not moved into two keys on one path, save inside the leaves *)
(* of the walker and for a single move that a loop repeats.                *)
InLoop(t) == UNION {ToSet(s.bodies) : s \in {s \in StmtsOf(t) : s.k \in {"Loop", "For"}}}
MovedInLoop(t) == \E b \in InLoop(t) : \E n \in HandleNames : MovesInStmts(b, n, Nothing) > 0
MovesOnceBar ==
    stage = "done" /\ ~ MovedInLoop(body)
                   /\ (\A n \in HandleNames : MovesInStmts(body, n, Nothing) = MovesInStmts(body, n, Opaque)) =>
        \A w \in Worlds : TextMeaning(text, w).sig # "moved"

(* Every SDK name the text mentions is imported, where the text has no     *)
(* compile_error!.  The scan stops at Some, Try, sret results, tags and    *)
(* folds, so what only they hold is not asked for, and Tag never is; a     *)
(* foreign call's type is that of the function that returns it.            *)
OnlyBelowUnscanned(e) == \E n \in NodesOf(text, Nothing) : n.op \in Unscanned /\ e \in Nodes(n, Nothing) \ {n}
ImportedBar ==
    stage = "done" /\ CompileError \notin NodesOf(text, Nothing) =>
        MentionedIn({e \in NodesOf(text, Nothing) : ~ OnlyBelowUnscanned(e)}) \ {"Tag"}
            \subseteq ComputeImports(fn, body)

(* The report owns up to every hole: a text with a todo!() in it belongs   *)
(* to a function that is graded as not fully recovered, or the hole is     *)
(* counted.  The exception is the tail that codegen adds where the value   *)
(* was lost behind a last unit statement: the function is graded without   *)
(* it.                                                                     *)
AddedTail == Expr(Todo("decompiled return value"))
Reported == IF text # <<>> /\ Last(text) = AddedTail THEN Front(text) ELSE text
HolesReportedBar ==
    stage = "done" /\ (\E e \in NodesOf(Reported, Nothing) : IsHole(e)) =>
        \/ CountArtifacts(text) > 0
        \/ \A hosts \in BOOLEAN : ~ IsFullyRecovered(ScoreFn(fn.ret, body, hosts))
=============================================================================
