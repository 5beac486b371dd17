------------------------- MODULE OptimizerSoundness -------------------------
(* What the optimizer owes the bodies it is given.  A body is honest if it *)
(* is what Rust could have been compiled to: nothing follows a statement   *)
(* that cannot be passed, no loop is left or repeated by falling off the   *)
(* end of its body, breaks are inside loops, nothing is decided by a       *)
(* constant, a check of a tag guards a panic as the SDK writes it, and it  *)
(* has no holes.  On others the passes repair what lifting broke, and the  *)
(* text they start from has no meaning to keep.                            *)
EXTENDS Optimizer

Diverts == {"return", "break", "continue"}

RECURSIVE Leaves(_)
Leaves(s) ==        \* control does not reach what follows s
    LET last(t) == t # <<>> /\ Leaves(Last(t))
    IN  CASE s.k \in Diverts -> TRUE
          [] s.k = "expr"    -> IsPanic(s)
          [] s.k = "loop"    -> ~ Mentions(s.body, {"break"})
          [] OTHER           -> \A i \in DOMAIN Bodies(s) : last(Bodies(s)[i])

RECURSIVE Honest(_, _)
Honest(t, inLoop) ==
    \A i \in DOMAIN t :
        /\ t[i] # Expr("unknown")
        /\ t[i].k \in {"if", "match"} => t[i].cond.op \notin {"yes", "no", "unknown"}
        /\ (t[i].k = "if" /\ t[i].cond.op = "tag") => IsTagGuard(t[i]) /\ PanicsFirst(t[i].then)
        /\ i < Len(t) => ~ Leaves(t[i])
        /\ t[i].k \in {"break", "continue"} => inLoop
        /\ t[i].k = "loop" => t[i].body # <<>> /\ Leaves(Last(t[i].body))
        /\ \A j \in DOMAIN Bodies(t[i]) : Honest(Bodies(t[i])[j], inLoop \/ t[i].k = "loop")

RECURSIVE Statements(_)
Statements(t) ==
    UNION {{t[i]} \cup UNION {Statements(Bodies(t[i])[j]) : j \in DOMAIN Bodies(t[i])} :
              i \in DOMAIN t}

(* Something of t stays, however much of it is tidied away. *)
Acts(t) == \E s \in Statements(t) : \/ s.k = "expr" /\ s.e \in Effects \cup {"panic"}
                                    \/ s.k = "return" /\ s.e # "none"

(* How often a host call is written in t. *)
RECURSIVE Written(_, _)
Written(t, e) ==
    LET count(s) == (IF s = Expr(e) \/ s = Return(e) THEN 1 ELSE 0)
                    + FoldLeft(LAMBDA n, b : n + Written(b, e), 0, Bodies(s))
    IN  FoldLeft(LAMBDA n, s : n + count(s), 0, t)

-----------------------------------------------------------------------------
(* The six shapes that are known not to come through. *)

(* An infinite loop: its only way back is the continue it ends in. *)
OneWayBack(s) ==
    s.k = "loop" /\ s.body # <<>> /\ Last(s.body) = Continue
    /\ ~ Mentions(Front(s.body), {"break", "continue"})

(* A loop run once, that ends in a break and has another. *)
TwoWaysOut(s) ==
    s.k = "loop" /\ s.body # <<>> /\ Last(s.body) = Break
    /\ Mentions(Front(s.body), {"break"}) /\ ~ Mentions(Front(s.body), {"continue"})

(* A void return that is not the end of the function, nor the first guard  *)
(* of the list that ends it.                                               *)
RECURSIVE EarlyReturn(_)
EarlyReturn(t) ==
    LET void(body) == Return("none") \in Statements(body)
        last == Last(t)
        guard(i) == IsVoidGuard(t[i]) /\ \A j \in 1 .. (i - 1) : ~ IsVoidGuard(t[j])
    IN  t # <<>> /\ \/ \E i \in 1 .. (Len(t) - 1) : ~ guard(i) /\ void(<<t[i]>>)
                    \/ last.k = "loop" /\ void(<<last>>)
                    \/ last.k # "loop" /\ \E j \in DOMAIN Bodies(last) : EarlyReturn(Bodies(last)[j])

(* A panic that depends on <= or >=, as written or after a guard is turned. *)
RECURSIVE Panics(_)
Panics(t) ==
    \E i \in DOMAIN t : IsPanic(t[i]) \/ (t[i].k = "loop" /\ Panics(t[i].body))

RECURSIVE PanicGuard(_)
PanicGuard(t) ==
    \E i \in DOMAIN t :
            \/ t[i].k = "if" /\ ~ Acts(t[i].els) /\ FoldExpr(t[i].cond) \in {Cond("le"), Cond("ge")}
               /\ Panics(t[i].then)
            \/ IsVoidGuard(t[i]) /\ Negated(t[i].cond) \in {Cond("le"), Cond("ge")}
               /\ Panics(SubSeq(t, i + 1, Len(t)))
            \/ \E j \in DOMAIN Bodies(t[i]) : PanicGuard(Bodies(t[i])[j])

(* A host call made twice in a row, and not by a loop going round. *)
Repeats(t) ==
    /\ \E e \in Effects : Written(t, e) > 1
    /\ \E w \in Worlds : LET r == Run(t, w).trace
                         IN  \E i \in 1 .. (Len(r) - 1) : r[i] = r[i + 1]

(* A call whose answer decides between nothing and nothing. *)
IdleCall(t) ==
    \E s \in Statements(t) :
        /\ s.k = "if" /\ HasSideEffects(s.cond)
        /\ ~ Mentions(s.then \o s.els, {"break", "continue"})
        /\ ~ Acts(s.then \o s.els)

KnownGap(t) ==
    \/ \E s \in Statements(t) : OneWayBack(s) \/ TwoWaysOut(s)
    \/ EarlyReturn(t) \/ PanicGuard(t) \/ Repeats(t) \/ IdleCall(t)

Plain == Honest(source, FALSE)

(* Ifs around nothing. *)
RECURSIVE Nest(_)
Nest(depth) == IF depth = 0 THEN <<>> ELSE <<If(Cond("lt"), Nest(depth - 1), <<>>)>>

-----------------------------------------------------------------------------
(* "A wrong recovery is worse than a todo!()": of an honest body the output*)
(* makes the host calls the source makes, in their order, and ends as it   *)
(* ends, or stops at a hole.  NoWrongRecoveryBar: but for the known gaps.  *)
NoWrongRecovery == (next = Finished /\ Plain) => Honours(stmts, source)
NoWrongRecoveryBar == NoWrongRecovery \/ KnownGap(source)

(* How deep Ifs lie in each other around nothing. *)
RECURSIVE EmptyLevels(_)
EmptyLevels(t) ==
    LET level(s) == FoldLeft(LAMBDA n, b : IF n > EmptyLevels(b) THEN n ELSE EmptyLevels(b), 0,
                             Bodies(s))
    IN  IF \E i \in DOMAIN t : t[i].k # "if" THEN 0
        ELSE FoldLeft(LAMBDA n, s : IF n > level(s) THEN n ELSE 1 + level(s), 0, t)

(* The assertion of optimize_stmts_to_fixpoint, the rounds settle, holds   *)
(* exactly for bodies whose empty Ifs are at most twice as deep as there   *)
(* are rounds but the last: a round takes two levels, and one must find    *)
(* nothing left to do.  Nothing else needs as many.                        *)
Converges ==
    next = Finished => (converged <=> EmptyLevels(source) <= 2 * (MaxIterations - 1))

(* No pass writes a host call that was not there, or writes one twice: what*)
(* a pass moves out of a loop it does not leave in it.                     *)
NothingInvented ==
    [][preserve' = preserve => \A e \in Effects : Written(stmts', e) <= Written(stmts, e)]_vars

(* A body that makes host calls does not come out empty: the second try    *)
(* shows them.                                                             *)
CallsShow ==
    (/\ next = Finished
     /\ preserve \/ stmts # <<>> \/ ~ HasHostCalls(source)
     /\ Plain
     /\ \E i \in DOMAIN source : source[i].k = "expr" /\ source[i].e \in Effects \cup {"has"})
    => stmts # <<>>

=============================================================================
