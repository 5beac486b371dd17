---------------------------- MODULE SorobanBody ----------------------------
(* Statement lists of the lifted IR and what they do when they run.  A     *)
(* statement is an expression, a return, a break, a continue, an If, a     *)
(* Match, a Loop or a Block; `k' is its kind.  Expressions are told apart  *)
(* as far as the optimizer does: "put" and "emit" are host calls, "has" a  *)
(* storage read whose result is dropped, "new" an empty collection, "panic"*)
(* a panic and "unknown" a hole, todo!() in the output.                    *)
EXTENDS Integers, SequencesExt

Effects == {"put", "emit"}
Expr(e)    == [k |-> "expr", e |-> e]
Return(e)  == [k |-> "return", e |-> e]        \* e = "none": return;
Break      == [k |-> "break"]
Continue   == [k |-> "continue"]
If(cond, then, els)  == [k |-> "if", cond |-> cond, then |-> then, els |-> els]
Match(cond, arms)    == [k |-> "match", cond |-> cond, arms |-> arms]
Loop(body)  == [k |-> "loop", body |-> body]
Block(body) == [k |-> "block", body |-> body]

(* Conditions: comparisons of the same two parameters, a cross-contract    *)
(* call that answers yes or no, a check of a parameter's tag, a lost value *)
(* and constants; `not' is an explicit negation.                           *)
Cond(op) == [op |-> op, not |-> FALSE]
Opposite == [lt |-> "ge", ge |-> "lt", gt |-> "le", le |-> "gt", yes |-> "no", no |-> "yes"]

IsPanic(s)      == s.k = "expr" /\ s.e = "panic"
PanicsFirst(t)  == t # <<>> /\ IsPanic(Head(t))
HasSideEffects(cond) == cond.op = "invoke"     \* expr_has_side_effects

(* The bodies of a statement, and the statement with each of them mapped.  *)
Bodies(s) ==
    CASE s.k = "if" -> <<s.then, s.els>>
      [] s.k = "match" -> s.arms
      [] s.k \in {"loop", "block"} -> <<s.body>>
      [] OTHER -> <<>>

MapBodies(s, F(_)) ==
    CASE s.k = "if" -> [s EXCEPT !.then = F(@), !.els = F(@)]
      [] s.k = "match" -> [s EXCEPT !.arms = [i \in DOMAIN @ |-> F(@[i])]]
      [] s.k \in {"loop", "block"} -> [s EXCEPT !.body = F(@)]
      [] OTHER -> s

(* Statements of the given kinds that act on the innermost loop around t.  *)
RECURSIVE Mentions(_, _)
Mentions(t, kinds) ==
    \E i \in DOMAIN t :
        \/ t[i].k \in kinds
        \/ t[i].k # "loop" /\ \E j \in DOMAIN Bodies(t[i]) : Mentions(Bodies(t[i])[j], kinds)

-----------------------------------------------------------------------------
(* A run.  `ord' says how the two compared parameters compare and `ans'    *)
(* what the calls still to be made will answer.  A run ends "done",        *)
(* "value", "panic", at a "hole", or is "cut" when answers or rounds end.  *)
Worlds == [ord : {"less", "equal", "greater"}, ans : [1 .. 2 -> BOOLEAN]]

Outcome(trace, sig, ans) == [trace |-> trace, sig |-> sig, ans |-> ans]

Holds(op, ord) ==
    CASE op = "lt" -> ord = "less"
      [] op = "le" -> ord # "greater"
      [] op = "gt" -> ord = "greater"
      [] op = "ge" -> ord # "less"
      [] OTHER -> op = "yes"      \* a parameter's tag is always the one checked for

RECURSIVE Exec(_, _, _, _)
Exec(t, ord, ans, rounds) ==
    IF t = <<>> THEN Outcome(<<>>, "next", ans)
    ELSE LET s == Head(t)
             choose(yes, no) ==      \* evaluate s.cond, then run one of the lists
                 LET way(b) == IF b # s.cond.not THEN yes ELSE no
                     rest == Exec(way(Head(ans)), ord, Tail(ans), rounds)
                 IN  CASE s.cond.op = "unknown" -> Outcome(<<>>, "hole", ans)
                       [] s.cond.op = "invoke"  ->
                             IF ans = <<>> THEN Outcome(<<>>, "cut", ans)
                             ELSE [rest EXCEPT !.trace = <<"invoke">> \o @]
                       [] OTHER -> Exec(way(Holds(s.cond.op, ord)), ord, ans, rounds)
             around == Exec(s.body, ord, ans, rounds)
             again == IF rounds = 0 THEN Outcome(<<>>, "cut", around.ans)
                      ELSE Exec(<<s>>, ord, around.ans, rounds - 1)
             first ==
                 CASE s.k = "if" -> choose(s.then, s.els)
                   [] s.k = "match" -> choose(s.arms[1], s.arms[2])
                   [] s.k = "block" -> around
                   [] s.k = "loop" ->
                         IF around.sig = "break" THEN [around EXCEPT !.sig = "next"]
                         ELSE IF around.sig \notin {"next", "continue"} THEN around
                         ELSE [again EXCEPT !.trace = around.trace \o @]
                   [] s.k = "return" ->
                         IF s.e = "none" THEN Outcome(<<>>, "return", ans)
                         ELSE Outcome(<<s.e>>, "value", ans)
                   [] s.k \in {"break", "continue"} -> Outcome(<<>>, s.k, ans)
                   [] s.e \in Effects  -> Outcome(<<s.e>>, "next", ans)
                   [] s.e = "panic"    -> Outcome(<<>>, "panic", ans)
                   [] s.e = "unknown"  -> Outcome(<<>>, "hole", ans)
                   [] OTHER            -> Outcome(<<>>, "next", ans)
             after == Exec(Tail(t), ord, first.ans, rounds)
         IN  IF first.sig # "next" THEN first
             ELSE [after EXCEPT !.trace = first.trace \o @]

(* A function that falls off its end returns. *)
Run(t, world) ==
    LET r == Exec(t, world.ord, world.ans, 3)
    IN  [trace |-> r.trace, sig |-> IF r.sig \in {"next", "return"} THEN "done" ELSE r.sig]

SameRuns(s, t) == \A w \in Worlds : Run(s, w) = Run(t, w)

(* What the output may do in place of the source: the same, or stop at a   *)
(* hole where the source goes on.  A source that is cut says nothing.      *)
Honours(t, source) ==
    \A w \in Worlds :
        LET is == Run(t, w)
            was == Run(source, w)
        IN  \/ is = was
            \/ was.sig = "cut"
            \/ is.sig = "hole" /\ IsPrefix(is.trace, was.trace)
=============================================================================
