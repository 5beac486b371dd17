------------------------ MODULE IrOptimizerSoundness ------------------------
(* What the passes on values owe a body: each leaves what it does, or fills *)
(* a hole of it; the rounds settle; and no local loses its binding.         *)
EXTENDS IrOptimizer

CONSTANT Worlds

VARIABLES outcome, guessed      \* history, as Outcomes reads them
hvars == <<vars, outcome, guessed>>

Rounds == 4     \* of a loop before it is cut
Meaning(t, w, unbound) ==       \* how it ends at a local without a binding
    LET r == Exec(t, [Start(w, FALSE) EXCEPT !.mixed = TRUE, !.unbound = unbound], Rounds)
        unit == r.sig = "next" /\ ~ source.valued
    IN  [sig |-> IF r.sig = "next" THEN "value" ELSE r.sig, trace |-> r.st.trace,
         val |-> IF unit THEN <<"unit">> ELSE AsNumber(r.val, r.st)]
Does(t) == [i \in DOMAIN Worlds |-> Meaning(t, Worlds[i], "hole")]

(* Where a pass takes its text for what it mostly stands for.              *)
LeakedFlag ==           \* a comparison added to a number is a carry
    \E e \in NodesOf(body, Nothing) : e.op \in {"Add", "Sub"} /\ \E i \in 1..2 : IsCarryBorrowFlag(e.kids[i])
OddThreshold ==         \* what compares with n.ffffffff is <= or >
    \E e \in NodesOf(body, Nothing) : \/ e.op \in {"Eq", "Ne", "Lt", "Ge"} /\ e.kids[2].op = "Threshold"
                                      \/ e.op \in {"Eq", "Ne", "Le", "Gt"} /\ e.kids[1].op = "Threshold"
TrapsAlways ==          \* a read behind has(key) is one that traps
    \E s \in StmtsOf(body) : GuardsRead(s) /\ (ReadOfGuard(s) \/ TrapsInGuard(s))
StaleKeyUsed ==         \* a key behind a load of it is what was loaded
    \E a, b \in StmtsOf(body) : /\ DiscardedGet(a) /\ TakesLoad(b, a.es[1].kids[1])
                                /\ UnknownVal \notin NodesOf(<<b>>, Nothing)
Lists(t) == {t} \cup UNION {ToSet(s.bodies) : s \in StmtsOf(t)}
Acts(e) == \E n \in Nodes(e, Nothing) : HasSideEffects(n)
Repeated ==             \* what is done twice in a row was lifted twice
    \E t \in Lists(body) : \E i \in 1..(Len(t) - 1) :
        t[i].k = "Expr" /\ Acts(t[i].es[1]) /\ \E e \in ToSet(t[i + 1].es) : t[i].es[1] \in Nodes(e, Nothing)
HiddenEffect ==         \* what acts below the top of a value is dropped with it
    \E s, l \in StmtsOf(body) : /\ IsLet(s) /\ IsLet(l) /\ ~ HasSideEffects(Value(s))
                                /\ Acts(Value(s)) \/ (Acts(Value(l)) /\ ReadsLocal(Value(s), l.name))
MovedEffect ==          \* a call is moved to its use, in a branch or behind another
    \E t \in Lists(body) : \E i \in 1..(Len(t) - 1) :
        /\ IsLet(t[i]) /\ HasSideEffects(Value(t[i])) /\ CountUses(<<t[i + 1]>>, t[i].name) = 1
        /\ \/ CountAll(t[i + 1].es, t[i].name) = 0
           \/ \E e \in ToSet(t[i + 1].es) : \E n \in Nodes(e, Nothing) :
                  HasSideEffects(n) /\ ~ ReadsLocal(n, t[i].name)
DeadAssigned ==         \* an assignment of the list outlives its let mut
    \E t \in Lists(body) : \E i, j \in DOMAIN t :
        i < j /\ IsLet(t[i]) /\ IsMutable(t[i]) /\ t[j].k = "Assign" /\ t[j].name = t[i].name
ReboundName ==          \* an equal read is the local's, which is bound anew since
    \E t \in Lists(body) : \E i, j, k \in DOMAIN t :
        /\ i < j /\ j < k /\ IsLet(t[i]) /\ IsLet(t[j]) /\ IsLet(t[k])
        /\ t[i].name = t[j].name /\ Value(t[i]) = Value(t[k])
StaleMove ==            \* a value is moved past an assignment of what it reads
    \E s, a \in StmtsOf(body) : IsLet(s) /\ a.k = "Assign" /\ ReadsLocal(Value(s), a.name)
NameTaken ==            \* a name that is suggested means something already
    \E s \in StmtsOf(body) : /\ IsLet(s) /\ DeriveName(Value(s)) # <<>>
        /\ \/ DeriveName(Value(s))[1] \in {NameOf(e) : e \in {e \in NodesOf(body, Nothing) : e.op \in Variables}}
           \/ \E l \in StmtsOf(body) : IsLet(l) /\ l # s /\ DeriveName(Value(l)) = DeriveName(Value(s))
OtherCounting ==        \* the counter is assigned elsewhere too, or a round skips it
    \E t \in Lists(body) : \E i, j \in DOMAIN t :
        /\ i < j /\ IsLet(t[i]) /\ t[j].k = "Loop"
        /\ \/ t[i].name \in AssignTargets(SubSeq(t, i + 1, j - 1))
           \/ Len(SelectSeq(InOrder(t[j].bodies[1]), LAMBDA s : Counts(s, t[i].name))) > 1
           \/ \E s \in StmtsOf(Front(t[j].bodies[1])) : s = Continue

Guess ==
    \/ stage = "constants" /\ (LeakedFlag \/ OddThreshold)
    \/ stage \in {"has get", "has get again"} /\ TrapsAlways
    \/ stage \in {"leading", "leading again"}
    \/ stage = "lost loads" /\ StaleKeyUsed
    \/ stage = "lets" /\ (HiddenEffect \/ MovedEffect \/ DeadAssigned \/ ReboundName \/ StaleMove)
    \/ stage = "duplicates" /\ Repeated
    \/ stage = "names" /\ NameTaken
    \/ stage = "loops" /\ OtherCounting

HInit == Init /\ outcome = Does(body) /\ guessed = FALSE
HNext == /\ Next
         /\ outcome' = IF body' = body THEN outcome ELSE Does(body')
         /\ guessed' = (guessed \/ (body' # body /\ Guess))
HSpec == HInit /\ [][HNext]_hvars

Promise == INSTANCE Outcomes WITH Worlds <- DOMAIN Worlds

(* Every pass implements the promise of Outcomes: in every world it leaves *)
(* what the body does, stops at a hole before, or fills a hole behind what *)
(* ran before it, as long as no pass took a form for what it mostly is.    *)
PassesHonour == Promise!Spec

(* The rounds of cleaning come to a body that they leave alone, before the *)
(* bound on the rounds ends them.                                          *)
Converges == stage = "done" => converged

Params == {Worlds[1].args[i][1] : i \in DOMAIN Worlds[1].args}
OutOfReach == \E e \in NodesOf(source.body, Nothing) : e.op \in Uncounted \cup {"Shl"} /\ Names(<<Expr(e)>>, Nothing) # {}
Twins == \E i, j \in DOMAIN LetSeq(source.body) :
             /\ i < j /\ Value(LetSeq(source.body)[i]) = Value(LetSeq(source.body)[j])
             /\ CountUses(source.body, LetSeq(source.body)[j].name) > 1
RebindsItself == \E s \in StmtsOf(source.body) : IsLet(s) /\ ReadsLocal(Value(s), s.name)

(* No local loses its binding: where every local of the lifted body has    *)
(* one in scope, so has every local of the body that is left.  That holds  *)
(* but for uses a rename does not reach, the second of two equal bindings, *)
(* and a let that shadows what it reads.                                   *)
NoBindingLost == stage = "done" /\ Loose(source.body, Params) = {} => Loose(body, Params) = {}
NoBindingLostBar == OutOfReach \/ Twins \/ RebindsItself \/ NoBindingLost

(* The passes together keep what a body does whose locals are all bound,   *)
(* or stop at a hole: with a lost binding the text does not compile, with  *)
(* a call moved into a branch it is not always made.                       *)
EndsAsLifted ==
    stage = "done" /\ Loose(source.body, Params) = {} =>
        \A i \in DOMAIN Worlds : HonestEnd(Meaning(body, Worlds[i], "stuck"),
                                          Meaning(source.body, Worlds[i], "stuck"))
=============================================================================
