---------------------------- MODULE MCOptimizer ----------------------------
(* Any lifted body: what follows a break or a panic, tag checks, constant  *)
(* conditions, lost values; Ifs nested up to nine deep around nothing; and *)
(* honest bodies: of everything two statements, of guards five, of loops   *)
(* five and what comes before and after them.                              *)
EXTENDS OptimizerSoundness

(* Every statement list up to a size over an alphabet                      *)
(* [leaves, conds, shapes]: plain statements, the conditions of an If and  *)
(* of a Match, and which of "if", "match", "loop" and "block" there are.   *)
(* Honest lists are built from honest ones, the others are all there are.  *)
(* table[n + 1][l]: the lists of n statements, l = 2 inside of a loop. *)
Longer(alphabet, honest, table) ==
    LET size == Len(table)
        lists(m, l) == table[m + 1][l]
        given(shape, S) == IF shape \in alphabet.shapes THEN S ELSE {}
        pairs(m, l) == UNION {lists(j, l) \X lists(m - j, l) : j \in 0 .. m}
        closed(b) == honest => b # <<>> /\ Leaves(Last(b))
        leaf(s, l) == honest => l = 2 \/ s.k \notin {"break", "continue"}
        heads(m, l) ==      \* statements of m statements in all
            (IF m = 1 THEN {s \in alphabet.leaves : leaf(s, l)} ELSE {})
            \cup given("loop",  {Loop(b) : b \in {b \in lists(m - 1, 2) : closed(b)}})
            \cup given("block", {Block(b) : b \in lists(m - 1, l)})
            \cup given("if",    {If(c, p[1], p[2]) : c \in alphabet.conds, p \in pairs(m - 1, l)})
            \cup given("match", {Match(c, p) : c \in {Cond("lt"), Cond("invoke")},
                                               p \in pairs(m - 1, l)})
        from(l) == UNION {{<<h>> \o t : h \in heads(m, l), t \in lists(size - m, l)} :
                             m \in 1 .. size}
    IN  Append(table, [l \in 1 .. 2 |->
            {t \in from(l) : (honest /\ Len(t) > 1) => ~ Leaves(Head(t))}])

RECURSIVE Grown(_, _, _)
Grown(alphabet, honest, size) ==
    IF size = 0 THEN <<[l \in 1 .. 2 |-> {<<>>}]>>
    ELSE CHOOSE t \in {Longer(alphabet, honest, s) :
                           s \in {Grown(alphabet, honest, size - 1)}} : TRUE

ListsOf(alphabet, honest, size) ==
    UNION {UNION {table[n][1] : n \in DOMAIN table} :
              table \in {Grown(alphabet, honest, size)}}

Alphabet(leaves, conds, shapes) ==
    [leaves |-> leaves, conds |-> {Cond(op) : op \in conds}, shapes |-> shapes]

-----------------------------------------------------------------------------
Broken ==
    {ListsOf(Alphabet({Expr("put"), Expr("has"), Expr("new"), Expr("panic"), Expr("unknown"),
                       Return("none"), Return("put"), Break, Continue},
                      {"le", "invoke", "tag", "yes"}, {"if", "match", "loop", "block"}), FALSE, 2),
     ListsOf(Alphabet({Expr("put"), Expr("panic"), Return("none"), Break, Continue},
                      {"le", "no", "tag"}, {"if", "loop"}), FALSE, 3),
     ListsOf(Alphabet({Expr("put"), Break}, {"le"}, {"if", "loop"}), FALSE, 4),
     {Nest(n) : n \in 1 .. 9}}

Lifted ==
    LET loops == ListsOf(Alphabet({Expr("put"), Break, Continue}, {"invoke"}, {"if", "loop"}),
                         TRUE, 5)
    IN  {ListsOf(Alphabet({Expr("put"), Expr("has"), Expr("new"), Expr("panic"), Return("none"),
                           Return("emit"), Break, Continue},
                          {"lt", "le", "invoke", "tag"}, {"if", "match", "loop", "block"}), TRUE, 2),
         ListsOf(Alphabet({Expr("put"), Expr("panic"), Return("none")}, {"lt"}, {"if"}), TRUE, 5),
         ListsOf(Alphabet({Expr("put"), Expr("panic"), Return("none"), Return("emit")},
                          {"lt", "ge"}, {"if"}), TRUE, 4),
         {<<Expr("emit")>> \o t \o <<Expr("emit"), Return("none")>> :
              t \in {t \in loops : t # <<>> /\ ~ Leaves(Last(t))}}}
    \cup Broken

(* Honest bodies that come out wrong: a loop with two exits; a return that *)
(* ends an arm but not the function; the same call twice in a row.  What   *)
(* the last two start with takes a round more, so the first is shown first.*)
TwoExits  == <<Loop(<<If(Cond("lt"), <<Break>>, <<>>), Expr("put"), Break>>), Expr("emit")>>
ArmReturn == Nest(3) \o <<If(Cond("lt"), <<Expr("put"), Return("none")>>, <<>>), Expr("emit")>>
SameCalls == Nest(3) \o <<Expr("emit"), Expr("emit")>>
Misled == {{TwoExits}, {ArmReturn}, {SameCalls}}
=============================================================================
