--------------------------- MODULE MCIrOptimizer ----------------------------
(* Bodies as the lifter leaves them, a family for each group of passes, in *)
(* a function with integers p and q, an address a, a struct c, a vector v. *)
EXTENDS IrOptimizerSoundness

TheSnake == [Admin |-> "admin", Balance |-> "balance", Total |-> "q"]

N(n) == <<"int", n>>
ArgsOf(p, q) == <<<<"p", N(p)>>, <<"q", N(q)>>, <<"a", <<"handle", "a">>>>, <<"v", <<"vec", <<N(2), N(p)>>>>>>,
                  <<"c", <<"struct", "Config", <<"admin", "cap">>, <<<<"handle", "boss">>, N(3)>>>>>>>>
KeyVal(v) == Encoded(<<"enum", <<"DataKey", v>>, <<>>>>)
Ws == <<[args |-> ArgsOf(1, 2), ans |-> <<N(2), N(1), N(0)>>, store |-> {<<KeyVal("Admin"), <<"handle", "a">>>>}],
        [args |-> ArgsOf(0, 3), ans |-> <<N(0), N(2)>>, store |-> {<<KeyVal("Total"), N(1)>>}],
        [args |-> ArgsOf(2, 1), ans |-> <<N(1)>>,
         store |-> {<<KeyVal("Admin"), <<"handle", "z">>>>, <<KeyVal("Total"), N(4)>>}]>>

U(n) == Number("u32", n)    I(n) == Number("i32", n)    L(n) == Number("i64", n)
P == Param("p")  Q == Param("q")  A == Param("a")  V == Param("v")  C == Param("c")
V1 == Local("var_1")  V2 == Local("var_2")  V3 == Local("var_3")  V4 == Local("var_4")
Admin == Enum("DataKey", "Admin", <<>>)
Total_ == Enum("DataKey", "Total", <<>>)
True == Bool("true")   False == Bool("false")
T == Symbol("t")
PutE(e) == Expr(Set(T, e))
Call(n) == Invoke("Val", A, Symbol("f"), <<n>>)
Less == Bin("Lt", P, Q)
Len_ == Method(V, "len", <<>>)
At(e) == Method(V, "get", <<e>>)
HasKey(k) == Node("StorageHas", <<>>, <<k>>)

SeqsOf(S, n) == UNION {[1..i -> S] : i \in 1..n}
Bodies(bodies) == {[body |-> b, valued |-> FALSE, preserve |-> FALSE] : b \in bodies}
Valued_(bodies) == {[body |-> b, valued |-> TRUE, preserve |-> FALSE] : b \in bodies}

-----------------------------------------------------------------------------
(* Expressions, conditions, matches. *)
Atoms == {P, U(0), U(1), U(15), I(0), I(-1), Less}
Plain == {Bin(op, x, y) : op \in (Arith \cup Compare) \ {"Shl"}, x, y \in Atoms}
    \cup {Bin("Shl", x, y) : x \in Atoms, y \in {P, U(0), U(3), U(5)}}
ObjCmp == Node("RawHostCall", <<"Obj", "obj_cmp">>, <<P, Q>>)
Deep == {Bin(op, ObjCmp, I(n)) : op \in Compare, n \in -1..1}
    \cup {Bin(op, Bin("Sub", Bin("Gt", P, Q), Bin("Lt", P, Q)), I(0)) : op \in Compare}
    \cup {Bin(op, e, U(0)) : op \in {"Eq", "Ne"}, e \in {Bin("Mul", P, U(2)), Bin("Mul", U(0), P)}}
    \cup {Bin(op, x, y) : op \in {"And", "Or"}, x, y \in {True, False, Less, Bin("Eq", P, Q)}}
    \cup {Un("Not", e) : e \in {Less, Bin("Le", P, Q), Bin("Eq", P, Q), True, Un("Not", Less)}}
    \cup {Bin(op, Less, b) : op \in {"Eq", "Ne"}, b \in {True, False, I(1)}}
    \cup {Bin(op, P, Leaf("Threshold", "1")) : op \in Compare} \cup {Bin(op, Leaf("Threshold", "1"), P) : op \in Compare}
    \cup {Bin("Add", P, ValConvert(Bin("Add", U(1), U(1)), "u32")), Bin("Add", Bin("Add", U(15), U(1)), P)}
Expressions == Bodies({<<Return(e)>> : e \in Plain \cup Deep})

Branches ==
    Bodies({<<If(c, <<PutE(P)>>, <<PutE(Q)>>)>> : c \in {I(0), I(1), True, False, Bin("Eq", U(1), U(2)), Bin("Eq", U(1), U(1)), P}}
           \cup {<<Match(e, <<<<"lit", "1">>, <<>>>>, <<<<PutE(P)>>, <<Return(Q)>>>>)>> :
                    e \in {U(1), U(2), Bin("Sub", U(2), U(1)), P, Bin("Div", U(2), I(0))}}
           \cup {<<Match(e, <<<<"Kind", "On">>, <<>>>>, <<<<PutE(P)>>, <<Return(Q)>>>>)>> : e \in {I(0), U(1)}})

-----------------------------------------------------------------------------
(* Guards and what they guard, loads and lengths thrown away, tags. *)
Load(k) == Expr(Get(k))
Guarded(k, b) == If(HasKey(k), b, <<>>)
Hole == UnknownVal
Husks ==
    Bodies(SeqsOf({Expr(HasKey(Admin)), Guarded(Admin, <<Load(Admin)>>), Guarded(Admin, <<Let("var_1", Get(Admin))>>),
                   Guarded(Admin, <<Load(Admin), Expr(Panic)>>), Load(Admin), Expr(Panic), PutE(P),
                   Expr(Un("RequireAuth", Hole)), Expr(Un("RequireAuth", Admin)), Return(Admin)}, 3))
Lost ==
    Bodies(SeqsOf({Expr(Len_), Expr(At(P)), Load(Total_), PutE(Hole), If(Bin("Gt", Hole, P), <<PutE(Q)>>, <<>>),
                   PutE(Bin("Add", Hole, Hole)), Expr(Call(P)), PutE(Call(P)),
                   Expr(Method(Call(P), "len", <<>>))}, 3))
    \cup Valued_(SeqsOf({Expr(Len_), Expr(At(P)), Load(Total_), Expr(CollectionNew("Map")), PutE(P)}, 2))
    \cup {[body |-> b, valued |-> FALSE, preserve |-> TRUE] :
             b \in SeqsOf({Expr(HasKey(Admin)), Expr(Method(A, "address", <<>>)), PutE(P)}, 2)}
TagIs(op, e, tag) == Bin(op, Un("ValTag", e), Leaf("ValTagName", tag))
Tags ==
    Bodies(SeqsOf({If(TagIs("Ne", P, "U32Val"), <<Expr(Panic)>>, <<>>), If(TagIs("Eq", P, "U32Val"), <<PutE(P)>>, <<>>),
                   If(TagIs("Ne", V, "VecObject"), <<Expr(Panic)>>, <<>>),
                   If(Bin("Ne", Hole, U(69)), <<Expr(Panic)>>, <<>>), If(Bin("Ne", Hole, U(3)), <<Expr(Panic)>>, <<>>),
                   Let("var_1", Call(P)), PutE(V1),
                   Loop(<<If(TagIs("Ne", P, "U32Val"), <<Break>>, <<>>), PutE(P)>>)}, 3))

-----------------------------------------------------------------------------
(* Bindings. *)
Bindings_ ==
    Bodies(SeqsOf({Let("var_1", Get(Admin)), Let("var_2", Get(Admin)), PutE(V1), Expr(Set(Admin, P)),
                   PutE(Bin("Add", V2, V2)), Let("var_2", Bin("Add", V1, U(1))), Let("var_1", Bin("Add", P, Q)),
                   Let("var_3", Call(P)), PutE(V3),
                   If(Less, <<PutE(V1)>>, <<Let("var_3", P), PutE(V3)>>)}, 3))
    \cup Bodies({<<Let("var_1", Get(Admin))>> \o mid \o <<Let("var_2", Get(Admin)), PutE(V1), PutE(V2)>> :
                    mid \in SeqsOf({Expr(Set(Admin, P)), Expr(Set(Total_, P)), Expr(Call(P)), PutE(Call(P)),
                                   If(Less, <<Expr(Set(Admin, P))>>, <<>>), Let("var_1", Get(Total_))}, 1)})
Mutables ==
    Bodies(SeqsOf({LetMut("var_1", P), Assign("var_1", Bin("Add", V1, U(1))), Let("var_2", V1), PutE(V1), PutE(V2),
                   LetMut("var_3", U(0)), Assign("var_3", V1), Return(V3),
                   If(Less, <<Assign("var_3", Call(Q))>>, <<>>),
                   Loop(<<If(Bin("Eq", V3, U(2)), <<Break>>, <<>>), PutE(V1), Assign("var_3", Bin("Add", V3, U(1)))>>)}, 3))

Conversions ==
    LET cap == Let("var_1", ValConvert(Field(C, "cap"), "u32"))
    IN  Bodies(SeqsOf({cap, Let("var_3", ValConvert(Field(C, "cap"), "i64")), PutE(ValConvert(V2, "u32")),
                       Expr(Call(ValConvert(V2, "i64"))), PutE(ValConvert(V1, "u32")), Let("var_2", P)}, 3))
Selfs ==
    LET vec(es) == Node("VecConstruct", <<>>, es)  tuple(es) == Node("TupleConstruct", <<>>, es)
    IN  Bodies(SeqsOf({Expr(Call(P)), Expr(Field(C, "cap")), Let("var_1", V1), Let("var_1", tuple(<<V1>>)), Let("var_1", vec(<<V1, P>>)),
                       Let("var_1", ValConvert(V1, "u32")), LetMut("var_1", P), Assign("var_1", V1), PutE(V1), PutE(V2)}, 3))
Unbound_ ==
    Bodies(SeqsOf({Expr(Call(P)), Expr(Field(C, "cap")), PutE(V1), PutE(Bin("Add", V2, V1)), Expr(Panic), Let("var_1", P),
                   If(Less, <<PutE(V2)>>, <<>>)}, 3))
Names_ ==
    Bodies(SeqsOf({Let("var_1", Call(P)), Let("var_1", Get(Total_)), LetMut("var_2", P),
                   Assign("var_2", Bin("Add", V2, V1)), PutE(Bin("Add", V1, V2)), PutE(Bin("Shl", V2, U(1))),
                   If(Less, <<Let("var_3", Field(C, "cap")), PutE(Bin("Add", V3, V3)), PutE(V1)>>, <<PutE(V2)>>),
                   Let("cap", P), PutE(NamedLocal("cap")), PutE(Un("Some", V1))}, 3))
Counted ==
    LET exit(x) == If(x, <<Break>>, <<>>)
        step(k) == Assign("var_3", Bin("Add", V3, U(k)))
        loops == {Loop(<<exit(Bin("Eq", V3, U(n)))>> \o b) : n \in {0, 2, 3}, b \in
                    {<<PutE(V3), step(1)>>, <<PutE(V3), step(2)>>, <<PutE(V1), step(1), Continue>>, <<step(1), PutE(V3)>>,
                     <<If(Less, <<Continue>>, <<>>), PutE(V3), step(1)>>, <<If(Less, <<step(1)>>, <<>>), PutE(V3), step(1)>>,
                     <<PutE(V3), Assign("var_3", Bin("Sub", V3, U(1)))>>}}
    IN  Bodies({<<LetMut("var_3", U(k))>> \o mid \o <<l>> \o post : k \in {0, 1}, l \in loops,
                    mid \in {<<>>, <<PutE(P)>>, <<If(Less, <<Assign("var_3", Call(P))>>, <<>>)>>, <<PutE(V3)>>},
                    post \in {<<>>, <<PutE(V3)>>, <<Return(P)>>}})

AllPrograms == Expressions \cup Branches \cup Husks \cup Lost \cup Tags \cup Bindings_ \cup Mutables
    \cup Conversions \cup Selfs \cup Unbound_ \cup Names_ \cup Counted

(* Bodies that do not end as they were lifted: a use below a shift, which  *)
(* the rename misses; two equal bindings; a call used in a branch.  The    *)
(* last two take a round more than the first, which is shown first.        *)
Shifted == <<LetMut("var_2", P), PutE(Bin("Shl", V2, U(1)))>>
Equal   == <<Let("var_1", Bin("Add", P, Q)), Let("var_2", Bin("Add", P, Q)),
             PutE(Bin("Add", V1, V1)), PutE(Bin("Add", V2, V2))>>
Moved   == <<Let("var_1", Call(P)), If(Bin("Ne", Less, I(1)), <<PutE(V1)>>, <<>>)>>
Misled == Bodies({Shifted, Equal, Moved})
=============================================================================
