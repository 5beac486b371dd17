--------------------------- MODULE MCCorrectness ---------------------------
(* Bodies of up to three statements over one alphabet for each of the      *)
(* passes' concerns, in functions with an integer p and an address a.      *)
EXTENDS CorrectnessSoundness

OneFn(ret) == [params |-> <<<<"p", "U32">>, <<"a", "Address">>>>, ret |-> ret]
One == IntLit("1")   Zero == IntLit("0")
P == Param("p")      A == Param("a")
V1 == Local("var_1") V2 == Local("var_2")
Key(n) == Enum("DataKey", "Balance", <<n>>)
Err1   == ContractError("E1")
MapNew == CollectionNew("Map")
Call   == Invoke("Val", A, Symbol("f"), <<>>)
Unit   == <<"Kind", "On">>
W      == [args |-> <<<<"p", <<"int", 1>>>>, <<"a", <<"handle", "a">>>>>>, store |-> {}, ans |-> <<>>]
Admin  == <<"handle", "admin">>
Ws == {W,
       [W EXCEPT !.args[1][2] = <<"int", 0>>, !.ans = <<<<"int", 2>>, <<"int", 0>>>>,
                 !.store = {<<<<"Symbol", <<"k">>>>, Admin>>}],
       [W EXCEPT !.ans = <<<<"enum", Unit, <<>>>>, <<"enum", <<"Kind", "Off">>, <<>>>>>>,
                 !.store = {<<<<"Symbol", <<"k">>>>, <<"int", 2>>>>,
                            <<<<"vec", <<<<"Symbol", <<"Balance">>>>, <<"handle", "a">>>>>>, <<"int", 3>>>>}]}

SeqsUpTo(S, n) == UNION {[1..k -> S] : k \in 0..n}
K == Symbol("k")

Void  == OneFn(<<>>)
Table == OneFn(<<"Map">>)
Num   == OneFn(<<"U32">>)
Ok128 == OneFn(<<"Result", "U128">>)
OkUnit == OneFn(<<"Result", "()">>)

(* Names: bound, unbound, bound to a hole, shadowed, in loops and arms. *)
Scopes == SeqsUpTo({Let("var_1", UnknownVal), Let("var_2", V1), Assign("var_1", P),
                    Assign("var_2", Bin("Shl", V1, One)), Let("var_1", Bin("Add", V1, One)),
                    If(Bin("Gt", P, Zero), <<Assign("var_1", Zero), Expr(Set(K, V1))>>,
                       <<Let("var_2", P), Assign("var_1", V2)>>),
                    For("var_2", Zero, P, <<Expr(Set(K, V2)), Break>>),
                    Match(Call, <<<<"Kind", "Some", "var_1">>, <<>>>>, <<<<Expr(Set(K, V1))>>, <<Break>>>>),
                    Expr(Set(K, Bin("Sub", P, V2))), Return(V1)}, 3)

(* Error values and handles used as what they are not. *)
Broken == SeqsUpTo({Let("var_1", Field(Err1, "f")), Expr(Method(Un("PanicWithError", Err1), "get", <<Call>>)),
                    If(Bin("Ne", A, Zero), <<Expr(Panic)>>, <<>>), Expr(Set(K, V1)),
                    If(Bin("Eq", Zero, P), <<Return(Un("Try", Field(Panic, "f")))>>, <<Break>>),
                    Loop(<<If(Bin("Ne", Zero, Bin("Add", P, One)), <<Break>>, <<>>), Expr(Set(K, One)), Continue>>)}, 3)

(* Loads: discarded, authorised, bound and used or not; and empty maps. *)
Loads == SeqsUpTo({Expr(Get(K)), Expr(GetOption(K)), Expr(Un("RequireAuth", Get(K))), Let("var_1", Get(K)),
                   Let("var_1", MapNew), Let("var_2", Enum("Box", "Of", <<GetOption(K)>>)),
                   Expr(Method(MapNew, "keys", <<>>)), Expr(Set(K, Method(V1, "len", <<>>))),
                   Return(V1), Expr(MapNew), Expr(Set(K, V2)),
                   If(Node("StorageHas", <<>>, <<K>>), <<Expr(Get(K))>>, <<Return(MapNew)>>)}, 3)

(* Values returned: wrong literals, errors, early and in branches. *)
Results == SeqsUpTo({Return(Bool("false")), Return(One), Expr(Bool("true")), Return(Err1),
                     Expr(ValConvert(Symbol("s"), "u128")), Expr(Un("PanicWithError", Err1)),
                     If(Bin("Gt", P, Zero), <<Return(Err1)>>, <<>>),
                     If(Bin("Gt", P, Zero), <<Return(P)>>, <<Return(Bool("false"))>>),
                     For("var_1", Zero, P, <<Expr(Set(K, V1))>>),
                     Expr(Set(K, Zero)), ReturnVoid, Let("var_1", Un("Try", Node("StorageGet", <<"error", "E1">>, <<K>>))),
                     Expr(Node("StorageGet", <<"error", "E1">>, <<K>>)), Return(V1)}, 2)

(* Handles moved into keys. *)
Moves == SeqsUpTo({Expr(Set(Key(A), One)), Expr(Node("StorageExtendTtl", <<>>, <<Key(A)>>)),
                   If(Node("StorageHas", <<>>, <<Key(A)>>), <<Let("var_1", Get(Key(A)))>>, <<Return(One)>>),
                   Expr(Set(K, Enum("Pair", "Of", <<Key(A), A>>))), Expr(Set(K, Enum("Num", "Of", <<P>>))),
                   Loop(<<Expr(Set(Key(A), P)), Break>>), Loop(<<Expr(Set(Key(A), One))>>),
                   Let("var_3", Un("Try", Node("StorageGet", <<"error", "E1">>, <<Key(A)>>))), Let("var_2", Un("Some", Key(A)))}, 3)

(* Forms of the text: merged lets, while loops, if/else-if chains. *)
KindIs(v) == <<"Kind", v>>
Texts == {LetMut("var_1", e) : e \in {Zero, Call}}
         \X ({If(Bin("Gt", P, Zero), <<Assign("var_1", One)>>, b) : b \in {<<>>, <<Assign("var_1", V1)>>, <<Expr(Set(K, One))>>}}
             \cup {Match(e, <<KindIs("On"), q>>, <<<<Assign("var_1", One)>>, b>>) :
                      e \in {Call, V2}, q \in {KindIs("Off"), <<>>}, b \in {<<>>, <<Assign("var_1", P)>>}}
             \cup {Loop(<<If(c, <<Break>>, <<>>), Assign("var_1", Bin("Add", V1, One))>>) :
                      c \in {Bin(op, V1, One) : op \in Compare} \cup {Un("Not", Bin("Lt", V1, One)),
                                                                  Bin("And", Bool("true"), Bin("Gt", V1, Zero))}})
         \X {Expr(Set(K, V1)), Assign("var_1", Bin("Add", V1, P)), Expr(V1), Return(V1),
             Match(V2, <<KindIs("On"), KindIs("Off")>>, <<<<Return(One)>>, <<Expr(V1)>>>>),
             Match(V2, <<<<>>, KindIs("On")>>, <<<<Return(P)>>, <<Expr(V1)>>>>),
             Match(V2, <<KindIs("On"), <<>>>>, <<<<Let("var_3", V1), Expr(Local("var_3"))>>, <<Expr(P)>>>>)}
TextBodies == {<<Let("var_2", Call)>> \o b : b \in Texts}

(* What the imports and the report look at. *)
GetOr(miss) == Node("StorageGet", <<"default">>, <<K, miss>>)
GetOrMap    == Node("StorageGet", <<"empty">>, <<K>>)
Vec(es)     == Node("VecConstruct", <<>>, es)
Noted == {Expr(Set(K, e)) : e \in {Vec(<<ValConvert(K, "Symbol"), K>>), Vec(<<One, A>>), Vec(<<One, Panic>>), Vec(<<K, Zero>>),
                                   GetOr(Leaf("Bytes", "b")), GetOrMap, Method(A, "to_xdr", <<>>), Symbol("long"),
                                   Un("Some", Leaf("String", "s")), Bin("Add", Panic, One), Node("CyclicSlot", <<>>, <<>>),
                                   Node("RawHostCall", <<"0", "f">>, <<P>>), Node("RawHostCall", <<"buf", "f">>, <<P>>),
                                   CastAs(One, "Vec<u32"), Method(CollectionNew("Bytes"), "len", <<>>), UnknownVal}}
         \cup {Expr(GetOrMap), Expr(GetOr(One)), Let("var_1", GetOrMap), Let("var_2", MapNew), Expr(Method(Local("var_2"), "keys", <<>>)),
               If(Bin("Gt", P, Zero), <<Expr(Set(K, Node("CyclicSlot", <<>>, <<>>)))>>, <<Expr(Un("RequireAuth", GetOrMap))>>),
               Return(GetOrMap), Return(Invoke("Val", A, Symbol("long"), <<UnknownVal>>)), Expr(Invoke("U32", A, UnknownVal, <<P>>)),
               Expr(Un("PanicWithError", Err1)), Return(Bin("Eq", Panic, One))}
Notes == SeqsUpTo(Noted, 2)
Bare  == [params |-> <<<<"p", "U32">>>>, ret |-> <<>>]
BareNum == [Bare EXCEPT !.ret = <<"U32">>]
OkBool  == OneFn(<<"Result", "Bool">>)

AllPrograms ==
    ({Bare, BareNum, Num, OkBool, OkUnit} \X Notes) \cup
    ({Void} \X Scopes) \cup ({Num} \X Broken) \cup ({Void, Table} \X Loads)
    \cup ({Void, Num, Ok128, OkUnit} \X Results) \cup ({Num, Ok128} \X Moves)
    \cup ({Void, Num} \X TextBodies)
=============================================================================
