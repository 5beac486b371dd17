----------------------------- MODULE MCPipeline -----------------------------
(* Lifted bodies for each group of repairs: sources of one or two          *)
(* statements, as they were compiled, and what the lifter may have lost or *)
(* left of them.                                                           *)
EXTENDS PipelineSoundness

TheRegistry ==
    [structs |-> [Config |-> <<<<"admin", "Address">>, <<"cap", "U32">>>>,
                  Memo   |-> <<<<"note", "Option">>, <<"sum", "U32">>>>,
                  Curve  |-> <<<<"fp", "BytesN48">>, <<"fp2", "BytesN96">>>>,
                  Pair   |-> <<<<"low", "U32">>, <<"high", "U32">>>>],
     unions  |-> [DataKey |-> <<<<"Admin", <<>>>>, <<"Balance", <<"Address">>>>, <<"Nonce", <<"U32">>>>>>,
                  Kind    |-> <<<<"On", <<>>>>, <<"Of", <<"U32">>>>, <<"Lvl", <<"Level">>>>, <<"Both", <<"Pair">>>>>>],
     enums   |-> {"Level"},
     bytes   |-> <<"1", "2">> :> "b",
     snake   |-> [Admin |-> "admin", Balance |-> "balance", Nonce |-> "p", Pair |-> "pair", Config |-> "config"],
     events  |-> <<[symbols |-> {"moved"}, name |-> "moved", topics |-> <<"from">>, data |-> <<"sum">>,
                    addresses |-> {"from"}]>>,
     named   |-> {<<"balance", "Balance">>}]

(* The parameters, by name, and three worlds. *)
TypeOfParam == [p |-> "U32", q |-> "U32", b |-> "I128", a |-> "Address", m |-> "MuxedAddress", k |-> "Kind",
                c |-> "Config", x |-> "Pair", s |-> "Symbol", v |-> "Vec", l |-> "Bool",
                g |-> "Curve", h |-> "Kind"]
Sig(names, ret) == [name |-> "f", params |-> [i \in DOMAIN names |-> <<names[i], TypeOfParam[names[i]]>>],
                    ret |-> ret, hostCalls |-> TRUE, wrapperPanics |-> FALSE, takesEnv |-> TRUE,
                    paramBase |-> 1, wideKeys |-> {}, hints |-> NoHints]
N(n) == <<"int", n>>
PairVal(lo, hi) == <<"struct", "Pair", <<"low", "high">>, <<N(lo), N(hi)>>>>
KindVal(v, vs) == <<"enum", <<"Kind", v>>, vs>>
ArgsOf(p, q, who, kind, other, sym) ==
    <<<<"p", N(p)>>, <<"q", N(q)>>, <<"b", N(3)>>, <<"a", <<"handle", who>>>>, <<"m", <<"handle", "mux">>>>,
      <<"k", kind>>, <<"c", <<"struct", "Config", <<"admin", "cap">>, <<<<"handle", "boss">>, N(4)>>>>>>,
      <<"x", PairVal(p, q)>>, <<"s", <<"Symbol", <<sym>>>>>>, <<"v", <<"vec", <<N(2), N(p)>>>>>>,
      <<"l", BoolVal(p = 1)>>, <<"h", other>>,
      <<"g", <<"struct", "Curve", <<"fp", "fp2">>, <<<<"Bytes", <<"low">>>>, <<"Bytes", <<"high">>>>>>>>>>>>
KeyVal(v, vs) == Encoded(<<"enum", <<"DataKey", v>>, vs>>)
Cfg == <<<<"Symbol", <<"cfg">>>>, <<"struct", "Config", <<"admin", "cap">>, <<<<"handle", "boss">>, N(3)>>>>>>
Ws == <<[args |-> ArgsOf(1, 2, "a", KindVal("On", <<>>), KindVal("Of", <<N(2)>>), "k"), ans |-> <<N(2), N(1)>>,
         store |-> {<<KeyVal("Admin", <<>>), <<"handle", "boss">>>>, Cfg}],
       [args |-> ArgsOf(0, 3, "a", KindVal("Of", <<N(4)>>), KindVal("Lvl", <<N(3)>>), "long"), ans |-> <<N(3)>>,
        store |-> {<<KeyVal("Balance", <<<<"handle", "a">>>>), N(2)>>, <<Encoded(KindVal("Of", <<N(4)>>)), N(1)>>}],
       [args |-> ArgsOf(2, 1, "z", KindVal("Both", <<PairVal(1, 2)>>), KindVal("Of", <<N(1)>>), "k"), ans |-> <<N(0)>>,
        store |-> {<<KeyVal("Admin", <<>>), <<"handle", "z">>>>, Cfg,
                   <<KeyVal("Nonce", <<N(2)>>), N(3)>>, <<KeyVal("Balance", <<<<"handle", "z">>>>), N(0)>>}]>>

One == IntLit("1")   Zero == IntLit("0")   Two == IntLit("2")
P == Param("p")  Q == Param("q")  A == Param("a")  K == Param("k")  V == Param("v")  C == Param("c")
Admin == Enum("DataKey", "Admin", <<>>)
Bal(who) == Enum("DataKey", "Balance", <<who>>)
V1 == Local("var_1")  V2 == Local("var_2")  V3 == Local("var_3")
None_ == Node("None", <<>>, <<>>)
Put1 == Expr(Set(Symbol("t"), One))
SeqsOf(S, n) == UNION {[1..i -> S] : i \in 1..n}

Whole(fns, bodies) == {[fn |-> f, source |-> b, lifted |-> b] : f \in fns, b \in bodies}
From(f, was, forms) == {[fn |-> f, source |-> was, lifted |-> t] : t \in forms}
(* One node of a kind turned into something else. *)
Losses(b, ops, G(_)) == {ReplaceFirst(b, e, G(e)) : e \in {e \in ToSet(NodeSeq(b)) : e.op \in ops}}
Lossy(fns, bodies, ops, G(_)) ==
    UNION {From(f, b, Losses(b, ops, G)) : f \in fns, b \in bodies}
Lost(e) == UnknownVal

-----------------------------------------------------------------------------
(* Before the optimizer. *)
TagCheck(op, n, tag, then) == If(Bin(op, Un("ValTag", Param(n)), Leaf("ValTagName", tag)), <<then>>, <<>>)
Tags == Whole({Sig(<<"v", "s", "p">>, <<>>)},
    SeqsOf({TagCheck("Ne", "v", "VecObject", Expr(Panic)), TagCheck("Ne", "s", "SymbolSmall", Expr(Panic)),
            TagCheck("Eq", "s", "SymbolSmall", Put1), TagCheck("Eq", "p", "U32Val", ReturnVoid), Put1}, 3))

Raise(v) == Expr(Un("PanicWithError", ContractError(v)))
At(e) == Method(V, "get", <<e>>)
I == NamedLocal("i")
Sorted(then) == <<For("i", One, Method(V, "len", <<>>),
                      <<If(Bin("Gt", At(Bin("Sub", I, One)), At(I)), <<Raise("TokensNotSorted")>>, <<>>),
                        If(Bin("Eq", At(Bin("Sub", I, One)), At(I)), <<Raise("DuplicatesNotAllowed")>>, <<>>)>> \o then),
                  Put1>>
Tokens == UNION {From(Sig(<<"v">>, <<>>), Sorted(t), {Sorted(t)} \cup Losses(Sorted(t), {"Sub"}, Lost)) : t \in {<<>>, <<Put1>>}}

Guards == From(Sig(<<"p">>, <<>>), <<Put1>>,
               {<<If(Bin("Eq", P, UnknownVal), <<Return(r)>>, <<>>), Put1>> : r \in {P, Panic}})

Decoded(inner) == <<Match(K, <<<<"Kind", "On">>, <<"Kind", "Of", "_">>, <<"Kind", "Lvl", "_">>, <<"Kind", "Both", "_">>>>,
                         <<<<Expr(Enum("Kind", "On", <<>>))>>, inner, <<Expr(Symbol("Lvl"))>>, <<Expr(Symbol("Both"))>>>>)>>
Identity ==
    From(Sig(<<"k">>, <<"Kind">>), <<Return(K)>>,
         {Decoded(b) : b \in {<<Expr(Symbol("Of"))>>, <<Expr(Enum("Kind", "Of", <<Method(K, "get", <<One>>)>>))>>}})
    \cup From(Sig(<<"k">>, <<"Kind">>), Decoded(<<Expr(Enum("Kind", "On", <<>>))>>),
              {Decoded(<<Expr(Enum("Kind", "On", <<>>))>>)})
    \cup From([Sig(<<"p">>, <<"U32">>) EXCEPT !.hostCalls = FALSE], <<Return(P)>>, {<<>>})
    \cup From(Sig(<<"x">>, <<"Pair">>), <<Return(Param("x"))>>,
              {<<Return(Struct("Pair", <<"low", "high">>, <<Field(Param("x"), "low"), Field(Param("x"), "high")>>))>>})
    \cup Whole({Sig(<<"x">>, <<"Pair">>)},
               {<<Return(Struct("Pair", <<"low", "high">>, <<Field(Param("x"), "high"), Field(Param("x"), "low")>>))>>})
    \cup From(Sig(<<"l">>, <<"Bool">>), <<Return(Param("l"))>>, {<<Return(Bool("true"))>>})
    \cup Whole({Sig(<<"l">>, <<"Bool">>)}, {<<Return(Bool("true"))>>})
    \cup From(Sig(<<"v">>, <<"Vec">>), <<Return(V)>>,
              {<<Return(Node("VecConstruct", <<>>, <<Method(V, "get", <<Zero>>), Method(V, "get", <<One>>)>>))>>})

Gated(then) == If(Bin("Gt", P, Zero), then, <<>>)
Traps ==
    From(Sig(<<"p">>, <<"U32">>), <<Return(P)>>, {<<Return(P), Expr(Panic)>>, <<Loop(<<Expr(P)>>)>>, <<Expr(P), Expr(Panic)>>})
    \cup From(Sig(<<"p">>, <<>>), <<>>, {<<Expr(Panic)>>})
    \cup UNION {From([Sig(<<"p">>, r) EXCEPT !.wrapperPanics = TRUE], t \o <<Expr(Panic)>>, {t}) :
                    r \in {<<>>, <<"U32">>}, t \in {<<Put1>>, <<Gated(<<ReturnVoid>>)>>, <<Put1, Expr(Panic)>>}}
    \cup Whole({Sig(<<"p">>, r) : r \in {<<>>, <<"U32">>}},
               {<<Put1>>, <<Put1, Expr(Panic)>>, <<Gated(<<Expr(Panic)>>)>>,
                <<Gated(<<Expr(Panic)>>), Expr(Panic)>>, <<Expr(Panic)>>})

-----------------------------------------------------------------------------
(* Stages 4b to 4e. *)
Call(ty, n) == Invoke(ty, A, Symbol("f"), <<n>>)
Tails ==
    Whole({Sig(<<"a", "p">>, r) : r \in {<<>>, <<"U32">>, <<"Result", "U32">>}},
          {<<Expr(Call("Val", P))>>, <<Gated(<<Return(Call("Val", P))>>), Expr(P)>>,
           <<If(Bin("Gt", P, Zero), <<Expr(Call("Val", P))>>, <<Return(Call("Val", One))>>)>>,
           <<Return(Node("TryInvokeContract", <<"Val">>, <<A, Symbol("f"), P>>))>>})
    \cup From(Sig(<<"v">>, <<"U32">>), <<Expr(Method(At(Zero), "unwrap", <<>>))>>, {<<Expr(At(Zero))>>, <<Return(At(Zero))>>})
    \cup Whole({Sig(<<"v">>, <<"Option">>)}, {<<Return(At(Zero))>>})

Fold(acc) == Bin("VecTryIterFold", V, acc)
KindArms(of) == <<Match(K, <<<<"Kind", "Of", "n">>, <<>>>>, <<of, <<Assign("var_3", Zero)>>>>)>>
Folded(e) == <<LetMut("var_3", Zero)>> \o KindArms(<<Assign("var_3", Fold(Zero))>>) \o <<Return(e)>>
Folds_ == From(Sig(<<"k", "v">>, <<"U32">>), Folded(V3),
               {Folded(Bin("Add", Field(K, "0"), V3)), Folded(ValConvert(Bin("Add", Bin("Add", Field(K, "0"), V3), Zero), "u32"))})
          \cup Whole({Sig(<<"k", "v">>, <<"U32">>)}, {Folded(Bin("Add", V3, One))})

G == Param("g")
Curve(m, e) == Expr(Set(Symbol(m), Method(Leaf("Env", "env"), m, <<e>>)))
Memory == Node("RawHostCall", BytesNewFromMemory, <<Zero, Two>>)
Curves == Lossy({Sig(<<"g", "p">>, <<>>)},
                SeqsOf({Curve("map_fp_to_g1", Field(G, "fp")), Curve("map_fp2_to_g2", Field(G, "fp2")),
                        Curve("map_fp_to_g1", Leaf("Bytes", "b"))}, 3),
                {"FieldAccess", "Bytes"}, LAMBDA e : Memory)
Data == Lossy({Sig(<<"p">>, <<>>)}, {<<Expr(Set(Symbol("t"), Leaf("Bytes", e)))>> : e \in {"b", "c"}}, {"Bytes"},
              LAMBDA e : Node("RawHostCall", BytesNewFromMemory, IF e.at = <<"b">> THEN <<One, Two>> ELSE <<Zero, Two>>))

NoBinding(t) == [i \in DOMAIN t |-> IF t[i].k = "Match" THEN [t[i] EXCEPT !.pats[1][3] = "_"] ELSE t[i]]
Payload(e) == MapExpr(LAMBDA n : IF n = NamedLocal("n") THEN Method(K, "get", <<One>>)
                                 ELSE IF n = NamedLocal("o") THEN Method(Param("h"), "get", <<One>>) ELSE n, Nothing, e)
Bare_(t) == MapStmts(Payload, [i \in DOMAIN t |-> LET u == NoBinding(t)[i] IN
                [u EXCEPT !.bodies = [j \in DOMAIN @ |-> NoBinding(@[j])]]])
OfArms(e, n, b) == <<Match(e, <<<<"Kind", "Of", n>>, <<>>>>, <<b, <<Put1>>>>)>>
Arms == {OfArms(K, "n", b) : b \in SeqsOf({Expr(Set(Symbol("t"), NamedLocal("n"))), Put1}, 2)
            \cup {OfArms(Param("h"), "o", <<Expr(Set(Symbol("t"), e))>>) :
                      e \in {NamedLocal("n"), NamedLocal("o"), Bin("Add", NamedLocal("n"), NamedLocal("o"))}}}
Payloads == UNION {From(Sig(<<"k", "h">>, <<>>), b, {b, Bare_(b)}) : b \in Arms}

Dispatch(arm(_), first, e, z, last) ==
    LET pats == <<<<"Kind", "On">>, <<"Kind", "Of", "n">>, <<"Kind", "Lvl", "n">>, last>>
        arms == <<arm(None_), arm(e), arm(None_), arm(z)>>
    IN  <<Match(K, SubSeq(pats, first, 4), SubSeq(arms, first, 4))>>
Wrapped ==
    UNION {From(Sig(<<"k", "a">>, <<"Result", "Option">>), Dispatch(LAMBDA x : <<Return(x)>>, 1, e, z, last),
                {Dispatch(LAMBDA x : <<Expr(x)>>, i, e, z, last) : i \in {1, 2}}) :
        e \in {GetOption(Bal(A)), ContractError("E")}, z \in {GetOption(Admin), None_},
        last \in {<<"Kind", "Both", "n">>, <<>>}}

Memos == LET noted(n) == {<<Expr(Set(Symbol("t"), Struct("Memo", <<"note", "sum">>, <<n, P>>)))>>,
                          <<Expr(Node("PublishEvent", <<>>, <<Symbol("x"), Struct("Memo", <<"note", "sum">>, <<n, P>>)>>))>>}
         both == noted(None_) \cup noted(Un("Some", P))
     IN  Lossy({Sig(<<"p">>, <<>>)}, both, {"None", "Some"}, Lost)
         \cup Lossy({Sig(<<"p">>, <<>>)}, noted(None_), {"None"}, LAMBDA e : VoidVal)

(* Keys. *)
Ttl(k, e) == Expr(Node("StorageExtendTtl", <<>>, <<k, e, One>>))
Has_(k, then) == If(Node("StorageHas", <<>>, <<k>>), then, <<>>)
KindKeys == {<<Match(K, <<<<"Kind", "On">>, <<>>>>, <<b, <<Expr(Get(K))>>>>)>> :
                b \in {<<Expr(Get(K))>>, <<Expr(Get(Admin))>>, <<>>, <<Expr(Set(K, P)), Expr(Get(K))>>}}
ArmKeys == Lossy({Sig(<<"k", "p">>, <<"U32">>)}, KindKeys, {"StorageGet", "StorageSet"},
                 LAMBDA e : [e EXCEPT !.kids[1] = UnknownVal])
           \cup {[fn |-> Sig(<<"k", "p">>, <<"U32">>), source |-> b, lifted |-> [b EXCEPT ![1].bodies[1] = <<>>]] : b \in KindKeys}
TtlKeys == Lossy({Sig(<<"a">>, <<>>)}, SeqsOf({Has_(Admin, <<Ttl(Admin, One)>>), Has_(Bal(A), <<Ttl(Admin, One), Put1>>), Ttl(Admin, One)}, 2),
                 {"StorageExtendTtl"}, LAMBDA e : [e EXCEPT !.kids[1] = UnknownVal])
Until == Bin("Sub", Two, LedgerSeq)
Cut == Bin("Sub", Two, UnknownVal)
Ledgers == From(Sig(<<"a">>, <<>>), <<Ttl(Admin, Until)>>, {<<Expr(LedgerSeq), Ttl(Admin, Cut)>>})
    \cup From(Sig(<<"a">>, <<>>), <<Put1, Ttl(Admin, Until)>>, {<<Expr(LedgerSeq), Put1, Ttl(Admin, Cut)>>})
    \cup From(Sig(<<"a", "p">>, <<>>), <<Gated(<<Ttl(Admin, Until)>>)>>, {<<Gated(<<Expr(LedgerSeq), Ttl(Admin, Cut)>>)>>})
    \cup From(Sig(<<"a">>, <<>>), <<Ttl(Admin, Until), Ttl(Admin, Until)>>,
              {<<Expr(LedgerSeq), Expr(LedgerSeq), Ttl(Admin, Cut), Ttl(Admin, Cut)>>})

(* What runs were seen to do: everything, or the first thing only. *)
AllSeen(b) ==
    LET nodes(ops) == SelectSeq(NodeSeq(b), LAMBDA e : e.op \in ops)
        all(ops, F(_)) == [i \in DOMAIN nodes(ops) |-> F(nodes(ops)[i])]
    IN  [storage |-> all(KeyedOps, LAMBDA e : e.kids[1]),
         events  |-> all({"PublishEvent"}, LAMBDA e : <<Front(e.kids), Spelt(Last(e.kids))>>),
         auth    |-> all({"RequireAuthForArgs"}, LAMBDA e : <<<<e.kids[1]>>, e.kids[2]>>),
         invokes |-> all(InvokeOps, LAMBDA e : <<e.kids[2]>>)]
Hinted(b, all) == [k \in DOMAIN NoHints |-> LET seen == AllSeen(b)[k] IN
                      IF all \/ seen = <<>> THEN ToSet(seen) ELSE {seen[1]}]
SeenAs(programs) == {[x EXCEPT !.fn.hints = h] : x \in programs, h \in {NoHints}}
                    \cup {[x EXCEPT !.fn.hints = Hinted(x.source, all)] : x \in programs, all \in BOOLEAN}
Ev(n, e) == Expr(Node("PublishEvent", <<>>, <<Symbol(n), One, e>>))
Args(e)  == Node("VecConstruct", <<>>, <<e>>)
AuthFor(e) == Expr(Bin("RequireAuthForArgs", A, Args(e)))
Seen == SeenAs(
    Lossy({Sig(<<"p">>, <<>>)}, SeqsOf({Expr(Set(Symbol("t"), P)), Expr(Set(Symbol("u"), P)), Has_(Symbol("t"), <<Put1>>)}, 2),
          {"StorageSet", "StorageHas"}, LAMBDA e : [e EXCEPT !.kids[1] = UnknownVal])
    \cup Lossy({Sig(<<"p">>, <<>>)}, SeqsOf({Ev("e", Two), Ev("f", Node("TupleConstruct", <<>>, <<Zero, Two>>)), Put1}, 2),
               {"Int", "Symbol", "TupleConstruct"}, Lost)
    \cup Lossy({Sig(<<"a", "p">>, <<"U32">>)}, {<<Let("var_3", Invoke("u32", A, Symbol(n), <<P>>)), Return(Invoke("u32", A, Symbol("g"), <<V3>>))>> :
                                                  n \in {"g", "o"}}, {"Symbol"}, LAMBDA e : V2)
    \cup Lossy({Sig(<<"a", "p">>, <<>>)}, SeqsOf({AuthFor(One), AuthFor(Two)}, 2), {"Param", "Int", "VecConstruct"}, Lost))

Units == From(Sig(<<"v", "p">>, <<"Result", "()">>), <<Gated(<<Put1>>)>>, {<<Gated(<<Put1>>), Expr(Method(V, "len", <<>>))>>})
Options == From(Sig(<<"a">>, <<"Option">>), <<Return(GetOption(Bal(A)))>>,
                {<<Return(Get(Bal(A)))>>, <<Has_(Admin, <<Return(Get(Bal(A)))>>), Return(Get(Bal(A)))>>})

Before == ArmKeys \cup TtlKeys \cup Ledgers \cup Seen \cup Units \cup Options
    \cup Tails \cup Folds_ \cup Curves \cup Data \cup Payloads \cup Wrapped \cup Memos \cup Tags \cup Tokens \cup Guards \cup Identity \cup Traps

-----------------------------------------------------------------------------
(* Stages 4f to 4p: operands. *)
PutT(e) == Expr(Set(Symbol("t"), e))
PutU(e) == Expr(Set(Symbol("u"), e))
H == Param("h")  B == Param("b")  S == Param("s")  X == Param("x")
Swap(F(_), t) == MapStmts(LAMBDA e : MapExpr(F, Nothing, e), t)

(* The parameters as the wasm locals they are in, from the first one on. *)
InSlots(t, b) == Swap(LAMBDA e : IF e = P THEN Local(VarName(b)) ELSE IF e = Q THEN Local(VarName(b + 1)) ELSE e, t)
Operands ==
    LET was(b) == {<<PutT(P), PutU(Q)>>, <<PutT(Q)>>, <<PutT(P), Let("var_1", Two), PutU(V1)>>,
                   <<LetMut(VarName(b), P), PutU(Q)>>, <<LetMut("var_2", P), Assign("var_2", Two), PutT(V2)>>,
                   <<Gated(<<PutT(P)>>), PutU(Bin("Add", P, Q))>>,
                   <<For("i", Zero, Two, <<PutT(P)>>), PutU(Un("Some", Q))>>}
    IN  UNION {UNION {From([Sig(<<"p", "q">>, <<>>) EXCEPT !.paramBase = c[1]], t, {InSlots(t, c[2])}) :
                         t \in was(c[2])} : c \in {<<1, 1>>, <<0, 0>>, <<1, 0>>}}

Envs == Whole({Sig(<<"p", "a">>, <<"Bytes">>)}, {<<Return(Method(P, "to_xdr", <<>>))>>})
    \cup Whole({Sig(<<"p">>, <<"Symbol">>)}, {<<Return(Symbol(s))>> : s \in {"long", "t"}})
        \cup Whole({Sig(<<"p", "a", "s">>, <<"Symbol">>)},
                   {<<Expr(Bin("RequireAuthForArgs", A, P)), Return(S)>>, <<Expr(Un("RequireAuth", A)), Return(S)>>, <<Return(S)>>})

Unused ==
    LET f == Sig(<<"a", "b">>, <<>>)
        twice == {<<Expr(Call("i128", B)), PutT(B)>>, <<Let("var_3", Call("i128", B)), PutT(B)>>}
        once  == {<<Expr(Call("i128", B))>>, <<PutT(B)>>}
        real  == {<<Expr(Call("i128", One))>>, <<PutT(One)>>}
    IN  Lossy({f}, once \cup twice, {"Param"}, LAMBDA e : IF e = B THEN UnknownVal ELSE e)
        \cup Lossy({f}, once, {"Param"}, LAMBDA e : IF e = B THEN Two ELSE e)
        \cup Whole({f}, real)

CapLet  == Let("var_2", ValConvert(Field(C, "cap"), "u32"))
LowLet  == Let("var_3", ValConvert(Field(X, "low"), "u32"))
CallWith(e) == Expr(Call("Val", ValConvert(e, "u32")))
Converted_ ==
    LET f == Sig(<<"a", "c", "x">>, <<>>)
        bodies == {<<CapLet, CallWith(V2)>>, <<CapLet, LowLet, CallWith(V3)>>, <<LowLet, CallWith(V3), CapLet>>,
                   <<CapLet, Let("var_1", P), CallWith(V1)>>}
    IN  Lossy({f}, bodies, {"Local"}, LAMBDA e : Local("var_4"))
        \cup Whole({f}, {<<CapLet, CallWith(NamedLocal("var_2"))>>})

OfKind(on, of) == Match(K, <<<<"Kind", "On">>, <<"Kind", "Of", "n">>, <<"Kind", "Lvl", "n">>, <<"Kind", "Both", "n">>>>,
                        <<<<on>>, <<of>>, <<of>>, <<on>>>>)
GetArms == OfKind(Expr(Get(Admin)), Expr(Get(Admin)))
Held == NamedLocal("held")
Promoted ==
    LET f == Sig(<<"k", "v">>, <<"Address">>)
    IN  From(f, <<GetArms>>, {<<Let("held", e), GetArms, Return(Held)>> : e \in {One, Method(V, "get", <<Zero>>)}}
                             \cup {<<GetArms, Return(Held)>>})
        \cup Whole({f}, {<<Let("held", Get(Admin)), GetArms, Return(Held)>>})

Casts ==
    LET arms(n, e) == <<LetMut("out", Zero),
                        Match(H, <<<<"Kind", "Lvl", n>>, <<>>>>, <<<<Assign("out", e)>>, <<Assign("out", One)>>>>),
                        Return(NamedLocal("out"))>>
        f == Sig(<<"h", "p">>, <<"I64">>)
    IN  UNION {From(f, arms("val", e), {arms("_", UnknownVal)}) : e \in {NumberOf, P}}

Artifacts ==
    LET big == Let("var_3", IntLit("300"))
        arm(e) == Match(K, <<<<"Kind", "Of", "_">>, <<>>>>, <<<<e>>, <<Put1>>>>)
    IN  Whole({Sig(<<"k">>, <<"U32">>)},
              {<<big, arm(Return(V3)), Return(One)>>, <<big, arm(Return(Bin("Add", V3, One))), Return(One)>>,
               <<big, arm(PutU(V3)), Return(V3)>>, <<big, arm(PutU(V3)), Return(One)>>})

Sums ==
    LET arms(e) == <<Match(K, <<<<"Kind", "Both", "pair">>, <<>>>>, <<<<Return(e)>>, <<Return(One)>>>>)>>
        low == Field(NamedLocal("pair"), "low")
    IN  UNION {From(Sig(<<"k">>, <<"U32">>), arms(e), {arms(NamedLocal("pair"))}) :
                  e \in {low, Bin("Add", low, Field(NamedLocal("pair"), "high"))}}

Moved(who, sum) == {Expr(Node("PublishEvent", <<>>, <<Node("TupleConstruct", <<>>, <<Symbol("moved"), who>>), d>>)) :
                       d \in {Node("VecConstruct", <<>>, <<sum>>), Struct("moved", <<"sum">>, <<sum>>)}}
Events ==
    LET moved == {<<s>> : s \in UNION {Moved(A, sum) : sum \in {P, Two}}}
        muxed == UNION {From(Sig(<<"m", "p">>, <<>>), <<Expr(Node("PublishEvent", <<"moved">>,
                     <<Struct("moved", <<"from", "sum">>, <<Method(Param("m"), "address", <<>>), P>>)>>))>>,
                     {<<s>>}) : s \in Moved(Param("m"), P)}
    IN  muxed \cup Whole({Sig(<<"a", "p">>, <<>>)}, moved)
        \cup Lossy({Sig(<<"a", "p">>, <<>>)}, moved, {"Param", "Int"}, LAMBDA e : Local("var_9"))

Early == Operands \cup Envs \cup Unused \cup Converted_ \cup Promoted \cup Casts \cup Artifacts \cup Sums \cup Events

-----------------------------------------------------------------------------
(* Stages 4m to 4m7: keys, and what has the wrong type. *)
Vec_(es)   == Node("VecConstruct", <<>>, es)
Tuple_(es) == Node("TupleConstruct", <<>>, es)
Spellings ==
    LET f == Sig(<<"a", "p">>, <<"U32">>)
        was(k) == <<Return(Get(k))>>
        pair(v, e) == {Vec_(<<Symbol(v), e>>), Tuple_(<<Symbol(v), e>>)}
        spelt(es) == {<<Return(Get(e))>> : e \in es}
    IN  From(f, was(Bal(A)), spelt(pair("Balance", A)) \cup {<<Let("sym", Symbol("Balance")), Return(Get(e))>> :
                                                                e \in {Vec_(<<NamedLocal("sym"), A>>), Tuple_(<<NamedLocal("sym"), A>>)}})
        \cup From(f, was(Enum("DataKey", "Nonce", <<P>>)), spelt(pair("Nonce", P)))
        \cup From(Sig(<<"a">>, <<"Address">>), was(Admin), spelt({Symbol("Admin"), Vec_(<<Symbol("Admin")>>)}))
        \cup From(f, <<Let("sym", Symbol("Balance")), PutT(Get(Bal(A))), Let("sym", Symbol("Nonce")), Return(One)>>,
                  {<<Let("sym", Symbol("Balance")), PutT(Get(Vec_(<<NamedLocal("sym"), A>>))), Let("sym", Symbol("Nonce")), Return(One)>>})
        \cup Whole({Sig(<<"a">>, <<>>)}, {<<PutT(Symbol("Admin"))>>, <<Expr(Set(Symbol("cfg"), Symbol("t")))>>})

AtInstance(e) == Node("StorageSet", <<"Instance">>, <<e, P>>)
Instances ==
    Lossy({Sig(<<"a", "p">>, <<>>)}, {<<Expr(AtInstance(Bal(A)))>>}, {"Param"}, LAMBDA e : IF e = A THEN UnknownVal ELSE e)
    \cup From(Sig(<<"p">>, <<>>), <<Expr(AtInstance(Admin))>>, {<<Expr(AtInstance(Bal(UnknownVal)))>>})
    \cup From(Sig(<<"p">>, <<>>), <<Let("key", Admin), Expr(Set(NamedLocal("key"), P))>>,
              {<<Let("key", Bal(UnknownVal)), Expr(Set(NamedLocal("key"), P))>>})

Mistyped_ ==
    LET cfg(who, cap) == Struct("Config", <<"admin", "cap">>, <<who, cap>>)
        was == <<Expr(Set(Symbol("cfg"), cfg(A, P)))>>
        put(e) == <<Expr(Set(Symbol("cfg"), e))>>
    IN  From(Sig(<<"a", "p">>, <<>>), was, {put(cfg(One, P)), put(cfg(A, Symbol("t"))), put(cfg(cfg(A, P), P)), was})
        \cup From(Sig(<<"a", "p">>, <<>>), <<Expr(Set(Bal(A), P))>>,
                  {<<Expr(Set(Bal(One), P))>>, <<Expr(Set(Enum("DataKey", "Balance", <<>>), P))>>, <<Expr(Set(Bal(A), P))>>})

IndexOf(x, y) == Method(x, "first_index_of", <<y>>)
Indices ==
    LET f == Sig(<<"v", "p">>, <<"Bool">>)
        form(m, y) == <<Return(Method(IndexOf(V, y), m, <<>>))>>
        cmp(op, y) == {<<Return(Bin(op, IndexOf(V, y), Two))>>, <<Return(Bin(op, Two, IndexOf(V, y)))>>}
    IN  UNION {From(f, form("is_none", y), cmp("Eq", y)) \cup From(f, form("is_some", y), cmp("Ne", y)) : y \in {P, One}}
        \cup From(f, <<PutT(P)>> \o form("is_none", P), {<<PutT(P)>> \o t : t \in cmp("Eq", P)})
        \cup From(f, form("is_none", P), cmp("Eq", UnknownVal))

RawReads == Whole({Sig(<<"v", "p">>, <<>>)},
                  {<<PutT(Node("RawHostCall", at, <<V, Zero>>))>> : at \in {<<"Map", "map_key_by_pos">>, <<"Buf", "bytes_front">>}}
                  \cup {<<Expr(Node("RawHostCall", <<"Map", "map_put">>, <<V, Zero>>))>>})

Adopted(x) == <<LetMut("kept", x), Has_(Bal(A), <<Assign("kept", Get(Bal(A)))>>), Return(NamedLocal("kept"))>>
Defaults == From(Sig(<<"a">>, <<"U32">>), Adopted(Zero), {Adopted(Bal(A)), Adopted(Zero)})

Switched(x, y) == {<<LetMut("ok", x), Gated(<<Assign("ok", y)>>), Return(NamedLocal("ok"))>>,
                   <<LetMut("ok", x), Gated(<<LetMut("ok", x), Assign("ok", y)>>), Return(NamedLocal("ok"))>>}
Bools ==
    LET f == Sig(<<"p", "a">>, <<"Bool">>)
        has == Node("StorageHas", <<>>, <<Admin>>)
        asInts(t) == Swap(LAMBDA e : IF e.op = "Bool" THEN NumberOfBool(e) ELSE e, t)
    IN  UNION {From(f, t, {t, asInts(t)}) : t \in Switched(Bool("false"), has) \cup Switched(has, Bool("true"))
                                                   \cup Switched(Bool("true"), Bin("Gt", P, One))}

Typing == Spellings \cup Instances \cup Mistyped_ \cup Indices \cup RawReads \cup Defaults \cup Bools

-----------------------------------------------------------------------------
(* Stages 4n to 4y. *)
NumberBools ==
    LET f == Sig(<<"p">>, <<"U32">>)
    IN  UNION {From(f, <<Gated(<<Return(Zero)>>), Return(n)>>, {<<Gated(<<Return(Bool("false"))>>), Return(e)>>}) :
                  n \in {One}, e \in {Bool("true"), ValConvert(Bool("true"), "u32")}}
        \cup Whole({Sig(<<"p">>, <<"Bool">>)}, {<<Return(Bool("true"))>>})
StoredBools == From(Sig(<<"p">>, <<>>), <<PutT(One)>>, {<<PutT(Bool("true"))>>})
    \cup From(Sig(<<"p">>, <<>>), <<PutT(Struct("Pair", <<"low", "high">>, <<One, P>>))>>,
              {<<PutT(Struct("Pair", <<"low", "high">>, <<Bool("true"), P>>))>>})
    \cup Whole({Sig(<<"l">>, <<>>)}, {<<PutT(Bool("true"))>>, <<PutT(Param("l"))>>})

Voids ==
    LET f == Sig(<<"p", "a">>, <<>>)
        load == Let("var_3", Get(Bal(A)))
    IN  From(f, <<Put1>>, {<<Put1, Return(e)>> : e \in {P, Tuple_(<<P, One>>), Local("var_9")}})
        \cup From(f, <<Put1>>, {<<Let("var_3", P), Put1, Return(V3)>>, <<Put1, Expr(P)>>})
        \cup From(f, <<load>>, {<<load, Return(V3)>>, <<Return(Get(Bal(A)))>>})
        \cup From(f, <<load, PutT(V3)>>, {<<load, PutT(V3), Return(V3)>>})
        \cup From(f, <<If(Bin("Gt", P, Zero), <<>>, <<Put1>>)>>, {<<Gated(<<Return(P)>>), Put1>>})

Tuples_ == From(Sig(<<"p", "q">>, <<"Tuple2">>), <<Return(Tuple_(<<P, Q>>))>>,
                {<<Return(Vec_(<<P, Q>>))>>, <<Expr(Vec_(<<Leaf("Env", "env"), P, Q>>))>>})
           \cup Whole({Sig(<<"p", "q">>, <<"Vec">>)}, {<<Return(Vec_(<<P, Q>>))>>})

Wides ==
    LET f == Sig(<<"a", "b">>, <<"I128">>)
        read == Get(Bal(A))
        sum(x) == Bin("Add", x, B)
    IN  From(f, <<Return(sum(CastAs(read, "i128")))>>, {<<Return(sum(read))>>})
        \cup From(f, <<PutT(CastAs(read, "i128")), Return(sum(CastAs(read, "i128")))>>, {<<PutT(read), Return(sum(read))>>})
        \cup From([f EXCEPT !.wideKeys = {Bal(A)}], <<Return(CastAs(read, "i128"))>>, {<<Return(read)>>})
        \cup From(f, <<Return(sum(Call("i128", B)))>>, {<<Return(sum(Call("Val", B)))>>})

Partials ==
    LET both(e) == Struct("Pair", <<"low", "high">>, <<Field(X, "low"), e>>)
    IN  From(Sig(<<"x">>, <<>>), <<PutT(X)>>, {<<PutT(both(e))>> : e \in {UnknownVal, V2, Field(X, "high")}})
        \cup From(Sig(<<"x">>, <<>>), <<PutT(both(One))>>, {<<PutT(both(UnknownVal))>>})

Unpack(n) == Expr(Node("RawHostCall", <<"Map", "map_unpack_to_linear_memory">>, <<Get(Symbol("cfg")), IntLit(n)>>))
CfgField(f) == <<Return(Field(Get(Symbol("cfg")), f))>>
Getters ==
    LET has(then) == <<Has_(Symbol("cfg"), then)>>
        named(n, ret) == [Sig(<<>>, ret) EXCEPT !.name = n]
    IN  From(named("config", <<"Config">>), <<Return(Get(Symbol("cfg")))>>, {has(<<Unpack("2")>>), has(<<Expr(Get(Symbol("cfg")))>>)})
        \cup From(named("cap", <<"U32">>), CfgField("cap"), {has(<<Unpack("2")>>)})
        \cup From(named("admin", <<"Address">>), CfgField("admin"), {has(<<Unpack("2")>>)})
        \cup From(Sig(<<"p">>, <<"U32">>), has(<<Expr(Get(Symbol("cfg")))>>) \o <<Return(P)>>,
                  {has(<<Expr(Get(Symbol("cfg")))>>) \o <<Return(P)>>})

Balances ==
    LET f == [Sig(<<"a">>, <<"U32">>) EXCEPT !.name = "balance"]
        get == Node("StorageGet", <<"unwrap", "Persistent">>, <<Bal(A)>>)
    IN  From(f, <<Return(get)>>, {<<>>, <<Return(UnknownVal)>>, <<Has_(Bal(A), <<Expr(V2)>>)>>, <<Return(get)>>})
        \cup From(f, <<Ttl(Bal(A), One), Return(get)>>, {<<Ttl(Bal(A), One), Return(UnknownVal)>>})

Orphaned ==
    LET load == Expr(Get(Bal(A)))
    IN  Whole({Sig(<<"a">>, <<>>)},
              {<<load, Put1>>, <<Let("balance", One), load, PutT(NamedLocal("balance"))>>,
               <<Let("key", Admin), Expr(Get(NamedLocal("key")))>>})

CfgLet == Let("config", Get(Symbol("cfg")))
LostKeys ==
    LET cap(e) == PutT(Field(e, "cap"))
    IN  From(Sig(<<"p">>, <<>>), <<CfgLet, cap(NamedLocal("config"))>>, {<<CfgLet, cap(Get(UnknownVal))>>})
        \cup From(Sig(<<"p">>, <<>>), <<CfgLet, cap(Get(Symbol("other")))>>, {<<CfgLet, cap(Get(UnknownVal))>>})

Shadows ==
    LET leftover == Let("p", Symbol("t"))
    IN  From(Sig(<<"p">>, <<>>), <<PutT(P)>>, {<<leftover, PutT(P)>>, <<PutT(P), leftover>>, <<PutT(P)>>})
        \cup Whole({Sig(<<"p">>, <<>>)}, {<<leftover, PutT(NamedLocal("p"))>>})

GuardedGets ==
    LET guarded(k, rest) == If(Node("StorageHas", <<>>, <<k>>), <<Expr(Get(k))>> \o rest, <<>>)
        was(k, zero) == <<If(Node("StorageHas", <<>>, <<k>>),
                             <<Let("value", Get(k)), Ttl(k, One), Return(NamedLocal("value"))>>, <<Return(zero)>>)>>
        keyed(inner) == <<Let("key", Bal(A)),
                          guarded(NamedLocal("key"), <<Let("key", inner), Ttl(NamedLocal("key"), One)>>)>>
    IN  From(Sig(<<"a">>, <<"U32">>), was(Bal(A), Zero), {<<guarded(Bal(A), <<Ttl(Bal(A), One)>>)>>})
        \cup From(Sig(<<"a">>, <<"U32">>), <<Let("key", Bal(A))>> \o was(NamedLocal("key"), Zero),
                  {keyed(inner) : inner \in {Bal(A), Admin}})

KeyAuths ==
    LET form(who) == <<Let("key", Admin), Let("admin", Get(NamedLocal("key"))), Expr(Un("RequireAuth", who))>>
        event(e)  == <<Let("key", Admin), Let("admin", Get(NamedLocal("key"))),
                       Expr(Node("PublishEvent", <<>>, <<Symbol("e"), e, One>>))>>
    IN  From(Sig(<<"p">>, <<>>), form(NamedLocal("admin")), {form(NamedLocal("key"))})
        \cup From(Sig(<<"p">>, <<>>), event(NamedLocal("admin")), {event(NamedLocal("key"))})
        \cup Whole({Sig(<<"p">>, <<>>)}, {event(NamedLocal("key"))})

Published_ ==
    LET publish(d) == <<Expr(Node("PublishEvent", <<>>, <<Symbol("e"), A, d>>))>>
        pair(x) == Struct("Pair", <<"low", "high">>, <<x, P>>)
    IN  Lossy({Sig(<<"a", "p">>, <<>>), Sig(<<"a", "p", "q">>, <<>>)},
              {publish(P), publish(ValConvert(P, "u32")), publish(pair(Two)), publish(Tuple_(<<P, Two>>))},
              {"Param", "Int"}, LAMBDA e : IF e = P THEN V2 ELSE Local("var_9"))
        \cup Lossy({Sig(<<"a", "p">>, <<>>)}, {publish(P)}, {"Param"}, Lost)

Late == NumberBools \cup StoredBools \cup Voids \cup Tuples_ \cup Wides \cup Partials \cup Getters \cup Balances
    \cup Orphaned \cup LostKeys \cup Shadows \cup GuardedGets \cup KeyAuths \cup Published_

AllPrograms == Before \cup Early \cup Typing \cup Late
=============================================================================
