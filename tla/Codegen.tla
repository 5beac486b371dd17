------------------------------ MODULE Codegen ------------------------------
(* The Rust text of one function, as codegen writes it from the final      *)
(* body: again a statement list, in which "Semi" is `e;', an "Expr" in     *)
(* last place is the value, Ok and Err are written out, and Cond and       *)
(* MatchOf are the `if' and `match' written as expressions.  ret is <<>>,  *)
(* <<type>> or <<"Result", type>>.                                         *)
EXTENDS IrTree

Semi(e)    == Stmt("Semi", "", <<e>>, <<>>, <<>>)
CompileError == Node("CompileError", <<>>, <<>>)
Todo(what)   == Node("UnknownVal", <<what>>, <<>>)     \* a todo!() with a text of its own
Cond(c, a, b)      == Node("Cond", <<>>, <<c, a, b>>)
MatchOf(e, pats, values) == Node("MatchOf", pats, <<e>> \o values)

UnitOps == {"StorageSet", "StorageRemove", "StorageExtendTtl", "ExtendInstanceAndCodeTtl",
            "RequireAuth", "RequireAuthForArgs", "AuthorizeAsCurrContract", "PublishEvent",
            "Log", "PrngReseed", "Try"}
NoIdent == {"0"}                \* an import name that is no Rust identifier
NoType  == {"Vec<u32"}          \* a cast target that does not parse

-----------------------------------------------------------------------------
(* What the signature asks of the tail. *)
IsResult(ret)    == ret # <<>> /\ ret[1] = "Result"
IsUnitOkType(ty) == ty \in {"Void", "()"}
HasReturnType(ret) == ret # <<>> /\ ret[1] # "Void"

NeedsOkUnitTail(ret, body) ==
    /\ IsResult(ret) /\ IsUnitOkType(ret[2])
    /\ body = <<>> \/ Last(body).k # "Return"

RECURSIVE TailIsUnit(_)
StmtsTailIsUnit(t) == t = <<>> \/ TailIsUnit(Last(t))
TailIsUnit(s) ==
    \/ s.k = "If" /\ (s.bodies[2] = <<>> \/ \A i \in {1, 2} : StmtsTailIsUnit(s.bodies[i]))
    \/ s.k \in {"Loop", "For"}
    \/ s.k = "Block" /\ StmtsTailIsUnit(s.bodies[1])
    \/ s.k = "Expr" /\ s.es[1].op \in UnitOps

NeedsTodoValueTail(ret, body) ==
    /\ HasReturnType(ret)
    /\ ~ (IsResult(ret) /\ IsUnitOkType(ret[2]))
    /\ body # <<>> /\ TailIsUnit(Last(body))

CodegenSynthesizesTail(ret, body) ==
    NeedsOkUnitTail(ret, body) \/ NeedsTodoValueTail(ret, body)

-----------------------------------------------------------------------------
(* Expressions.  What cannot type-check because of a `!' is written as the *)
(* todo!() it amounts to; wrappers without a rendering of their own go.    *)
ScalarClass(e) == IF e.op = "Int" THEN <<IF Len(e.at) = 2 THEN e.at[2] ELSE "u32">>
                  ELSE IF e.op \in Literals \ {"Bytes"} THEN <<e.op>> ELSE <<>>
IsHeterogeneousValVec(es) ==    \* mixed element types: each is written as a Val
    LET typed == {e \in ToSet(es) : e.op \notin {"UnknownVal", "Panic", "PanicWithError", "Env"}}
        known == {ScalarClass(e) : e \in typed} \ {<<>>}
    IN  Cardinality(known) >= 2 \/ (known # {} /\ \E e \in typed : ScalarClass(e) = <<>>)

IsLostOperator(e)   == e.op \in Arith \cup Compare \cup {"Not"} /\ IsNeverRooted(e)
IsLostMember(e)     == e.op \in {"FieldAccess", "MethodCall"} /\ IsNeverRooted(e.kids[1])
IsUnwritableCall(e) == e.op = "RawHostCall" /\ ToSet(e.at) \cap NoIdent # {}
IsUnwritableCast(e) == e.op = "CastAs" /\ e.at[1] \in NoType
IsTransparent(e)    == e.op \in {"ValConvert", "SretResult"} \/ (e.op = "TupleConstruct" /\ Len(e.kids) = 1)

RECURSIVE EmitExpr(_)
EmitExpr(e) ==
    CASE IsLostOperator(e) \/ IsLostMember(e) -> UnknownVal
      [] e.op = "CyclicSlot"                 -> Todo("cyclic frame slot")
      [] IsUnwritableCall(e)                 -> Todo("host call")
      [] IsUnwritableCast(e)                 -> CompileError
      [] IsTransparent(e)                    -> EmitExpr(e.kids[1])
      [] e.op = "VecConstruct" /\ IsHeterogeneousValVec(e.kids) ->
             [e EXCEPT !.at = <<"Val">>, !.kids = [i \in DOMAIN @ |-> EmitExpr(@[i])]]
      [] OTHER -> [e EXCEPT !.kids = [i \in DOMAIN @ |-> EmitExpr(@[i])]]

Flipped_Mirrored == [op \in Compare |-> CASE op = "Eq" -> "Ne" [] op = "Ne" -> "Eq" [] op = "Lt" -> "Gt"
                                          [] op = "Ge" -> "Le" [] op = "Gt" -> "Lt" [] op = "Le" -> "Ge"]
Flipped == [op \in Compare |-> CASE op = "Eq" -> "Ne" [] op = "Ne" -> "Eq" [] op = "Lt" -> "Ge"
                                 [] op = "Ge" -> "Lt" [] op = "Gt" -> "Le" [] op = "Le" -> "Gt"]
NegateCondition(c) ==
    CASE c.op \in Compare -> Bin(Flipped[c.op], EmitExpr(c.kids[1]), EmitExpr(c.kids[2]))
      [] c.op = "Not"     -> EmitExpr(c.kids[1])
      [] c.op = "Bool"    -> Bool(IF c.at[1] = "true" THEN "false" ELSE "true")
      [] OTHER            -> Un("Not", EmitExpr(c))

IsErrorLike(e) == e.op \in {"ContractError", "ErrorFromCode"}
Throws(s) == s.k = "Expr" /\ s.es[1].op = "PanicWithError" /\ s.es[1].kids[1].op = "ContractError"

(* A returned expression of a function that returns a Result. *)
ResultWrapped(e) ==
    IF IsErrorLike(e) THEN Un("Err", EmitExpr(e))
    ELSE IF e.op \in {"Void", "UnknownVal", "CyclicSlot", "Panic"} THEN EmitExpr(e)
    ELSE Un("Ok", EmitExpr(e))

-----------------------------------------------------------------------------
(* `let mut x = init' followed by a match or an if whose every branch does *)
(* nothing but assign x: one let with a match or an if for its value.      *)
AssignsOnly(b, n) == Len(b) = 1 /\ b[1].k = "Assign" /\ b[1].name = n
HasAssignTo(t, n) == \E s \in StmtsOf(t) : s.k = "Assign" /\ s.name = n
CombinesMatch(l, s) ==
    /\ s.k = "Match" /\ s.bodies # <<>>
    /\ \A i \in DOMAIN s.bodies : s.bodies[i] = <<>> \/ AssignsOnly(s.bodies[i], l.name)
CombinesIf(l, s) ==
    /\ s.k = "If" /\ AssignsOnly(s.bodies[1], l.name)
    /\ s.bodies[2] = <<>> \/ AssignsOnly(s.bodies[2], l.name)
Combines(t) ==
    /\ Len(t) > 1 /\ t[1].k = "Let" /\ t[1].pats = <<"mut">>
    /\ CombinesMatch(t[1], t[2]) \/ CombinesIf(t[1], t[2])
    /\ ~ HasAssignTo(SubSeq(t, 3, Len(t)), t[1].name)

Combined(l, s) ==
    LET value(b) == EmitExpr(IF b = <<>> THEN l.es[1] ELSE b[1].es[1])
        values   == [i \in DOMAIN s.bodies |-> value(s.bodies[i])]
    IN  Let(l.name, IF s.k = "If" THEN Cond(EmitExpr(s.es[1]), values[1], values[2])
                    ELSE MatchOf(EmitExpr(s.es[1]), s.pats, values))

(* A match on unit variants becomes an if/else-if chain.  Code follows an  *)
(* else only where the wildcard is not the last arm: that does not parse.  *)
AllUnit(s) == s.pats # <<>> /\ \A i \in DOMAIN s.pats : Len(s.pats[i]) \in {0, 2}

RECURSIVE IfElseChain(_, _, _, _)
IfElseChain(e, pats, bodies, i) ==
    IF i > Len(pats) THEN <<>>
    ELSE LET rest == IfElseChain(e, pats, bodies, i + 1) IN
         CASE pats[i] # <<>>    -> <<If(Bin("Eq", e, Enum(pats[i][1], pats[i][2], <<>>)), bodies[i], rest)>>
           [] i > 1 /\ bodies[i] = <<>> -> rest
           [] rest # <<>>       -> <<Semi(CompileError)>>
           [] OTHER             -> IF i = 1 THEN <<Block(bodies[i])>> ELSE bodies[i]

Compound(s, Gen(_)) ==          \* an If, a Match or a Block, its bodies by Gen
    LET bodies == [i \in DOMAIN s.bodies |-> Gen(s.bodies[i])]
        es     == [i \in DOMAIN s.es |-> EmitExpr(s.es[i])]
    IN  IF s.k = "Match" /\ AllUnit(s) THEN IfElseChain(es[1], s.pats, bodies, 1)[1]
        ELSE [s EXCEPT !.es = es, !.bodies = bodies]

IsWhile(b) ==                   \* loop { if c { break; } .. }
    /\ Len(b) > 1 /\ b[1].k = "If" /\ b[1].bodies = <<<<Break>>, <<>>>>

RECURSIVE EmitList(_, _)
EmitStmt(s, wrap) ==
    CASE wrap /\ Throws(s)          -> Return(Un("Err", EmitExpr(s.es[1].kids[1])))
      [] wrap /\ ReturnsValue(s)    -> Return(ResultWrapped(s.es[1]))
      [] s.k = "Expr"               -> Semi(EmitExpr(s.es[1]))
      [] s.k \in {"If", "Match", "Block"} -> Compound(s, LAMBDA t : EmitList(t, wrap))
      [] s.k = "Loop" /\ IsWhile(s.bodies[1]) ->
             LET b == s.bodies[1]
             IN  Loop(<<If(NegateCondition(b[1].es[1]), <<>>, <<Break>>)>>
                      \o [i \in 1..(Len(b) - 1) |-> EmitList(<<b[i + 1]>>, wrap)[1]])
      [] s.k = "Loop"               -> Loop(EmitList(s.bodies[1], wrap))
      [] OTHER ->                   \* a For falls to the plain generator
             [s EXCEPT !.es = [i \in DOMAIN @ |-> EmitExpr(@[i])],
                       !.bodies = [i \in DOMAIN @ |-> EmitList(@[i], FALSE)]]
EmitList(t, wrap) ==
    IF t = <<>> THEN <<>>
    ELSE IF Combines(t) THEN <<Combined(t[1], t[2])>> \o EmitList(SubSeq(t, 3, Len(t)), wrap)
    ELSE <<EmitStmt(Head(t), wrap)>> \o EmitList(Tail(t), wrap)

(* The last statement as the value of the list. *)
RECURSIVE EmitTailList(_, _)
EmitTail(s, wrap) ==
    CASE wrap /\ Throws(s)       -> <<Expr(Un("Err", EmitExpr(s.es[1].kids[1])))>>
      [] s.k = "Return"          -> IF s.es = <<>> THEN <<>>
                                    ELSE <<Expr(IF wrap THEN ResultWrapped(s.es[1]) ELSE EmitExpr(s.es[1]))>>
      [] s.k = "Expr"            -> <<Expr(EmitExpr(s.es[1]))>>
      [] s.k \in {"If", "Match", "Block"} -> <<Compound(s, LAMBDA t : EmitTailList(t, wrap))>>
      [] OTHER                   -> <<EmitStmt(s, wrap)>>
EmitTailList(t, wrap) ==
    IF t = <<>> THEN <<>> ELSE EmitList(Front(t), wrap) \o EmitTail(Last(t), wrap)

(* generate_contract_fn: the body between the braces. *)
EmitBody(ret, body) ==
    LET okTail   == NeedsOkUnitTail(ret, body)
        todoTail == ~ okTail /\ NeedsTodoValueTail(ret, body)
        plain    == [i \in DOMAIN body |-> EmitStmt(body[i], IsResult(ret))]
        text     == IF HasReturnType(ret) /\ ~ okTail /\ ~ todoTail
                    THEN EmitTailList(body, IsResult(ret)) ELSE plain
    IN  CASE okTail   -> Append(text, Expr(Un("Ok", VoidVal)))
          [] todoTail -> Append(text, Expr(Todo("decompiled return value")))
          [] text = <<>> /\ HasReturnType(ret) -> <<Expr(Todo("decompiled function body"))>>
          [] OTHER    -> text
=============================================================================
