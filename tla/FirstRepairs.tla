---------------------------- MODULE FirstRepairs ----------------------------
(* What run_to_ir makes of a whole body around the optimizer.  Before it,  *)
(* and on a void body right behind it: the router's check of its token     *)
(* list, tests of a type's tag that cannot fail, guards of a lost decoder. *)
(* Then functions that check an argument and return it, loops and panics   *)
(* that are traps of the build, bodies whose value was lost.  A signature  *)
(* is [params, ret, hostCalls, wrapperPanics].  The Codegen module says    *)
(* what ret is.                                                            *)
EXTENDS Codegen

(* A statement anywhere in which both errors are raised and a vector       *)
(* parameter is read is the check that the list is sorted and unique.      *)
RaisedIn(s, variant) ==         \* the first panic_with_error of that variant
    SelectSeq(InOrder(<<s>>), LAMBDA x : x.k = "Expr" /\ x.es[1] = Un("PanicWithError", ContractError(variant)))
SearchedOps == {"MethodCall", "Gt", "Lt", "Ge", "Le", "Eq", "Ne", "Sub", "Add", "Not", "RawHostCall"}
RECURSIVE VecReads(_)
VecReads(e) ==
    IF e.op = "MethodCall" /\ e.at[1] = "get" /\ e.kids[1].op = "Param" THEN <<NameOf(e.kids[1])>>
    ELSE IF e.op \notin SearchedOps THEN <<>>
    ELSE FlattenSeq([i \in DOMAIN e.kids |-> VecReads(e.kids[i])])
ValidatedVec(s) ==
    LET read == SelectSeq(InOrder(<<s>>), LAMBDA x : x.k # "For")
    IN  FlattenSeq([i \in DOMAIN read |-> FlattenSeq([j \in DOMAIN read[i].es |-> VecReads(read[i].es[j])])])
IsTokenSortValidation(s) ==
    /\ RaisedIn(s, "TokensNotSorted") # <<>> /\ RaisedIn(s, "DuplicatesNotAllowed") # <<>>
    /\ ValidatedVec(s) # <<>>
SortedCheck(v) ==
    LET i == NamedLocal("i")
        at(x) == Method(Param(v), "get", <<x>>)
        raise(op, variant) == If(Bin(op, at(Bin("Sub", i, IntLit("1"))), at(i)),
                                 <<Expr(Un("PanicWithError", ContractError(variant)))>>, <<>>)
    IN  For("i", IntLit("1"), Method(Param(v), "len", <<>>),
            <<raise("Gt", "TokensNotSorted"), raise("Eq", "DuplicatesNotAllowed")>>)
RECURSIVE RecoverTokensSortedValidation(_)
RecoverTokensSortedValidation(t) ==
    [i \in DOMAIN t |->
        IF IsTokenSortValidation(t[i]) THEN SortedCheck(Head(ValidatedVec(t[i])))
        ELSE [t[i] EXCEPT !.bodies = [j \in DOMAIN @ |-> RecoverTokensSortedValidation(@[j])]]]

-----------------------------------------------------------------------------
(* <param>.get_tag() == Tag::T where the parameter's type has no other tag. *)
UniqueValTag_Symbols == [Address |-> "AddressObject", Vec |-> "VecObject", Map |-> "MapObject",
                         Bytes |-> "BytesObject", BytesN |-> "BytesObject", String |-> "StringObject",
                         U32 |-> "U32Val", I32 |-> "I32Val", Symbol |-> "SymbolSmall"]
UniqueValTag == [Address |-> "AddressObject", Vec |-> "VecObject", Map |-> "MapObject",
                 Bytes |-> "BytesObject", BytesN |-> "BytesObject", String |-> "StringObject",
                 U32 |-> "U32Val", I32 |-> "I32Val"]
TagCheckIsTautology(a, b, params) ==
    \E p \in ToSet(params) :
        /\ p[2] \in DOMAIN UniqueValTag
        /\ {a, b} = {Un("ValTag", Param(p[1])), Leaf("ValTagName", UniqueValTag[p[2]])}
RECURSIVE FoldTagGuards(_, _)
FoldTagGuards(e, params) ==
    LET f == [e EXCEPT !.kids = [i \in DOMAIN @ |-> FoldTagGuards(@[i], params)]] IN
    IF e.op \in {"Eq", "Ne"} /\ TagCheckIsTautology(f.kids[1], f.kids[2], params)
    THEN Bool(IF e.op = "Eq" THEN "true" ELSE "false")
    ELSE IF e.op \in {"Eq", "Ne", "Not", "And", "Or"} THEN f ELSE e
RECURSIVE FoldTautologicalTagGuards(_, _)
FoldTautologicalTagGuards(t, params) ==         \* not the bounds of a for
    [i \in DOMAIN t |->
        [t[i] EXCEPT !.es = [j \in DOMAIN @ |-> IF t[i].k = "For" THEN @[j] ELSE FoldTagGuards(@[j], params)],
                     !.bodies = [j \in DOMAIN @ |-> FoldTautologicalTagGuards(@[j], params)]]]

-----------------------------------------------------------------------------
(* In a void function: if <something lost> { return <value> }, without else. *)
IsLostDecodeGuard(s) ==
    /\ s.k = "If" /\ s.bodies[2] = <<>>
    /\ Len(s.bodies[1]) = 1 /\ ReturnsValue(s.bodies[1][1])
    /\ UnknownVal \in Nodes(s.es[1], Nothing)
RECURSIVE DropVoidUnknownGuards(_)
DropVoidUnknownGuards(t) ==
    LET kept == SelectSeq(t, LAMBDA s : ~ IsLostDecodeGuard(s))
    IN  [i \in DOMAIN kept |->
            [kept[i] EXCEPT !.bodies = [j \in DOMAIN @ |-> DropVoidUnknownGuards(@[j])]]]

-----------------------------------------------------------------------------
IsVoid(ret) == ~ HasReturnType(ret)
PanicStmt   == Expr(Panic)
IsPanicking(s) == s.k = "Expr" /\ s.es[1].op \in {"Panic", "PanicWithError"}

RECURSIVE Bare(_)
Bare(e) == IF e.op = "ValConvert" THEN Bare(e.kids[1]) ELSE e
RECURSIVE Transparent(_)
Transparent(e) == IF e.op \in {"ValConvert", "SretResult"} THEN Transparent(e.kids[1]) ELSE e

(* The first parameter of the type that is returned. *)
PassthroughParam(fn) ==
    LET i == IF Len(fn.ret) # 1 THEN 0 ELSE SelectInSeq(fn.params, LAMBDA p : p[2] = fn.ret[1])
    IN  IF i = 0 THEN {} ELSE {fn.params[i][1]}
Returned(n) == <<Return(Param(n))>>

-----------------------------------------------------------------------------
(* fn f(v: E) -> E { v } for an enum: decode v, match on it, encode each   *)
(* variant again.                                                          *)
ReadMethods == {"get", "len", "first_unchecked", "first", "last", "is_empty"}
RECURSIVE IsReadOnly(_, _, _)
IsReadOnly(e, param, variant) ==        \* variant: <<>>, or <<the arm's own>>
    LET kidsToo == \A i \in DOMAIN e.kids : IsReadOnly(e.kids[i], param, variant) IN
    CASE e.op \in {"Int", "Bool", "String", "Bytes", "Void", "None", "Env", "ValTagName"} -> TRUE
      [] e.op = "Param"  -> NameOf(e) = param
      [] e.op = "Symbol" -> variant = e.at
      [] e.op \in {"Some", "Not", "ValTag", "And", "Or", "ValConvert", "FieldAccess", "TupleConstruct",
                   "VecConstruct"} \cup Compare \cup (Arith \ {"Shl"}) -> kidsToo
      [] e.op = "MethodCall"    -> e.at[1] \in ReadMethods /\ kidsToo
      [] e.op = "EnumConstruct" -> variant = <<e.at[2]>> /\ kidsToo
      [] OTHER -> FALSE

RECURSIVE IsBenign(_, _, _)
IsBenign(s, param, variant) ==
    \/ /\ s.k = "If" /\ s.bodies[2] = <<>>
       /\ IsReadOnly(s.es[1], param, variant)
       /\ \A x \in ToSet(s.bodies[1]) : IsPanicking(x)
    \/ s.k \in {"Let", "Expr", "Return"} /\ \A e \in ToSet(s.es) : IsReadOnly(e, param, variant)
    \/ s.k \in {"Break", "Continue"}
    \/ s.k \in {"Loop", "Block"} /\ \A x \in ToSet(s.bodies[1]) : IsBenign(x, param, variant)

OwnVariant(pat) == IF pat = <<>> THEN <<>> ELSE <<pat[2]>>
IsEnumRoundtrip(t, param) ==
    LET matches == SelectSeq(t, LAMBDA s : s.k = "Match")
    IN  /\ Len(matches) = 1
        /\ matches[1].es[1] = Param(param) /\ matches[1].bodies # <<>>
        /\ \A s \in ToSet(t) : s.k # "Match" => IsBenign(s, param, <<>>)
        /\ \A i \in DOMAIN matches[1].bodies :
               \A s \in ToSet(matches[1].bodies[i]) : IsBenign(s, param, OwnVariant(matches[1].pats[i]))
RecoverEnumRoundtrip(fn, t) ==
    IF \E n \in PassthroughParam(fn) : IsEnumRoundtrip(t, n)
    THEN Returned(CHOOSE n \in PassthroughParam(fn) : TRUE) ELSE t

(* After the optimizer: an empty body without host calls, and a body that  *)
(* only takes its argument apart and puts it together.                     *)
RecoverPassthrough(fn, t) ==
    IF t = <<>> /\ ~ fn.hostCalls /\ PassthroughParam(fn) # {}
    THEN Returned(CHOOSE n \in PassthroughParam(fn) : TRUE) ELSE t

IsGetAt(e, n, i) == e = Method(Param(n), "get", <<IntLit(i)>>)
IsIdentityGet(e, n) ==
    \/ IsGetAt(e, n, "0")
    \/ /\ e.op \in {"TupleConstruct", "VecConstruct"} /\ e.kids # <<>>
       /\ \A i \in DOMAIN e.kids : IsGetAt(Bare(e.kids[i]), n, ToString(i - 1))
IsIdentityStruct(e, n) ==
    /\ e.op = "StructConstruct" /\ e.kids # <<>>
    /\ \A i \in DOMAIN e.kids : LET f == Bare(e.kids[i])
                                IN  f.op = "FieldAccess" /\ f.kids[1] = Param(n)
IsIdentityBool(e, ret) == e.op = "Bool" /\ ret = <<"Bool">>
RecoverReconstruction(fn, t) ==
    IF /\ Len(t) = 1 /\ t[1].k \in {"Expr", "Return"} /\ t[1].es # <<>>
       /\ \E n \in PassthroughParam(fn) :
              \/ IsIdentityGet(t[1].es[1], n) \/ IsIdentityStruct(t[1].es[1], n)
              \/ IsIdentityBool(t[1].es[1], fn.ret)
    THEN Returned(CHOOSE n \in PassthroughParam(fn) : TRUE) ELSE t

-----------------------------------------------------------------------------
(* Loops and panics. *)
UnwrapArtifactLoop(fn, t) ==
    IF fn.ret # <<>> /\ Len(t) = 1 /\ t[1].k = "Loop" /\ Len(t[1].bodies[1]) = 1
       /\ t[1].bodies[1][1].k = "Expr"
    THEN t[1].bodies[1] ELSE t
DropTrailingPanic(fn, t) ==
    IF fn.ret # <<>> /\ Len(t) >= 2 /\ Last(t) = PanicStmt THEN Front(t) ELSE t
DropVoidPanic(fn, t) == IF t = <<PanicStmt>> /\ IsVoid(fn.ret) THEN <<>> ELSE t
AppendWrapperPanic(fn, t) ==
    IF /\ fn.wrapperPanics /\ ~ (t = <<>> /\ IsVoid(fn.ret))
       /\ \A s \in ToSet(t) : ~ IsPanicking(s)
    THEN Append(t, PanicStmt) ELSE t

(* Nothing but guards that panic, in a function that returns a value. *)
RECURSIVE IsPanicGuard(_)
IsPanicGuard(s) ==
    \/ IsPanicking(s)
    \/ s.k = "If" /\ s.bodies[2] = <<>> /\ s.bodies[1] # <<>> /\ \A x \in ToSet(s.bodies[1]) : IsPanicGuard(x)
IsPanicGuardShell(t) ==
    (\A s \in ToSet(t) : IsPanicGuard(s)) /\ (\E s \in ToSet(t) : s.k = "If")
IsUnrecovered(e) == e.op \in {"UnknownVal", "CyclicSlot", "RawHostCall"}
StubPanicShell(fn, t) ==
    IF ~ IsVoid(fn.ret) /\ IsPanicGuardShell(t) /\ ~ Has(t, IsUnrecovered) THEN <<>> ELSE t
StubLonePanic(fn, t) ==
    IF fn.hostCalls /\ ~ IsVoid(fn.ret) /\ t = <<PanicStmt>> THEN <<>> ELSE t
=============================================================================
