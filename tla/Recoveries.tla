----------------------------- MODULE Recoveries -----------------------------
(* Repairs run_to_ir makes behind the optimizer, when the whole contract   *)
(* is lifted: stages 4b to 4c and 4m3 to 4m7 of pipeline.rs.  The contract *)
(* specification says which shapes are broken and what they must have been.*)
EXTENDS FirstRepairs

CONSTANT Registry       \* [structs |-> name :> <<<<field, type>>, ..>>,
                        \*  unions |-> name :> <<<<variant, <<types>>>>, ..>>,
                        \*  enums |-> {names}, bytes |-> <<ptr, len>> :> bytes]

IsStruct(ty) == ty \in DOMAIN Registry.structs
IsUnion(ty)  == ty \in DOMAIN Registry.unions
FieldNames(ty) == [i \in DOMAIN Registry.structs[ty] |-> Registry.structs[ty][i][1]]
FieldType(ty, f) ==             \* "" for a field the specification does not have
    LET i == SelectInSeq(FieldNames(ty), LAMBDA n : n = f)
    IN  IF i = 0 THEN "" ELSE Registry.structs[ty][i][2]
VariantNames(ty) == [i \in DOMAIN Registry.unions[ty] |-> Registry.unions[ty][i][1]]
PayloadTypes(ty, v) ==
    LET i == SelectInSeq(VariantNames(ty), LAMBDA n : n = v)
    IN  IF i = 0 THEN <<>> ELSE Registry.unions[ty][i][2]

-----------------------------------------------------------------------------
(* 4b, 4b3: what the tail must be. *)
SetInvokeType(e, ret) ==
    CASE e.op = "InvokeContract" /\ ~ IsResult(ret)   -> [e EXCEPT !.at[1] = ret[1]]
      [] e.op = "TryInvokeContract" /\ IsResult(ret) -> [e EXCEPT !.at[1] = ret[2]]
      [] OTHER -> e
SetInvokeReturnTypeInTail(fn, t) ==
    IF fn.ret = <<>> THEN t ELSE MapTail(LAMBDA e : SetInvokeType(e, fn.ret), t)

IsOrWrapsVecGet(e) == LET g == Transparent(e) IN g.op = "MethodCall" /\ g.at[1] = "get"
WrapTailVecGetUnwrap(fn, t) ==
    IF fn.ret = <<>> \/ fn.ret[1] \in {"Option", "Result", "Void"} THEN t
    ELSE MapTail(LAMBDA e : IF IsOrWrapsVecGet(e) THEN Method(e, "unwrap", <<>>) ELSE e, t)

(* 4b3b: a copy of the scrutinee's scalar leads the sum behind a fold.  *)
RECURSIVE ContainsVecFold(_)
ContainsVecFold(e) ==
    \/ e.op = "VecTryIterFold"
    \/ e.op = "Add" /\ \E i \in {1, 2} : ContainsVecFold(e.kids[i])
    \/ e.op = "FieldAccess" /\ ContainsVecFold(e.kids[1])
HasFoldArm(s) ==
    \E b \in ToSet(s.bodies) : \E x \in ToSet(b) :
        x.k \in {"Assign", "Expr", "Let", "Return"} /\ x.es # <<>> /\ ContainsVecFold(x.es[1])
FoldMatchScrutinees(t) ==
    {NameOf(s.es[1]) : s \in {s \in StmtsOf(t) : s.k = "Match" /\ s.es[1].op = "Param" /\ HasFoldArm(s)}}
RECURSIVE StripLeftmostField(_, _)
StripLeftmostField(e, scrutinees) ==
    CASE e.op \in {"ValConvert", "SretResult"} -> [e EXCEPT !.kids[1] = StripLeftmostField(@, scrutinees)]
      [] e.op = "Add" ->
             IF e.kids[1].op = "FieldAccess" /\ e.kids[1].kids[1] \in {Param(n) : n \in scrutinees}
             THEN e.kids[2]
             ELSE [e EXCEPT !.kids[1] = IF @.op = "Add" THEN StripLeftmostField(@, scrutinees) ELSE @]
      [] OTHER -> e
StripLeakedFoldScalar(t) ==
    IF t # <<>> /\ Last(t).k \in {"Return", "Expr"} /\ Last(t).es # <<>>
    THEN [t EXCEPT ![Len(t)].es[1] = StripLeftmostField(@, FoldMatchScrutinees(t))] ELSE t

-----------------------------------------------------------------------------
(* 4b4: a raw read of memory where a curve point is hashed: the only field *)
(* of that width, of the only parameter with such fields, that is not used *)
(* elsewhere.  Only the first such call can have it.                       *)
MapInputSize == [map_fp_to_g1 |-> "BytesN48", map_fp2_to_g2 |-> "BytesN96"]
CryptoTypes == {"BytesN32", "BytesN48", "BytesN96", "U256"}
BytesNewFromMemory == <<"Buf", "bytes_new_from_linear_memory">>
RECURSIVE IsLinearMemRead(_)
IsLinearMemRead(e) ==
    \/ e.op = "RawHostCall" /\ e.at[2] = BytesNewFromMemory[2]
    \/ e.op \in {"ValConvert", "CastAs"} /\ IsLinearMemRead(e.kids[1])
CryptoFields(ty) == {f \in ToSet(FieldNames(ty)) : FieldType(ty, f) \in CryptoTypes}
CryptoParams(fn) == {p \in ToSet(fn.params) : IsStruct(p[2]) /\ CryptoFields(p[2]) # {}}
Unconsumed(p, t, width) ==
    {f \in CryptoFields(p[2]) : FieldType(p[2], f) = width /\ ~ Has(t, LAMBDA e : e = Field(Param(p[1]), f))}
MisroutedTo(e, method) == e.op = "MethodCall" /\ e.at[1] = method /\ Len(e.kids) = 2 /\ IsLinearMemRead(e.kids[2])
RestoreField(t, p, method) ==
    LET fields == Unconsumed(p, t, MapInputSize[method])
        calls  == SelectSeq(NodeSeq(t), LAMBDA e : MisroutedTo(e, method))
        field  == Field(Param(p[1]), CHOOSE f \in fields : TRUE)
    IN  IF Cardinality(fields) # 1 \/ calls = <<>> THEN t
        ELSE ReplaceFirst(t, Head(calls), [Head(calls) EXCEPT !.kids[2] = field])
RecoverCryptoFieldArgs(fn, t) ==
    IF Cardinality(CryptoParams(fn)) # 1 THEN t
    ELSE LET p == CHOOSE p \in CryptoParams(fn) : TRUE
         IN  RestoreField(RestoreField(t, p, "map_fp_to_g1"), p, "map_fp2_to_g2")

(* 4b4b: what is left is read from the data segment, or lost. *)
BytesAt(e) ==
    LET at == <<e.kids[1], e.kids[2]>>
    IN  IF /\ \A i \in {1, 2} : at[i].op = "Int"
           /\ <<at[1].at[1], at[2].at[1]>> \in DOMAIN Registry.bytes
        THEN Leaf("Bytes", Registry.bytes[<<at[1].at[1], at[2].at[1]>>]) ELSE UnknownVal
LowerBytesNew(t) ==
    MapButBounds(LAMBDA e : MapExpr(LAMBDA n : IF n.op = "RawHostCall" /\ n.at = BytesNewFromMemory
                                               THEN BytesAt(n) ELSE n, Nothing, e), t)

-----------------------------------------------------------------------------
(* 4b5: an arm whose body reads element 1 of the scrutinee binds it. *)
PayloadOf(e) == Method(e, "get", <<IntLit("1")>>)
RebindPayload(t, scrutinee, name) ==
    MapStmts(LAMBDA e : MapOutermost(LAMBDA n : n = PayloadOf(scrutinee), LAMBDA n : NamedLocal(name), Nothing, e), t)
ReadsPayload(t, scrutinee) == Has(t, LAMBDA e : e = PayloadOf(scrutinee))
RECURSIVE RecoverEnumPayloadBindings(_)
RecoverEnumPayloadBindings(t) ==        \* nested matches first
    LET inner(s) == [j \in DOMAIN s.bodies |-> RecoverEnumPayloadBindings(s.bodies[j])]
        binds(s, j) == /\ Len(s.pats[j]) = 3 /\ s.pats[j][3] = "_"
                       /\ ReadsPayload(inner(s)[j], s.es[1])
    IN  [i \in DOMAIN t |-> LET s == t[i] IN
            IF s.k # "Match" THEN [s EXCEPT !.bodies = inner(s)]
            ELSE [s EXCEPT
                    !.pats   = [j \in DOMAIN @ |-> IF binds(s, j) THEN [@[j] EXCEPT ![3] = "v0"] ELSE @[j]],
                    !.bodies = [j \in DOMAIN @ |-> IF binds(s, j) THEN RebindPayload(inner(s)[j], s.es[1], "v0")
                                                   ELSE inner(s)[j]]]]

(* 4b6: in a function that returns Result<Option<_>, _> the last match has *)
(* an arm for every variant: the arms that are missing return Ok(None).    *)
IsResultOrOptionValue(e) ==
    \/ e.op \in {"None", "ContractError", "ErrorFromCode"}
    \/ e.op = "EnumConstruct" /\ e.at[2] \in {"Ok", "Err", "Some", "None"}
Probe(e) == IF e.op = "MethodCall" /\ e.at[1] = "contains_key" THEN [e EXCEPT !.at[1] = "get"] ELSE e
ReturnedArm(b) == IF IsResultOrOptionValue(b[1].es[1]) THEN b ELSE <<Return(Probe(b[1].es[1]))>>
NoneArm == <<Return(Node("None", <<>>, <<>>))>>
RebuiltMatch(s, ty) ==
    LET declared == Registry.unions[ty]
        arm(v)   == SelectInSeq(s.pats, LAMBDA p : p # <<>> /\ p[2] = v)
    IN  [s EXCEPT !.pats   = [i \in DOMAIN declared |-> LET v == declared[i][1] IN
                                  IF arm(v) = 0 THEN <<ty, v>> ELSE s.pats[arm(v)]],
                  !.bodies = [i \in DOMAIN declared |-> LET v == declared[i][1] IN
                                  IF arm(v) = 0 THEN NoneArm ELSE ReturnedArm(s.bodies[arm(v)])]]
RecoverResultOptionMatch(fn, t) ==
    LET s == Last(t)
        named == SelectSeq(s.pats, LAMBDA p : p # <<>>)
        ty == named[1][1]
    IN  IF /\ IsResult(fn.ret) /\ fn.ret[2] = "Option"
           /\ t # <<>> /\ s.k = "Match" /\ named # <<>> /\ IsUnion(ty)
           /\ \A b \in ToSet(s.bodies) : Len(b) = 1 /\ b[1].k = "Expr"
           /\ \A c \in ToSet(Registry.unions[ty]) : c[2] # <<>> => \E p \in ToSet(named) : p[2] = c[1]
        THEN [t EXCEPT ![Len(t)] = RebuiltMatch(s, ty)] ELSE t

-----------------------------------------------------------------------------
(* 4b2: nothing, or something lost, in a field that is an Option. *)
IsVoidOrUnknown(e) == Bare(e).op \in {"Void", "UnknownVal"}
RECURSIVE VoidToNone(_)
VoidToNone(e) ==
    LET f == [e EXCEPT !.kids = [i \in DOMAIN @ |-> VoidToNone(@[i])]]
        isOption(i) == IsStruct(e.at[1]) /\ FieldType(e.at[1], e.at[i + 1]) = "Option"
    IN  CASE e.op = "StructConstruct" ->
               [f EXCEPT !.kids = [i \in DOMAIN @ |-> IF IsVoidOrUnknown(@[i]) /\ isOption(i)
                                                      THEN Node("None", <<>>, <<>>) ELSE @[i]]]
          [] e.op \in {"PublishEvent", "MethodCall", "TupleConstruct", "VecConstruct"} -> f
          [] OTHER -> e
ReplaceVoidWithNone(t) == MapOutsideFors(VoidToNone, t)

(* 4c: in a match on a parameter a lost storage key is the parameter, in   *)
(* arms that mention no other; reads merged into one arm are in all.       *)
MentionsOtherParam(e, n)  == \E x \in Nodes(e, Nothing) : x.op = "Param" /\ NameOf(x) # n
MentionsOtherParams(b, n) == \E e \in ExprsOf(b) : MentionsOtherParam(e, n)
RecoveredKey(e, key) ==                 \* of a statement's own expression
    IF /\ e.op \in {"StorageGet", "StorageSet", "StorageHas", "StorageRemove"}
       /\ e.kids[1] = UnknownVal \/ (e.kids[1].op = "EnumConstruct" /\ UnknownVal \in ToSet(e.kids[1].kids))
    THEN [e EXCEPT !.kids[1] = key] ELSE e
RECURSIVE ReplaceUnknownKeys(_, _)
ReplaceUnknownKeys(t, key) ==
    [i \in DOMAIN t |->
        IF t[i].k = "For" THEN t[i]
        ELSE [t[i] EXCEPT !.es = [j \in DOMAIN @ |-> IF t[i].k \in {"If", "Match"} THEN @[j]
                                                     ELSE RecoveredKey(@[j], key)],
                          !.bodies = [j \in DOMAIN @ |-> ReplaceUnknownKeys(@[j], key)]]]
IsStorageRead(b) == Len(b) = 1 /\ b[1].k = "Expr" /\ b[1].es[1].op = "StorageGet"
FillEmptyDispatchArms(bodies) ==
    LET reads == SelectSeq(bodies, IsStorageRead)
    IN  IF reads # <<>> /\ \A b \in ToSet(bodies) : b = <<>> \/ IsStorageRead(b)
        THEN [j \in DOMAIN bodies |-> IF bodies[j] = <<>> THEN reads[1] ELSE bodies[j]] ELSE bodies
RECURSIVE RecoverMatchArmStorageKeys(_)
RecoverMatchArmStorageKeys(t) ==
    LET dispatch(s) == s.k = "Match" /\ s.es[1].op = "Param" /\ \E p \in ToSet(s.pats) : p # <<>>
        keyed(b, p) == IF MentionsOtherParams(b, NameOf(p)) THEN b ELSE ReplaceUnknownKeys(b, p)
    IN  [i \in DOMAIN t |-> LET s == t[i] IN
            CASE dispatch(s) -> [s EXCEPT !.bodies = FillEmptyDispatchArms([j \in DOMAIN @ |-> keyed(@[j], s.es[1])])]
              [] s.k = "For" -> s
              [] OTHER -> [s EXCEPT !.bodies = [j \in DOMAIN @ |-> RecoverMatchArmStorageKeys(@[j])]]]

(* 4d, 4e: what the lifter leaves of a unit result, and of an Option. *)
RemoveTrailingLen(fn, t) ==
    IF /\ IsResult(fn.ret) /\ IsUnitOkType(fn.ret[2])
       /\ t # <<>> /\ Last(t).k = "Expr" /\ Last(t).es[1].op = "MethodCall"
       /\ Last(t).es[1].at = <<"len">> /\ Len(Last(t).es[1].kids) = 1
    THEN Front(t) ELSE t
RECURSIVE RemoveStorageUnwrap(_)
RemoveStorageUnwrap(t) ==
    LET plain(e) == IF e.op = "StorageGet" /\ e.at[1] = "unwrap" THEN [e EXCEPT !.at[1] = "option"] ELSE e
    IN  [i \in DOMAIN t |->
            IF t[i].k = "For" THEN t[i]
            ELSE [t[i] EXCEPT !.es = [j \in DOMAIN @ |-> IF t[i].k \in {"If", "Match"} THEN @[j] ELSE plain(@[j])],
                              !.bodies = [j \in DOMAIN @ |-> RemoveStorageUnwrap(@[j])]]]
-----------------------------------------------------------------------------
(* Repairs of what cannot have the type its place asks for (4m3 to 4m7):   *)
(* fields of constructed values, an index compared with the word None is,  *)
(* reads that have no rendering, keys taken for values, bools written as   *)
(* integers.                                                               *)

(* 4m3: e may have the type; unknown for every shape that is not listed. *)
Handles == {"Address", "MuxedAddress", "Bytes", "BytesN32", "BytesN48", "BytesN96",
            "Vec", "Map", "String", "Symbol"}
Fits(e, ty) ==
    CASE e.op \in {"StructConstruct", "EnumConstruct"} -> ty \in {e.at[1], "Val"}
      [] e.op = "Int"    -> ty \notin Handles
      [] e.op = "Bool"   -> ty \in {"Bool", "Val"} \cup Registry.enums
      [] e.op \in {"Symbol", "String"} -> ty \in {e.op, "Val"}
      [] e.op = "CollectionNew"        -> ty \in {e.at[1], "Val"}
      [] e.op \in {"ContractError", "ErrorFromCode"} -> ty = "Error"
      [] OTHER -> TRUE
IsCryptoHash(e) == e.op \in {"CryptoSha256", "CryptoKeccak256"}
CoerceOrHole(e, ty) ==
    IF ty \in CryptoTypes \ {"U256"} /\ IsCryptoHash(e) THEN Method(e, "to_bytes", <<>>)
    ELSE IF Fits(e, ty) THEN e ELSE UnknownVal
FixFields(e) ==
    CASE e.op = "StructConstruct" /\ IsStruct(e.at[1]) ->
             [e EXCEPT !.kids = [i \in DOMAIN @ |->
                 LET ty == FieldType(e.at[1], e.at[i + 1]) IN IF ty = "" THEN @[i] ELSE CoerceOrHole(@[i], ty)]]
      [] e.op = "EnumConstruct" /\ IsUnion(e.at[1]) ->      \* too few: the payload was lost
             LET types  == PayloadTypes(e.at[1], e.at[2])
                 padded == e.kids \o [i \in 1..(Len(types) - Len(e.kids)) |-> UnknownVal]
             IN  [e EXCEPT !.kids = [i \in DOMAIN padded |->
                     IF i \in DOMAIN types THEN CoerceOrHole(padded[i], types[i]) ELSE padded[i]]]
      [] OTHER -> e
HoleMistypedFields(t) == MapButBounds(LAMBDA e : MapExpr(FixFields, Nothing, e), t)

-----------------------------------------------------------------------------
(* 4m4: x.first_index_of(y) == 2 asks whether it is None. *)
IsIndexOf(e) == e.op = "MethodCall" /\ e.at[1] \in {"first_index_of", "last_index_of"}
ContainsNever(e) == \E n \in Nodes(e, Nothing) : IsNeverRooted(n)
FoldedCompare(e, call) ==
    IF IsEffectFree(call.kids[1]) /\ \E a \in ToSet(Tail(call.kids)) : ContainsNever(a) THEN UnknownVal
    ELSE Method(call, IF e.op = "Eq" THEN "is_none" ELSE "is_some", <<>>)
FoldIndexCompare(e, shared) ==          \* shared: the names used more than once
    LET cloned(a) == IF a.op \in Variables /\ NameOf(a) \in shared THEN Method(a, "clone", <<>>) ELSE a
        against(i) == e.op \in {"Eq", "Ne"} /\ IsIndexOf(e.kids[i]) /\ e.kids[3 - i] = IntLit("2")
    IN  CASE IsIndexOf(e)  -> [e EXCEPT !.kids = [i \in DOMAIN @ |-> IF i = 1 THEN @[i] ELSE cloned(@[i])]]
          [] against(1)    -> FoldedCompare(e, e.kids[1])
          [] against(2)    -> FoldedCompare(e, e.kids[2])
          [] OTHER         -> e
FoldOptionVoidCompares(t) ==
    LET shared == {n \in Names(t, Nothing) : UseCount(t, n) >= 2}
    IN  MapStmts(LAMBDA e : MapExpr(LAMBDA n : FoldIndexCompare(n, shared), Nothing, e), t)

(* 4m5: reads by position have no rendering, and change nothing. *)
PureReads == {<<"Map", "map_key_by_pos">>, <<"Map", "map_val_by_pos">>,
              <<"Buf", "bytes_front">>, <<"Buf", "bytes_copy_from_linear_memory">>}
HolePureRawReads(t) ==
    MapStmts(LAMBDA e : MapExpr(LAMBDA n : IF n.op = "RawHostCall" /\ n.at \in PureReads THEN UnknownVal ELSE n,
                                Nothing, e), t)

-----------------------------------------------------------------------------
(* 4m6: a variable that starts as a key and is then assigned what is       *)
(* stored under that key has lost its default.                             *)
LetsOf(t, n) == SelectSeq(InOrder(t), LAMBDA s : s.k = "Let" /\ s.name = n)
AdoptsKey(s, t) ==
    /\ s.k = "Let" /\ s.pats # <<>> /\ s.es[1].op = "EnumConstruct"
    /\ Len(LetsOf(t, s.name)) = 1
    /\ \E x \in StmtsOf(t) : /\ x.k = "Assign" /\ x.name = s.name
                             /\ x.es[1].op = "StorageGet" /\ x.es[1].kids[1] = s.es[1]
RepairKeyAdoptedDefaults(t0) ==
    LET RECURSIVE go(_)
        go(t) == [i \in DOMAIN t |->
                    [t[i] EXCEPT !.es = IF AdoptsKey(t[i], t0) THEN <<UnknownVal>> ELSE @,
                                 !.bodies = [j \in DOMAIN @ |-> go(@[j])]]]
    IN  go(t0)

(* 4m7: a local that is assigned a bool, and else only 0 and 1.  What is   *)
(* assigned follows the let that binds the name there.  (Bindings of arms  *)
(* and loop variables are not assigned to.)                                *)
BoolMethods == {"contains_key", "contains", "is_empty", "pairing_check", "g1_is_in_subgroup",
                "g2_is_in_subgroup", "is_none", "is_some"}
IsBoolTyped(e) == \/ e.op \in {"StorageHas", "Bool", "And", "Or", "Not"} \cup Compare
                  \/ e.op = "MethodCall" /\ e.at[1] \in BoolMethods
IsZeroOne(e) == e \in {IntLit("0"), IntLit("1")}
AsBool(e) == IF IsZeroOne(e) THEN Bool(IF e = IntLit("1") THEN "true" ELSE "false") ELSE e
Rebinds(s, n) == s.k = "Let" /\ s.name = n
RECURSIVE WritesTo(_, _)
WritesTo(t, n) ==
    IF t = <<>> \/ Rebinds(Head(t), n) THEN {}
    ELSE LET s == Head(t)
         IN  (IF s.k = "Assign" /\ s.name = n THEN {s.es[1]} ELSE {})
             \cup UNION {WritesTo(s.bodies[j], n) : j \in {j \in DOMAIN s.bodies : n \notin ScopeOf(s, j)}}
             \cup WritesTo(Tail(t), n)
RECURSIVE BoolsWritten(_, _)
BoolsWritten(t, n) ==                   \* the same writes, as bools
    IF t = <<>> \/ Rebinds(Head(t), n) THEN t
    ELSE LET s == Head(t)
         IN  <<[s EXCEPT !.es = IF s.k = "Assign" /\ s.name = n THEN <<AsBool(@[1])>> ELSE @,
                         !.bodies = [j \in DOMAIN @ |-> IF n \in ScopeOf(s, j) THEN @[j] ELSE BoolsWritten(@[j], n)]]>>
             \o BoolsWritten(Tail(t), n)
IsBoolLocal(s, rest) ==
    LET values == {s.es[1]} \cup WritesTo(rest, s.name)
    IN  /\ s.k = "Let"
        /\ \A v \in values : ~ IsNeverRooted(v) /\ (IsBoolTyped(v) \/ IsZeroOne(v))
        /\ (\E v \in values : IsBoolTyped(v)) /\ \E v \in values : IsZeroOne(v)
RECURSIVE UnifyBoolLocals(_)
UnifyBoolLocals(t) ==
    IF t = <<>> THEN t
    ELSE LET s == [Head(t) EXCEPT !.bodies = [j \in DOMAIN @ |-> UnifyBoolLocals(@[j])]]
             wins == IsBoolLocal(s, Tail(t))
         IN  <<[s EXCEPT !.es = IF wins THEN <<AsBool(@[1])>> ELSE @]>>
             \o UnifyBoolLocals(IF wins THEN BoolsWritten(Tail(t), s.name) ELSE Tail(t))
=============================================================================
