---------------------------- MODULE LateRepairs ----------------------------
(* The last repairs of a body (stages 4n to 4y of pipeline.rs): values in  *)
(* places of another type, what a void function returns, whole getters     *)
(* rebuilt, names for loads whose use was lost.  A signature also has a    *)
(* name and wideKeys, the keys other functions read as i128; the registry  *)
(* has named, the <<function, variant>> pairs where the one contains the   *)
(* other.                                                                  *)
EXTENDS KeyRepairs

NumberTypes == Primitive \cup {"Timepoint", "Duration"}
NumberOfBool(e) == IntLit(IF e.at[1] = "true" THEN "1" ELSE "0")

(* 4n, 4n2: the words 0 and 1 decode to false and true. *)
FixBoolLiteral(e) ==
    IF e.op = "Bool" THEN NumberOfBool(e)
    ELSE IF e.op = "ValConvert" /\ e.kids[1].op = "Bool" THEN NumberOfBool(e.kids[1]) ELSE e
FixBoolLiteralReturns(fn, t) ==
    IF Len(fn.ret) = 1 /\ fn.ret[1] \in NumberTypes THEN MapKinds({"Expr", "Return"}, FixBoolLiteral, t) ELSE t
RECURSIVE FixBoolToInt(_)
FixBoolToInt(e) == CASE e.op = "Bool" -> NumberOfBool(e)
                     [] e.op = "StructConstruct" -> [e EXCEPT !.kids = [i \in DOMAIN @ |-> FixBoolToInt(@[i])]]
                     [] OTHER -> e
FixBoolInStorageSet(t) ==
    MapKinds({"Expr"}, LAMBDA e : IF e.op = "StorageSet" THEN [e EXCEPT !.kids[2] = FixBoolToInt(@)] ELSE e, t)

(* 4o: a void function returns nothing; what it returned is dropped, and   *)
(* with it the lets nobody mentions any more.                              *)
RECURSIVE IsPure(_)
IsPure(e) == \/ e.op \in Variables \cup {"Int", "Bool", "UnknownVal"}
             \/ e.op \in Tuples \cup {"ValConvert"} /\ \A i \in DOMAIN e.kids : IsPure(e.kids[i])
RECURSIVE StripReturnsInVoidFn(_)
StripReturnsInVoidFn(t) ==
    LET kept == SelectSeq(t, LAMBDA s : ~ (s.k \in {"Return", "Expr"} /\ s.es # <<>> /\ IsPure(s.es[1])))
    IN  [i \in DOMAIN kept |->
            IF ReturnsValue(kept[i]) THEN Expr(kept[i].es[1])
            ELSE IF kept[i].k = "For" THEN kept[i]
            ELSE [kept[i] EXCEPT !.bodies = [j \in DOMAIN @ |-> StripReturnsInVoidFn(@[j])]]]
MayMention(e, n) == IF e.op \in Variables THEN NameOf(e) = n ELSE TRUE
NameReferencedIn(t, n) ==
    \E s \in StmtsOf(OutsideFors(t)) : \/ s.k = "Assign" /\ s.name = n
                                       \/ \E i \in DOMAIN s.es : MayMention(s.es[i], n)
RECURSIVE DropDeadLets(_)
DropDeadLets(t) ==
    IF t = <<>> THEN t
    ELSE LET s == Head(t)
             dead == s.k = "Let" /\ ~ NameReferencedIn(Tail(t), s.name)
         IN  (IF ~ dead THEN <<s>> ELSE IF IsPure(s.es[1]) THEN <<>> ELSE <<Expr(s.es[1])>>)
             \o DropDeadLets(Tail(t))
StripVoidReturns(fn, t) == IF IsVoid(fn.ret) THEN DropDeadLets(StripReturnsInVoidFn(t)) ELSE t

(* 4p2: a vector returned as a tuple. *)
Arity == [Tuple2 |-> 2, Tuple3 |-> 3]
AsTuple(e, n) ==
    LET data == SelectSeq(e.kids, LAMBDA k : k.op # "Env")
    IN  IF e.op = "VecConstruct" /\ Len(data) = n THEN Node("TupleConstruct", <<>>, data) ELSE e
ConvertVecToTupleReturn(fn, t) ==
    IF fn.ret = <<>> \/ fn.ret[1] \notin DOMAIN Arity THEN t
    ELSE [i \in DOMAIN t |-> IF ReturnsValue(t[i]) \/ (i = Len(t) /\ t[i].k = "Expr")
                             THEN [t[i] EXCEPT !.es[1] = AsTuple(@, Arity[fn.ret[1]])] ELSE t[i]]

-----------------------------------------------------------------------------
(* 4p3: what takes part in 128-bit arithmetic is read, and called for, as  *)
(* such; and so is every other read of those keys.                         *)
RECURSIVE IsWide(_, _)
IsWide(fn, e) ==
    \/ e.op = "Int" /\ Len(e.at) = 2      \* a literal that carries its width
    \/ e.op = "Param" /\ \E ty \in {"I128", "U128"} : <<NameOf(e), ty>> \in ToSet(fn.params)
    \/ e.op \in InvokeOps /\ e.at[1] \in {"i128", "u128"}
    \/ e.op \in Arith /\ \E i \in {1, 2} : IsWide(fn, e.kids[i])
RECURSIVE ForceWide(_)
ForceWide(e) ==
    CASE e.op \in InvokeOps -> IF e.at[1] = "Val" THEN [e EXCEPT !.at[1] = "i128"] ELSE e
      [] e.op = "StorageGet" -> CastAs(e, "i128")
      [] e.op \in Arith      -> [e EXCEPT !.kids = [i \in DOMAIN @ |-> ForceWide(@[i])]]
      [] OTHER               -> e
CoerceWide(fn, t) ==
    MapButBounds(LAMBDA e : MapExpr(LAMBDA n : IF n.op \in Arith /\ IsWide(fn, n) THEN ForceWide(n) ELSE n,
                                    Nothing, e), t)
WideKeys(t) == {e.kids[1].kids[1] : e \in {e \in NodesOf(t, Nothing) :
                   e.op = "CastAs" /\ e.at = <<"i128">> /\ e.kids[1].op = "StorageGet"}}
TypeKeyGets(t, keys) ==
    MapButBounds(LAMBDA e : MapReached(LAMBDA n : n.op = "StorageGet" /\ n.kids[1] \in keys,
                                       LAMBDA n : CastAs(n, "i128"),
                                       LAMBDA n : IF n.op = "CastAs" /\ n.kids[1].op = "StorageGet" THEN {}
                                                  ELSE DOMAIN n.kids, e), t)
CoerceWideReads(fn, t) ==
    LET own == CoerceWide(fn, t) IN TypeKeyGets(own, WideKeys(own) \cup fn.wideKeys)

(* 4q: a struct with a lost field is the only parameter of its type. *)
IsUnresolved(e) == e.op \in {"Local", "UnknownVal"} \/ (e.op = "NamedLocal" /\ NameOf(e) \in VarNames)
ParamsOfType(fn, ty) == SelectSeq(fn.params, LAMBDA p : p[2] = ty)
IsIncomplete(fn, e) ==
    /\ e.op = "StructConstruct" /\ \E i \in DOMAIN e.kids : IsUnresolved(e.kids[i])
    /\ Len(ParamsOfType(fn, e.at[1])) = 1
StructReach(e) ==
    CASE e.op \in InvokeOps -> 3..Len(e.kids)
      [] e.op = "RequireAuthForArgs" -> {1}
      [] e.op \in (KeyWalk \cup {"MapConstruct"}) \ {"StorageExtendTtl", "ErrorFromCode"} -> DOMAIN e.kids
      [] OTHER -> {}
ReplaceIncompleteStruct(fn, t) ==
    MapOutsideFors(LAMBDA e : MapReached(LAMBDA n : IsIncomplete(fn, n),
                                         LAMBDA n : Param(ParamsOfType(fn, n.at[1])[1][1]), StructReach, e), t)

(* 4r *)
StripTrailingPanic(fn, t) ==
    IF ~ fn.wrapperPanics /\ Len(t) >= 2 /\ Last(t) = PanicStmt THEN Front(t) ELSE t

-----------------------------------------------------------------------------
(* 4s: if has(key) { unpack what is stored } and no more is a getter: of   *)
(* the struct, or of the one field with the returned type.                 *)
Tier(e) == IF e.op = "StorageGet" THEN Tail(e.at) ELSE e.at
GetAs(has) == Node("StorageGet", <<"unwrap">> \o Tier(has), has.kids)
Unpacks(b) == SelectSeq(b, LAMBDA s : /\ s.k = "Expr" /\ "map_unpack_to_linear_memory" \in ToSet(s.es[1].at)
                                     /\ s.es[1].kids # <<>> /\ Last(s.es[1].kids).op = "Int")
RECURSIVE IsUnwrappedGet(_)
IsUnwrappedGet(e) == \/ e.op = "StorageGet"
                     \/ e.op = "MethodCall" /\ e.at[1] = "unwrap" /\ IsUnwrappedGet(e.kids[1])
FieldCounts(fn, b) ==                   \* {} when this is no getter
    IF Unpacks(b) # <<>> THEN {Last(Unpacks(b)[1].es[1].kids).at[1]}
    ELSE IF fn.params = <<>> /\ \E s \in ToSet(b) : s.k \in {"Let", "Expr"} /\ IsUnwrappedGet(s.es[1])
         THEN {"0"} ELSE {}             \* "0": any number of fields
FieldsOfType(structs, ty) ==
    FlattenSeq([i \in DOMAIN structs |-> SelectSeq(FieldNames(structs[i]), LAMBDA f : FieldType(structs[i], f) = ty)])
RecoverMapUnpackGetter(fn, t) ==
    LET s == t[1]
        counts  == FieldCounts(fn, s.bodies[1])
        fits(st) == counts \subseteq {"0", ToString(Len(FieldNames(st)))}
        fields  == FieldsOfType(SetToSeq({st \in DOMAIN Registry.structs : fits(st)}), fn.ret[1])
        get     == GetAs(s.es[1])
    IN  IF \/ Len(t) # 1 \/ fn.ret = <<>>
           \/ s.k # "If" \/ s.bodies[2] # <<>> \/ s.es[1].op # "StorageHas" \/ counts = {}
        THEN t
        ELSE IF IsStruct(fn.ret[1]) /\ fits(fn.ret[1]) THEN <<Return(get)>>
        ELSE IF Len(fields) = 1 THEN <<Return(Field(get, fields[1]))>>
        ELSE IF fn.name \in ToSet(fields) THEN <<Return(Field(get, fn.name))>> ELSE t

(* 4t: a body in which something is unresolved, where a union names what   *)
(* is returned: that is read.                                              *)
RECURSIVE HasUnresolved(_)
HasUnresolved(e) == \/ IsUnresolved(e) /\ e # UnknownVal
                    \/ e.op \in Tuples /\ \E i \in DOMAIN e.kids : HasUnresolved(e.kids[i])
IsBroken(t) ==
    \/ t = <<>>
    \/ \E s \in StmtsOf(OutsideFors(t)) : s.es # <<>> /\ HasUnresolved(s.es[1])
    \/ \E i \in DOMAIN t : t[i].k \in {"Expr", "Return"} /\ t[i].es = <<UnknownVal>>
NamesReturn(fn, c) == c[2] = <<>> /\ fn.params = <<>> /\ (IsStruct(c[1]) \/ IsUnion(c[1])) /\ fn.ret[1] = c[1]
NamesFunction(fn, c) == /\ Len(fn.params) = 1 /\ c[2] = <<fn.params[1][2]>>
                        /\ <<fn.name, c[1]>> \in Registry.named
GetterKeys(fn) ==
    UNION {{Enum(u, c[1], IF c[2] = <<>> THEN <<>> ELSE <<Param(fn.params[1][1])>>) :
                c \in {c \in ToSet(Registry.unions[u]) : NamesReturn(fn, c) \/ NamesFunction(fn, c)}} :
              u \in DOMAIN Registry.unions}
RecoverBrokenGetter(fn, t) ==
    IF fn.ret = <<>> \/ ~ IsBroken(t) \/ GetterKeys(fn) = {} THEN t
    ELSE LET key == CHOOSE k \in GetterKeys(fn) : TRUE
         IN  <<Return(Node("StorageGet", <<"unwrap", IF key.kids = <<>> THEN "Instance" ELSE "Persistent">>, <<key>>))>>

(* 4t2: in a void function a load nobody uses is bound, to a name made of  *)
(* its key's.                                                              *)
LoadName(key) == CASE key.op = "EnumConstruct" -> <<Registry.snake[key.at[2]]>>
                   [] key.op = "NamedLocal"    -> <<NameOf(key) \o "_value">>
                   [] OTHER -> <<>>
BindOrphanLoads(fn, t) ==
    IF ~ IsVoid(fn.ret) THEN t
    ELSE [i \in DOMAIN t |->
            LET e == t[i].es[1] IN
            IF t[i].k = "Expr" /\ e.op = "StorageGet" /\ e.at[1] = "unwrap" /\ LoadName(e.kids[1]) # <<>>
            THEN Let(LoadName(e.kids[1])[1], e) ELSE t[i]]

-----------------------------------------------------------------------------
(* 4w: a field of what is stored under a lost key is the field of the      *)
(* first value loaded from the same storage.                               *)
IsLoad(e) == e.op = "StorageGet" /\ e.at[1] = "unwrap"
LoadedLets(t) == SelectSeq(t, LAMBDA s : s.k = "Let" /\ IsLoad(s.es[1]) /\ s.es[1].kids[1] # UnknownVal)
SameTier(t, e) == SelectInSeq(LoadedLets(t), LAMBDA s : Tier(s.es[1]) = Tier(e))
OfLostKey(t, e) == /\ e.op = "FieldAccess" /\ IsLoad(e.kids[1]) /\ e.kids[1].kids[1] = UnknownVal
                   /\ SameTier(t, e.kids[1]) # 0
LostKeyReach(e) ==
    IF e.op \in Tuples \cup Conversions \cup InvokeOps \cup {"Add", "Sub", "Mul", "Shl", "Div", "Eq", "Ne", "Lt",
                    "Gt", "MethodCall", "Not", "StorageSet", "StructConstruct", "FieldAccess", "RequireAuth"}
    THEN DOMAIN e.kids ELSE IF e.op = "RequireAuthForArgs" THEN {1} ELSE {}
ResolveUnknownKeyFields(t) ==
    MapOutsideFors(LAMBDA e : MapReached(
        LAMBDA n : OfLostKey(t, n),
        LAMBDA n : [n EXCEPT !.kids[1] = NamedLocal(LoadedLets(t)[SameTier(t, @)].name)], LostKeyReach, e), t)

(* 4u: a symbol bound to a parameter's name is a leftover tag. *)
RECURSIVE RemoveSymbolParamShadows(_, _)
RemoveSymbolParamShadows(fn, t) ==
    LET kept == SelectSeq(t, LAMBDA s : ~ (/\ s.k = "Let" /\ s.es[1].op = "Symbol"
                                           /\ \E p \in ToSet(fn.params) : p[1] = s.name))
    IN  [i \in DOMAIN kept |-> IF kept[i].k = "For" THEN kept[i]
            ELSE [kept[i] EXCEPT !.bodies = [j \in DOMAIN @ |-> RemoveSymbolParamShadows(fn, @[j])]]]

(* 4v: if has(key) { get(key); .. } in a function that returns a number or *)
(* a bool returns what was read, or zero.                                  *)
ZeroOf(ret) == IF ret = <<"Bool">> THEN Bool("false") ELSE IntLit("0")
HasZero == {"I128", "I64", "I32", "U128", "U64", "U32", "Bool"}
ReadsGuarded(s) ==
    /\ s.k = "If" /\ s.es[1].op = "StorageHas" /\ s.bodies[2] = <<>> /\ Len(s.bodies[1]) >= 2
    /\ s.bodies[1][1] = Expr(GetAs(s.es[1]))
GuardedValue(s, zero) ==
    LET key == s.es[1].kids[1]
        rest == SelectSeq(Tail(s.bodies[1]), LAMBDA x : ~ (key.op = "NamedLocal" /\ x.k = "Let" /\ x.name = NameOf(key)))
        own == IF key = NamedLocal("value") THEN <<>> ELSE <<Let("value", s.bodies[1][1].es[1])>>
    IN  [s EXCEPT !.bodies = <<own \o Append(rest, Expr(NamedLocal("value"))), <<Expr(zero)>>>>]
RECURSIVE GuardedReads(_, _)
GuardedReads(t, zero) ==
    [i \in DOMAIN t |->
        LET s == IF t[i].k = "For" THEN t[i]
                 ELSE [t[i] EXCEPT !.bodies = [j \in DOMAIN @ |-> GuardedReads(@[j], zero)]]
        IN  IF ReadsGuarded(s) THEN GuardedValue(s, zero) ELSE s]
RecoverHasGetReturn(fn, t) ==
    IF Len(fn.ret) = 1 /\ fn.ret[1] \in HasZero THEN GuardedReads(t, ZeroOf(fn.ret)) ELSE t

-----------------------------------------------------------------------------
(* 4x: authorisation of a key is that of the value loaded from it in the   *)
(* next statement; so is the key where it is a topic or in a vector.       *)
KeyPairs(t) ==
    {<<t[i].name, t[i + 1].name>> : i \in {i \in 1..(Len(t) - 1) :
        /\ t[i].k = "Let" /\ t[i].es[1].op = "EnumConstruct"
        /\ t[i + 1].k = "Let" /\ IsLoad(t[i + 1].es[1]) /\ t[i + 1].es[1].kids[1] = NamedLocal(t[i].name)}}
LoadedFor(pairs, e) == {p \in pairs : e = NamedLocal(p[1])}
AsLoaded(pairs, e0) ==
    MapReached(LAMBDA e : LoadedFor(pairs, e) # {}, LAMBDA e : NamedLocal((CHOOSE p \in LoadedFor(pairs, e) : TRUE)[2]),
               LAMBDA e : IF e.op \in Tuples THEN DOMAIN e.kids ELSE {}, e0)
RECURSIVE AuthOfLoaded(_, _)
AuthOfLoaded(pairs, e) ==
    CASE e.op = "RequireAuth" -> [e EXCEPT !.kids[1] = IF LoadedFor(pairs, @) # {} THEN AsLoaded(pairs, @)
                                                       ELSE AuthOfLoaded(pairs, @)]
      [] e.op = "PublishEvent" -> [e EXCEPT !.kids = [i \in DOMAIN @ |->
                                      IF i = Len(@) THEN AuthOfLoaded(pairs, @[i]) ELSE AsLoaded(pairs, @[i])]]
      [] e.op \in Tuples       -> AsLoaded(pairs, e)
      [] OTHER                 -> e
RECURSIVE AuthsIn(_, _)
AuthsIn(t, pairs) ==
    [i \in DOMAIN t |->
        CASE t[i].k \in {"Expr", "Let", "Assign"} -> [t[i] EXCEPT !.es[1] = AuthOfLoaded(pairs, @)]
          [] t[i].k = "If" -> [t[i] EXCEPT !.bodies = [j \in DOMAIN @ |-> AuthsIn(@[j], pairs)]]
          [] OTHER -> t[i]]
FixRequireAuthOnEnumKey(t) == AuthsIn(t, KeyPairs(t))

(* 4y: what an event's data lost is the only parameter that can be data,   *)
(* or the one in the local's slot; a field is the parameter of its name.   *)
RECURSIVE ParamNamesIn(_)
ParamNamesIn(e) ==
    IF e.op \in {"Param", "NamedLocal"} THEN {NameOf(e)}
    ELSE IF e.op \in Tuples \cup {"StructConstruct", "MethodCall", "FieldAccess", "ValConvert"}
         THEN UNION {ParamNamesIn(e.kids[i]) : i \in DOMAIN e.kids} ELSE {}
RECURSIVE IsUnresolvedEventValue(_)
IsUnresolvedEventValue(e) == IsUnresolved(e) \/ (e.op \in Conversions /\ IsUnresolvedEventValue(e.kids[1]))
SlotOf(n) == CHOOSE i \in 0..9 : VarName(i) = n
DataParams(fn, topics) == SelectSeq(fn.params, LAMBDA p : p[1] \notin topics /\ p[2] \notin {"Address", "Void"})
RECURSIVE ResolveData(_, _, _, _)
ResolveData(fn, e, topics, guess) ==    \* guess: not inside a nested struct
    LET data == DataParams(fn, topics)
        i    == LET d == SlotOf(NameOf(e)) - ParamLocalBase(fn, fn.before) IN (IF d < 0 THEN 0 ELSE d) + 1
        only == guess /\ Len(data) = 1
        isParam(f) == \E p \in ToSet(fn.params) : p[1] = f
        field(k) == LET f == e.at[k + 1]   x == e.kids[k] IN
                    IF guess /\ IsUnresolvedEventValue(x) /\ f \notin topics /\ isParam(f) THEN Param(f)
                    ELSE ResolveData(fn, x, topics, guess /\ x.op # "StructConstruct")
    IN  CASE e.op = "ValConvert" -> [e EXCEPT !.kids[1] = ResolveData(fn, @, topics, guess)]
          [] e.op = "NamedLocal" /\ NameOf(e) \in VarNames -> IF isParam(NameOf(e)) THEN Param(NameOf(e))
                                                              ELSE IF only THEN Param(data[1][1]) ELSE e
          [] e.op = "Local" -> IF only THEN Param(data[1][1])
                               ELSE IF guess /\ i \in DOMAIN fn.params /\ fn.params[i][1] \notin topics
                                    THEN Param(fn.params[i][1]) ELSE e
          [] e = UnknownVal -> IF only THEN Param(data[1][1]) ELSE e
          [] e.op = "StructConstruct" -> [e EXCEPT !.kids = [k \in DOMAIN @ |-> field(k)]]
          [] e.op = "MethodCall" -> [e EXCEPT !.kids = [k \in DOMAIN @ |-> ResolveData(fn, @[k], topics, guess)]]
          [] OTHER -> e
IsPublishCall(e) == /\ e.op = "MethodCall" /\ e.at[1] = "publish" /\ e.kids[1].op = "StructConstruct"
                    /\ Len(e.kids) = 2 /\ (UsesEnv(<<Expr(e.kids[2])>>) \/ e.kids[2] \in {Param("env"), NamedLocal("env")})
FilledFields(st) == {st.at[k + 1] : k \in {k \in DOMAIN st.kids : ~ IsUnresolvedEventValue(st.kids[k])}}
ResolveEvent(fn, e) ==
    LET n == Len(e.kids)
        names(es) == UNION {ParamNamesIn(es[i]) : i \in DOMAIN es}
        st == e.kids[1]
    IN  CASE e.op = "PublishEvent" -> [e EXCEPT !.kids[n] = ResolveData(fn, @, names(Front(e.kids)), TRUE)]
          [] IsPublishCall(e) ->
                 [e EXCEPT !.kids[1] = ResolveData(fn, @, names(st.kids)
                                          \cup (FilledFields(st) \cap {p[1] : p \in ToSet(fn.params)}), TRUE)]
          [] OTHER -> e
RECURSIVE EventDataIn(_, _)
EventDataIn(fn, t) ==
    [i \in DOMAIN t |->
        CASE t[i].k = "Expr" -> [t[i] EXCEPT !.es[1] = ResolveEvent(fn, @)]
          [] t[i].k \in {"If", "Match"} -> [t[i] EXCEPT !.bodies = [j \in DOMAIN @ |-> EventDataIn(fn, @[j])]]
          [] OTHER -> t[i]]
ResolveEventDataParams(fn, t) ==
    IF fn.params = <<>> THEN t
    ELSE EventDataIn([params |-> fn.params, takesEnv |-> fn.takesEnv, paramBase |-> fn.paramBase, before |-> t], t)
=============================================================================
