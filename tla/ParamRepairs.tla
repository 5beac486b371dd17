---------------------------- MODULE ParamRepairs ----------------------------
(* Repairs that put a parameter, a binding or a neighbour where the lifter *)
(* lost the operand (stages 4c2 to 4c7, 4f to 4j, 4m2 and 4p of            *)
(* pipeline.rs).  A signature also has takesEnv and paramBase, the wasm    *)
(* local of its first parameter.                                           *)
EXTENDS Recoveries

-----------------------------------------------------------------------------
(* 4c4 to 4c7: repairs of a lifted function from what its runs were seen   *)
(* to do (dynamic_hints.rs).  A hint set is                                *)
(* [storage, events, auth, invokes]: the keys, the <<topics, data>>, the   *)
(* <<address, args>> and the function names observed, as expressions; an   *)
(* unknown address or name is <<>>, a known one <<e>>.  A value only fills *)
(* an operand when every observation agrees on it.                         *)

NoHints == [storage |-> {}, events |-> {}, auth |-> {}, invokes |-> {}]

(* The observations of every record of the function, or nothing.           *)
UniqueOf_Any(observed) == IF observed = {} THEN {} ELSE {CHOOSE o \in observed : TRUE}
UniqueOf(observed) == IF Cardinality(observed) = 1 THEN observed ELSE {}
UniqueKey(h)    == UniqueOf(h.storage)
UniqueEvent(h)  == UniqueOf(h.events)
UniqueAuth(h)   == UniqueOf(h.auth)
UniqueInvoke(h) ==              \* a name is a symbol or a string
    LET known == {f[1] : f \in h.invokes \ {<<>>}}
    IN  IF \A f \in known : f.op \in {"Symbol", "String"} THEN UniqueOf(known) ELSE {}

-----------------------------------------------------------------------------
(* What counts as an operand the lifter lost. *)
FromMemory == {"symbol_new_from_linear_memory", "string_new_from_linear_memory"}
EnvBuf == Method(Leaf("Env", "env"), "buf", <<>>)
IsLinearMemoryKey(e) ==
    \/ e.op = "RawHostCall" /\ e.at[1] = "Buf" /\ e.at[2] \in FromMemory
    \/ e.op = "MethodCall" /\ e.at[1] \in FromMemory /\ e.kids[1] = EnvBuf
IsLost(e) == e = UnknownVal \/ IsLinearMemoryKey(e)
Unnamed(e) == e.op = "Local"            \* also a NamedLocal var_N
IsLostFunction(e) == IsLost(e) \/ Unnamed(e)

RECURSIVE IsWeakAuth(_)
IsWeakAuth(e) ==
    \/ e = UnknownVal \/ Unnamed(e)
    \/ e.op \in {"ValConvert", "CastAs"} /\ IsWeakAuth(e.kids[1])
    \/ e.op = "VecConstruct" /\ e.kids # <<>> /\ \A i \in DOMAIN e.kids : IsWeakAuth(e.kids[i])
    \/ /\ e.op = "MethodCall" /\ e.at[1] \in {"push_back", "push_front", "insert", "append"}
       /\ IsWeakAuth(e.kids[1])

-----------------------------------------------------------------------------
(* The operand at one place of every op, when it is lost, else its insides. *)
RepairAt(ops, place, Lost(_), value, e0) ==
    MapExpr(LAMBDA e : IF e.op \in ops /\ Lost(e.kids[place]) THEN [e EXCEPT !.kids[place] = value] ELSE e,
            Nothing, e0)

KeyedOps == {"StorageGet", "StorageHas", "StorageRemove", "StorageSet", "StorageExtendTtl"}
RepairKeys(t, h) ==
    IF UniqueKey(h) = {} THEN t
    ELSE LET key == CHOOSE k \in UniqueKey(h) : TRUE
         IN  MapButBounds(LAMBDA e : RepairAt(KeyedOps, 1, IsLost, key, e), t)

InvokeOps == {"InvokeContract", "TryInvokeContract"}
RepairInvokes(t, h) ==
    IF UniqueInvoke(h) = {} THEN t
    ELSE LET f == CHOOSE k \in UniqueInvoke(h) : TRUE
         IN  MapButBounds(LAMBDA e : RepairAt(InvokeOps, 2, IsLostFunction, f, e), t)

(* An event node is [topics.., data]: topics only when as many as observed. *)
Filled(es, values) == [i \in DOMAIN es |-> IF IsLost(es[i]) THEN values[i] ELSE es[i]]
DataOf(values) == IF values = <<>> THEN VoidVal
                  ELSE IF Len(values) = 1 THEN values[1] ELSE Node("TupleConstruct", <<>>, values)
RepairData(data, values) ==
    IF IsLost(data) THEN DataOf(values)
    ELSE IF data.op \in {"TupleConstruct", "VecConstruct"} /\ Len(data.kids) = Len(values)
         THEN [data EXCEPT !.kids = Filled(@, values)] ELSE data
RepairEvent(e, topics, values) ==
    LET n == Len(e.kids) - 1
        own == SubSeq(e.kids, 1, n)
    IN  [e EXCEPT !.kids = (IF n = Len(topics) THEN Filled(own, topics) ELSE own)
                           \o <<RepairData(e.kids[n + 1], values)>>]
RepairEvents(t, h) ==
    IF UniqueEvent(h) = {} THEN t
    ELSE LET ev == CHOOSE k \in UniqueEvent(h) : TRUE
         IN  MapButBounds(LAMBDA e : MapOutermost(LAMBDA n : n.op = "PublishEvent",
                                               LAMBDA n : RepairEvent(n, ev[1], ev[2]), Nothing, e), t)

AuthOps == {"RequireAuth", "RequireAuthForArgs", "AuthorizeAsCurrContract"}
RepairAuthNode(e, address, args) ==
    LET Repaired(x, value) == IF IsWeakAuth(x) THEN value ELSE x IN
    CASE e.op = "AuthorizeAsCurrContract" ->
             IF address = <<>> THEN [e EXCEPT !.kids[1] = Repaired(@, args)] ELSE e
      [] OTHER ->
             LET who == IF address = <<>> THEN e ELSE [e EXCEPT !.kids[1] = Repaired(@, address[1])]
             IN  IF e.op = "RequireAuth" THEN who ELSE [who EXCEPT !.kids[2] = Repaired(@, args)]
RepairAuth(t, h) ==
    IF UniqueAuth(h) = {} THEN t
    ELSE LET a == CHOOSE k \in UniqueAuth(h) : TRUE
         IN  MapButBounds(LAMBDA e : MapOutermost(LAMBDA n : n.op \in AuthOps,
                                               LAMBDA n : RepairAuthNode(n, a[1], a[2]), Nothing, e), t)

RepairFromHints(t, h) == RepairAuth(RepairInvokes(RepairEvents(RepairKeys(t, h), h), h), h)
-----------------------------------------------------------------------------

VarName(i)   == "var_" \o ToString(i)
VarNames     == {VarName(i) : i \in 0..9}
LedgerSeq    == Leaf("Ledger", "sequence")
IsInstance(e) == "Instance" \in ToSet(e.at)

(* 4c2: behind if has(key) a lost key of an extend_ttl is that key. *)
IsTtl(s) == s.k = "Expr" /\ s.es[1].op = "StorageExtendTtl"
RECURSIVE ReplaceTtlKeys(_, _)
ReplaceTtlKeys(t, key) ==
    [i \in DOMAIN t |->
        IF IsTtl(t[i]) /\ t[i].es[1].kids[1] = UnknownVal THEN [t[i] EXCEPT !.es[1].kids[1] = key]
        ELSE IF t[i].k = "For" THEN t[i]
        ELSE [t[i] EXCEPT !.bodies = [j \in DOMAIN @ |-> ReplaceTtlKeys(@[j], key)]]]
RECURSIVE RecoverExtendTtlKeys(_)
RecoverExtendTtlKeys(t) ==
    LET guarded(s, j, b) == IF s.k = "If" /\ j = 1 /\ s.es[1].op = "StorageHas"
                            THEN ReplaceTtlKeys(b, s.es[1].kids[1]) ELSE b
    IN  [i \in DOMAIN t |->
            IF t[i].k = "For" THEN t[i]
            ELSE [t[i] EXCEPT !.bodies = [j \in DOMAIN @ |-> RecoverExtendTtlKeys(guarded(t[i], j, @[j]))]]]

(* 4c3: a ledger number read on its own belongs to the extend_ttl that     *)
(* follows within five statements and lacks a subtrahend.                  *)
LacksLedger(e) == e.op = "Sub" /\ e.kids[2] = UnknownVal
NextTtl(t, i) == SelectInSeq(SubSeq(t, i + 1, IF i + 5 < Len(t) THEN i + 5 ELSE Len(t)), IsTtl)
Orphans(t) == {i \in DOMAIN t : /\ t[i] = Expr(LedgerSeq) /\ NextTtl(t, i) # 0
                                /\ \E k \in {2, 3} : LacksLedger(t[i + NextTtl(t, i)].es[1].kids[k])}
FilledTtl(e) == [e EXCEPT !.kids = [k \in DOMAIN @ |-> IF k > 1 /\ LacksLedger(@[k])
                                                       THEN [@[k] EXCEPT !.kids[2] = LedgerSeq] ELSE @[k]]]
RECURSIVE MergeOrphanLedger(_)
MergeOrphanLedger(t) ==
    IF Orphans(t) # {}
    THEN LET i == CHOOSE i \in Orphans(t) : \A j \in Orphans(t) : i <= j
             ttl == i + NextTtl(t, i)
         IN  MergeOrphanLedger(RemoveAt([t EXCEPT ![ttl].es[1] = FilledTtl(@)], i))
    ELSE [i \in DOMAIN t |->
            IF t[i].k = "For" THEN t[i]
            ELSE [t[i] EXCEPT !.bodies = [j \in DOMAIN @ |-> MergeOrphanLedger(@[j])]]]

-----------------------------------------------------------------------------
(* 4f: a local in a parameter's slot that is never bound again is that     *)
(* parameter.  The first slot is 0 when the body's uses fit that better.   *)
RECURSIVE IsParamAlias(_, _)
IsParamAlias(n, e) ==
    \/ e.op \in Locals /\ NameOf(e) = n
    \/ e.op = "Param"
    \/ e.op \in {"ValConvert", "CastAs"} /\ IsParamAlias(n, e.kids[1])
ReboundLocals(t) == {s.name : s \in {s \in StmtsOf(OutsideFors(t)) :
                                        s.k \in {"Let", "Assign"} /\ ~ IsParamAlias(s.name, s.es[1])}}
SlotHits(fn, t, base) ==
    SelectSeq(NodeSeq(OutsideFors(t)),
              LAMBDA e : /\ e.op = "Local" /\ NameOf(e) \notin ReboundLocals(t)
                         /\ \E i \in DOMAIN fn.params : NameOf(e) = VarName(base + i - 1))
HitPrefix(fn, t, base) ==
    LET hit == {NameOf(e) : e \in ToSet(SlotHits(fn, t, base))}
    IN  Cardinality({i \in DOMAIN fn.params : \A j \in 1..i : VarName(base + j - 1) \in hit})
FitsZero(fn, t) ==
    LET zero == HitPrefix(fn, t, 0)   own == HitPrefix(fn, t, fn.paramBase)
    IN  /\ zero >= (IF fn.takesEnv \/ Len(fn.params) > 1 THEN 2 ELSE 1)
        /\ zero > own \/ (zero = own /\ Len(SlotHits(fn, t, 0)) > Len(SlotHits(fn, t, fn.paramBase)))
ParamLocalBase(fn, t) ==
    IF fn.paramBase = 1 /\ fn.params # <<>> /\ FitsZero(fn, t) THEN 0 ELSE fn.paramBase
ParamWalkLeaves == {"Try", "Some", "ValTag", "SretResult", "VecTryIterFold"}
ReplaceLocalWithParam(e, paramOf) ==    \* paramOf: of the locals that stand for one
    MapOutermost(LAMBDA n : n.op = "Local" /\ NameOf(n) \in DOMAIN paramOf,
                 LAMBDA n : Param(paramOf[NameOf(n)]), ParamWalkLeaves, e)
ResolveParamLocals(fn, t) ==
    LET slot(base)  == [n \in {VarName(base + i - 1) : i \in DOMAIN fn.params} \ ReboundLocals(t) |->
                           fn.params[CHOOSE i \in DOMAIN fn.params : n = VarName(base + i - 1)][1]]
        all(paramOf) == MapOutsideFors(LAMBDA e : ReplaceLocalWithParam(e, paramOf), t)
    IN  all(slot(ParamLocalBase(fn, t)))

(* 4g: env is a parameter only where something is written with it. *)
EnvOps == {"StorageGet", "StorageSet", "StorageHas", "StorageRemove", "StorageExtendTtl", "InvokeContract",
           "TryInvokeContract", "VecConstruct", "MapConstruct", "CollectionNew", "Log", "PanicWithError",
           "PublishEvent", "String", "Bytes", "Ledger", "AuthorizeAsCurrContract", "RawHostCall", "Env"}
UsesEnv(t) == Has(t, LAMBDA e : e.op \in EnvOps \/ (e.op = "Symbol" /\ e.at[1] \in LongSymbols))

-----------------------------------------------------------------------------
(* 4h: parameters the body never mentions, whose encoding branches, fill   *)
(* the arguments of a call, or the one stored value, that are artifacts.   *)
ArtifactProne == {"U64", "I64", "U128", "I128", "Timepoint", "Duration", "U256", "I256"}
RECURSIVE IsArtifact(_)
IsArtifact(e) ==                        \* every integer of up to 64 bits is one
    \/ e.op \in {"UnknownVal", "Int", "Bool"}
    \/ e.op \in {"Not", "ValConvert"} /\ IsArtifact(e.kids[1])
    \/ e.op \in Arith \cup Compare /\ \A i \in {1, 2} : IsArtifact(e.kids[i])
UsedWalkLeaves == {"CastAs", "Try", "Some", "ValTag", "SretResult", "VecTryIterFold", "PrngVecShuffle"}
UnusedParams(fn, t) ==
    LET used == {NameOf(e) : e \in {e \in NodesOf(OutsideFors(t), UsedWalkLeaves) : e.op \in {"Param", "NamedLocal"}}}
    IN  SelectSeq(fn.params, LAMBDA p : p[1] \notin used /\ p[2] \in ArtifactProne)
ArtifactCarriers == Arith \cup Compare \cup {"And", "Or", "Not", "FieldAccess", "ValConvert", "MethodCall"}
RECURSIVE ReplaceArtifacts(_, _)
ReplaceArtifacts(e, unused) ==
    LET lost == SelectSeq([i \in DOMAIN e.kids |-> i], LAMBDA i : i > 2 /\ IsArtifact(e.kids[i]))
        rank(i) == SelectInSeq(lost, LAMBDA j : j = i)
    IN  CASE e.op \in InvokeOps ->
               IF Len(lost) > Len(unused) THEN e
               ELSE [e EXCEPT !.kids = [i \in DOMAIN @ |-> IF rank(i) = 0 THEN @[i] ELSE Param(unused[rank(i)][1])]]
          [] e.op = "StorageSet" ->
               IF Len(unused) = 1 /\ IsArtifact(e.kids[2]) THEN [e EXCEPT !.kids[2] = Param(unused[1][1])] ELSE e
          [] e.op \in ArtifactCarriers -> [e EXCEPT !.kids = [i \in DOMAIN @ |-> ReplaceArtifacts(@[i], unused)]]
          [] OTHER -> e
ResolveUnusedInvokeParams(fn, t) ==
    IF UnusedParams(fn, t) = <<>> THEN t
    ELSE MapOutsideFors(LAMBDA e : ReplaceArtifacts(e, UnusedParams(fn, t)), t)

(* 4h2: a converted local no let of the body gives a value is the first    *)
(* let that converts a field to the same type.                             *)
TopLets(t) == SelectSeq(t, LAMBDA s : s.k = "Let" /\ s.name \in VarNames)
HasMeaning(t, n) == \E s \in ToSet(TopLets(t)) : s.name = n /\ s.es[1].op \notin {"Local", "UnknownVal"}
FieldLets(t) == SelectSeq(TopLets(t), LAMBDA s : s.es[1].op = "ValConvert" /\ s.es[1].kids[1].op = "FieldAccess")
RECURSIVE ResolveConverted(_, _)
ResolveConverted(e, t) ==
    LET x == e.kids[1]
        i == SelectInSeq(FieldLets(t), LAMBDA s : s.es[1].at = e.at)
        lost == \/ x.op = "Local" /\ ~ HasMeaning(t, NameOf(x))
                \/ x.op = "NamedLocal" /\ NameOf(x) \in VarNames
        deeper(from) == [e EXCEPT !.kids = [k \in DOMAIN @ |-> IF k \in from THEN ResolveConverted(@[k], t) ELSE @[k]]]
    IN  CASE e.op = "ValConvert" -> IF lost /\ i # 0 THEN [e EXCEPT !.kids[1] = Local(FieldLets(t)[i].name)]
                                    ELSE deeper({1})
          [] e.op \in InvokeOps  -> deeper(DOMAIN e.kids \ {2})
          [] e.op \in {"VecConstruct", "TupleConstruct"} -> deeper(DOMAIN e.kids)
          [] OTHER -> e
RECURSIVE ConvertedIn(_, _)
ConvertedIn(u, t) ==
    [i \in DOMAIN u |-> IF u[i].k = "For" THEN u[i]
        ELSE [u[i] EXCEPT !.es = [j \in DOMAIN @ |-> IF u[i].k = "Match" THEN @[j] ELSE ResolveConverted(@[j], t)],
                          !.bodies = [j \in DOMAIN @ |-> ConvertedIn(@[j], t)]]]
ResolveUnboundInvokeLocals(t) == IF FieldLets(t) = <<>> THEN t ELSE ConvertedIn(t, t)

-----------------------------------------------------------------------------
(* 4i: a match whose arms all produce a value, in front of a returned name,*)
(* is what the function returns; the name's let was an artifact.           *)
Producing == {"StorageGet", "StorageHas", "InvokeContract", "TryInvokeContract", "MethodCall"}
ProducesAll(s) ==
    /\ s.k = "Match"
    /\ \A p \in ToSet(s.pats) : p # <<>>
    /\ \A b \in ToSet(s.bodies) : Len(b) = 1 /\ b[1].k \in {"Expr", "Return"} /\ b[1].es # <<>>
                                  /\ b[1].es[1].op \in Producing
IsParamGet(e) == e.op = "MethodCall" /\ e.at[1] = "get" /\ e.kids[1].op = "Param"
PromoteMatchArms(fn, t) ==
    LET n == Len(t)
        tail == NameOf(t[n].es[1])
        arms == [j \in DOMAIN t[n - 1].bodies |-> <<Expr(t[n - 1].bodies[j][1].es[1])>>]
        kept == Append(SubSeq(t, 1, n - 2), [t[n - 1] EXCEPT !.bodies = arms])
        l    == SelectInSeq(kept, LAMBDA s : s.k = "Let" /\ s.name = tail)
    IN  IF /\ fn.ret # <<>> /\ n >= 2 /\ t[n].k \in {"Expr", "Return"} /\ t[n].es # <<>>
           /\ t[n].es[1].op \in {"NamedLocal", "Param"} /\ ProducesAll(t[n - 1])
        THEN IF l # 0 /\ (kept[l].es[1].op \notin Producing \/ IsParamGet(kept[l].es[1]))
             THEN RemoveAt(kept, l) ELSE kept
        ELSE t

(* 4j: a lost value in an arm whose variant carries an integer enum is     *)
(* that number.                                                            *)
EndsIn(s, e) == s.k \in {"Assign", "Expr", "Return"} /\ s.es = <<e>>
NumberOf == CastAs(NamedLocal("val"), "i64")
CastsArm(p, b) == /\ Len(p) = 3 /\ p[3] = "_" /\ IsUnion(p[1])
                  /\ PayloadTypes(p[1], p[2]) # <<>> /\ PayloadTypes(p[1], p[2])[1] \in Registry.enums
                  /\ \E s \in ToSet(b) : EndsIn(s, UnknownVal)
RECURSIVE RecoverEnumCastArms(_)
RecoverEnumCastArms(t) ==
    LET cast(b) == [i \in DOMAIN b |-> IF EndsIn(b[i], UnknownVal) THEN [b[i] EXCEPT !.es = <<NumberOf>>] ELSE b[i]]
    IN  [i \in DOMAIN t |-> LET s == t[i] IN
            CASE s.k = "For" -> s
              [] s.k = "Match" ->
                   [s EXCEPT !.pats = [j \in DOMAIN @ |-> IF CastsArm(@[j], s.bodies[j]) THEN [@[j] EXCEPT ![3] = "val"]
                                                          ELSE @[j]],
                             !.bodies = [j \in DOMAIN @ |-> RecoverEnumCastArms(
                                            IF CastsArm(s.pats[j], @[j]) THEN cast(@[j]) ELSE @[j])]]
              [] OTHER -> [s EXCEPT !.bodies = [j \in DOMAIN @ |-> RecoverEnumCastArms(@[j])]]]

(* 4p: an arm that returns a struct payload where a number is returned     *)
(* returns the sum of its fields of that type.                             *)
Primitive == {"I64", "U64", "I128", "U128", "I32", "U32", "I256", "U256"}
FieldSum(n, fields) == FoldLeft(LAMBDA acc, f : Bin("Add", acc, Field(NamedLocal(n), f)),
                                Field(NamedLocal(n), Head(fields)), Tail(fields))
PayloadFields(p, ty) ==                 \* of the type that is returned
    IF /\ Len(p) = 3 /\ p[3] # "_" /\ IsUnion(p[1]) /\ PayloadTypes(p[1], p[2]) # <<>>
       /\ IsStruct(PayloadTypes(p[1], p[2])[1])
    THEN LET st == PayloadTypes(p[1], p[2])[1]
         IN  SelectSeq(FieldNames(st), LAMBDA f : FieldType(st, f) = ty)
    ELSE <<>>
RECURSIVE StructFieldArms(_, _)
StructFieldArms(t, ty) ==
    LET bare(b, n) == b # <<>> /\ EndsIn(Last(b), NamedLocal(n))
        summed(p, b) == IF PayloadFields(p, ty) # <<>> /\ bare(b, p[3])
                        THEN [b EXCEPT ![Len(b)].es = <<FieldSum(p[3], PayloadFields(p, ty))>>] ELSE b
    IN  [i \in DOMAIN t |-> LET s == t[i] IN
            CASE s.k = "For" -> s
              [] s.k = "Match" -> [s EXCEPT !.bodies = [j \in DOMAIN @ |-> StructFieldArms(summed(s.pats[j], @[j]), ty)]]
              [] OTHER -> [s EXCEPT !.bodies = [j \in DOMAIN @ |-> StructFieldArms(@[j], ty)]]]
RecoverStructFieldArms(fn, t) ==
    IF Len(fn.ret) = 1 /\ fn.ret[1] \in Primitive THEN StructFieldArms(t, fn.ret[1]) ELSE t

(* 4m2: a key of instance storage, or of a let, whose payload was lost is  *)
(* the union's variant without one.                                        *)
VoidVariants(ty) == SelectSeq(Registry.unions[ty], LAMBDA c : c[2] = <<>>)
ToVoidVariant(e) ==
    IF e.op = "EnumConstruct" /\ e.kids = <<UnknownVal>> /\ IsUnion(e.at[1]) /\ VoidVariants(e.at[1]) # <<>>
    THEN Enum(e.at[1], VoidVariants(e.at[1])[1][1], <<>>) ELSE e
FixInstanceKey(e) ==
    IF e.op \in {"StorageSet", "StorageGet", "StorageHas"} /\ IsInstance(e)
    THEN [e EXCEPT !.kids[1] = ToVoidVariant(@)] ELSE e
RECURSIVE FixMisidentifiedInstanceKeys(_)
FixMisidentifiedInstanceKeys(t) ==
    [i \in DOMAIN t |->
        CASE t[i].k = "Let" -> [t[i] EXCEPT !.es[1] = ToVoidVariant(@)]
          [] t[i].k = "For" -> t[i]
          [] OTHER -> [t[i] EXCEPT !.es = [j \in DOMAIN @ |-> IF t[i].k \in {"Expr", "If"} THEN FixInstanceKey(@[j])
                                                              ELSE @[j]],
                                   !.bodies = [j \in DOMAIN @ |-> FixMisidentifiedInstanceKeys(@[j])]]]
=============================================================================
