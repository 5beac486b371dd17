----------------------------- MODULE KeyRepairs -----------------------------
(* Repairs that name what the specification knows: the binding of an arm,  *)
(* the event that is published, the union a key belongs to (stages 4k, 4l  *)
(* and 4m of pipeline.rs).  The registry also has snake, the snake_case of *)
(* its names, and events, a sequence of [symbols, name, topics, data,      *)
(* addresses]: the names that call it, its fields, those of type Address.  *)
EXTENDS ParamRepairs

Tuples == {"TupleConstruct", "VecConstruct"}
Conversions == {"ValConvert", "CastAs"}

(* 4k: a large literal in a let is an artifact; where only arms with an    *)
(* unbound payload mention it, the payload is bound and takes its place.   *)
Large == {"300"}                        \* literals beyond 255
IsArtifactLiteral(e) == Bare(e) \in {IntLit(n) : n \in Large}
IsArtifactLet(s) == s.k = "Let" /\ s.pats = <<>> /\ s.name \in VarNames /\ IsArtifactLiteral(s.es[1])
RECURSIVE Mentions(_, _)
Mentions(e, n) ==
    \/ e.op \in Locals /\ NameOf(e) = n
    \/ /\ e.op \in Arith \cup Compare \cup {"And", "Or", "Not"} \cup Conversions
       /\ \E i \in DOMAIN e.kids : Mentions(e.kids[i], n)
RefersTo(t, n) == \E s \in StmtsOf(OutsideFors(t)) : \E i \in DOMAIN s.es : Mentions(s.es[i], n)
PayloadName(p) ==                       \* <<>> where the arm cannot bind one
    LET types == IF Len(p) = 3 /\ p[3] = "_" /\ IsUnion(p[1]) THEN PayloadTypes(p[1], p[2]) ELSE <<>>
    IN  IF types = <<>> \/ types[1] \in Registry.enums THEN <<>>
        ELSE IF IsStruct(types[1]) \/ IsUnion(types[1]) THEN <<Registry.snake[types[1]]>> ELSE <<"val">>
RECURSIVE RenameValue(_, _, _)
RenameValue(e, old, new) ==
    IF e.op \in Locals /\ NameOf(e) = old THEN NamedLocal(new)
    ELSE IF e.op \in Conversions THEN [e EXCEPT !.kids[1] = RenameValue(@, old, new)] ELSE e
RenameInArm(b, old, new) ==             \* in the statements of the arm itself
    [i \in DOMAIN b |-> IF b[i].k \in {"Assign", "Expr", "Return"}
                        THEN [b[i] EXCEPT !.es = [j \in DOMAIN @ |-> RenameValue(@[j], old, new)]] ELSE b[i]]
UsingArms(t, n) ==
    UNION {{<<i, j>> : j \in {j \in DOMAIN t[i].bodies : RefersTo(t[i].bodies[j], n)}} :
              i \in {i \in DOMAIN t : t[i].k = "Match"}}
AllReplaceable(t, n) ==
    /\ \A a \in UsingArms(t, n) : PayloadName(t[a[1]].pats[a[2]]) # <<>>
    /\ \A i \in DOMAIN t : \/ t[i].k = "Match" \/ (t[i].k = "Let" /\ t[i].name = n)
                           \/ ~ RefersTo(<<t[i]>>, n)
BindPayloads(t, n) ==
    LET using(i, j) == <<i, j>> \in UsingArms(t, n)
        name(i, j) == PayloadName(t[i].pats[j])[1]
    IN  SelectSeq([i \in DOMAIN t |-> [t[i] EXCEPT
                      !.pats   = [j \in DOMAIN @ |-> IF using(i, j) THEN [@[j] EXCEPT ![3] = name(i, j)] ELSE @[j]],
                      !.bodies = [j \in DOMAIN @ |-> IF using(i, j) THEN RenameInArm(@[j], n, name(i, j)) ELSE @[j]]]],
                  LAMBDA s : ~ (s.k = "Let" /\ s.name = n))
ReplaceMatchArmArtifactRefs(t) ==
    FoldLeft(LAMBDA u, s : IF UsingArms(u, s.name) # {} /\ AllReplaceable(u, s.name)
                           THEN BindPayloads(u, s.name) ELSE u,
             t, SelectSeq(t, IsArtifactLet))

-----------------------------------------------------------------------------
(* 4l: topics that spell a declared event, and data with its other fields, *)
(* are that event.                                                         *)
Topics(e) == LET own == Front(e.kids)
             IN  IF Len(own) = 1 /\ own[1].op \in Tuples THEN own[1].kids ELSE own
EventNamed(topics) ==
    IF topics = <<>> \/ topics[1].op # "Symbol" THEN 0
    ELSE SelectInSeq(Registry.events, LAMBDA ev : topics[1].at[1] \in ev.symbols)
AddressOf(fn, ev, field, e) ==          \* of a MuxedAddress parameter
    IF e.op = "Param" /\ field \in ev.addresses /\ <<NameOf(e), "MuxedAddress">> \in ToSet(fn.params)
    THEN Method(e, "address", <<>>) ELSE e
EventStruct(fn, ev, topics, data) ==
    LET names  == ev.topics \o Tail(data.at)
        values == Tail(topics) \o data.kids
    IN  Struct(ev.name, names, [i \in DOMAIN values |-> AddressOf(fn, ev, names[i], values[i])])
RecoverEvent(fn, e) ==
    LET ev   == Registry.events[EventNamed(Topics(e))]
        data == IF Last(e.kids).op = "VecConstruct" /\ Len(ev.data) = Len(Last(e.kids).kids)
                THEN Struct(ev.name, ev.data, Last(e.kids).kids) ELSE Last(e.kids)
    IN  IF /\ e.op = "PublishEvent" /\ e.at = <<>> /\ EventNamed(Topics(e)) # 0
           /\ Len(ev.topics) = Len(Topics(e)) - 1 /\ data.op = "StructConstruct"
        THEN Node("PublishEvent", <<ev.name>>, <<EventStruct(fn, ev, Topics(e), data)>>) ELSE e
RecoverEventPublish(fn, t) == MapKinds(Valued, LAMBDA e : RecoverEvent(fn, e), t)

-----------------------------------------------------------------------------
(* 4m: a symbol that names one union's variant is that variant, with the   *)
(* data next to it.                                                        *)
UnionsWith(v)  == {u \in DOMAIN Registry.unions : v \in ToSet(VariantNames(u))}
IsVariant(v)   == Cardinality(UnionsWith(v)) = 1
TheUnion(v)    == CHOOSE u \in UnionsWith(v) : TRUE
HasData(v)     == IsVariant(v) /\ PayloadTypes(TheUnion(v), v) # <<>>
IsUnit(v)      == IsVariant(v) /\ PayloadTypes(TheUnion(v), v) = <<>>
IsPair(e)      == e.op \in Tuples /\ Len(e.kids) = 2
AsEnumKey(e) ==
    LET v == IF e.op = "Symbol" THEN e ELSE e.kids[1] IN
    CASE IsPair(e) /\ v.op = "Symbol" /\ HasData(v.at[1]) -> Enum(TheUnion(v.at[1]), v.at[1], <<e.kids[2]>>)
      [] \/ e.op = "Symbol" /\ IsUnit(v.at[1])
         \/ e.op \in Tuples /\ Len(e.kids) = 1 /\ v.op = "Symbol" /\ IsUnit(v.at[1])
                                       -> Enum(TheUnion(v.at[1]), v.at[1], <<>>)
      [] OTHER -> e
KeyWalk == KeyedOps \cup Tuples \cup Conversions \cup Arith \cup Compare
           \cup {"MethodCall", "Not", "ErrorFromCode", "And", "Or", "RequireAuth", "RequireAuthForArgs",
                 "StructConstruct", "EnumConstruct", "FieldAccess", "PublishEvent"}
KeyReach(e) == IF e.op \in InvokeOps THEN 3..Len(e.kids) ELSE IF e.op \in KeyWalk THEN DOMAIN e.kids ELSE {}
RecoverEnumKey(e) == MapReached(LAMBDA n : AsEnumKey(n) # n, AsEnumKey, KeyReach, e)

(* The same through a let of the symbol: in everything below its list, the *)
(* last let of the list for a name.                                        *)
SymbolLet(t, n) == SelectLastInSeq(t, LAMBDA s : s.k = "Let" /\ s.name = n /\ s.es[1].op = "Symbol")
IndirectKey(t, e) ==
    LET l == SymbolLet(t, NameOf(e.kids[1]))
        v == t[l].es[1].at[1]
    IN  IF /\ IsPair(e) /\ e.kids[1].op \in Variables /\ l # 0 /\ HasData(v)
        THEN Enum(TheUnion(v), v, <<e.kids[2]>>) ELSE e
IndirectReach(e) == IF e.op = "StorageExtendTtl" THEN {1}
                    ELSE IF e.op \in KeyedOps \cup Tuples \cup {"MethodCall"} THEN DOMAIN e.kids ELSE {}
ResolveIndirectKeys(t) ==
    MapOutsideFors(LAMBDA e : MapReached(LAMBDA n : IndirectKey(t, n) # n, LAMBDA n : IndirectKey(t, n),
                                         IndirectReach, e), t)
RECURSIVE RecoverEnumKeyConstruction(_)
RecoverEnumKeyConstruction(t) ==
    ResolveIndirectKeys([i \in DOMAIN t |-> IF t[i].k = "For" THEN t[i]
        ELSE [t[i] EXCEPT !.es = [j \in DOMAIN @ |-> RecoverEnumKey(@[j])],
                          !.bodies = [j \in DOMAIN @ |-> RecoverEnumKeyConstruction(@[j])]]])
=============================================================================
