------------------------------ MODULE IrHusks -------------------------------
(* optimizer.rs, what lifting leaves behind: reads whose value is thrown   *)
(* away, a guard and the read it guards taken apart, checks of an          *)
(* argument's tag.  A key stands for itself and its storage type.  There   *)
(* is no For yet: the last pass makes them.                                *)
EXTENDS IrFold

IsCall(e, m, n) == e.op = "MethodCall" /\ e.at[1] = m /\ Len(e.kids) = n + 1
IsStatement(s, op) == s.k = "Expr" /\ s.es[1].op = op
PanicStatement == Expr(Panic)
RaisesFirst(t) == t # <<>> /\ t[1].k = "Expr" /\ t[1].es[1].op \in {"Panic", "PanicWithError"}

(* The variants whose operands expr_children does not list. *)
Childless == {"EnumConstruct", "InvokeContract", "PublishEvent", "RequireAuthForArgs", "StorageExtendTtl",
              "Try", "Some", "ErrorFromCode", "VecTryIterFold", "ValTag"}

(* Two neighbours made one (Join gives none or one), from the left. *)
Pairwise(Join(_, _), t) ==
    LET RECURSIVE go(_)
        go(u) == IF Len(u) < 2 THEN u
                 ELSE IF Join(u[1], u[2]) # <<>> THEN Join(u[1], u[2]) \o go(SubSeq(u, 3, Len(u)))
                 ELSE <<u[1]>> \o go(Tail(u))
    IN  go(t)

(* Statements of a kind dropped, but not the one the function ends with. *)
DropDiscarded(Husk(_), t) ==
    LET strip(u) == SelectSeq(u, LAMBDA s : ~ Husk(s))
        inner == [i \in DOMAIN t |-> [t[i] EXCEPT !.bodies = [j \in DOMAIN @ |-> MapLists(strip, @[j])]]]
    IN  IF t = <<>> THEN t ELSE Append(strip(Front(inner)), Last(inner))

-----------------------------------------------------------------------------
(* has, then get.                                                          *)
RECURSIVE ReadsKey(_, _)
ReadsKey(s, key) ==
    \/ /\ s.k \in {"Let", "Assign", "Return", "Expr", "If"}
       /\ \E i \in DOMAIN s.es : \E e \in Nodes(s.es[i], Childless) : e.op = "StorageGet" /\ e.kids[1] = key
    \/ s.k = "If" /\ \E b \in ToSet(s.bodies) : \E x \in ToSet(b) : ReadsKey(x, key)
RemoveOrphanHasBeforeGet(t) ==
    LET strip(u) == FlattenSeq([i \in DOMAIN u |->
            IF IsStatement(u[i], "StorageHas") /\ i < Len(u) /\ ReadsKey(u[i + 1], u[i].es[1].kids[1])
            THEN <<>> ELSE <<u[i]>>])
    IN  MapLists(strip, t)

PlainGet(e) == e.op = "StorageGet" /\ e.at[1] \in {"unwrap", "option"}      \* no on_missing
GuardsRead(s) == s.k = "If" /\ s.es[1].op = "StorageHas" /\ s.bodies[2] = <<>> /\ s.bodies[1] # <<>>
GuardKey(s)   == s.es[1].kids[1]
ReadOfGuard(s) ==               \* its body is the read, bound or not
    LET b == s.bodies[1] IN
    /\ Len(b) = 1 /\ b[1].k \in {"Expr", "Let"} /\ PlainGet(b[1].es[1]) /\ b[1].es[1].kids[1] = GuardKey(s)
IsArtifactOfRead(s) == \/ s.k \in {"Expr", "Let"} /\ s.es[1].op = "StorageGet"
                       \/ IsStatement(s, "RawHostCall")
TrapsInGuard(s) == Last(s.bodies[1]) = PanicStatement /\ \A x \in ToSet(Front(s.bodies[1])) : IsArtifactOfRead(x)
TryFoldHasGet(a, b) ==
    IF /\ IsStatement(a, "StorageHas") /\ GuardsRead(b) /\ GuardKey(b) = a.es[1].kids[1]
       /\ ReadOfGuard(b) /\ b.bodies[1][1].k = "Expr"
    THEN <<Expr(GetOption(GuardKey(b)))>> ELSE <<>>
MentionsParam(t) == Has(t, LAMBDA e : e.op = "Param")
RECURSIVE FoldHasGetPattern(_)
FoldHasGetPattern(t) ==
    LET s == t[1]
        redundant ==            \* the trap of the path that has no key
            /\ Len(s.bodies[1]) > 1 /\ Len(t) > 2 /\ t[2] = PanicStatement
            /\ MentionsParam(SubSeq(t, 3, Len(t)))
    IN  IF t = <<>> THEN t
        ELSE IF Len(t) > 1 /\ TryFoldHasGet(s, t[2]) # <<>>
             THEN TryFoldHasGet(s, t[2]) \o FoldHasGetPattern(SubSeq(t, 3, Len(t)))
        ELSE IF GuardsRead(s) /\ ReadOfGuard(s) THEN <<Expr(s.bodies[1][1].es[1])>> \o FoldHasGetPattern(Tail(t))
        ELSE IF GuardsRead(s) /\ TrapsInGuard(s)
             THEN <<Expr(Get(GuardKey(s)))>> \o FoldHasGetPattern(IF redundant THEN SubSeq(t, 3, Len(t)) ELSE Tail(t))
        ELSE <<[s EXCEPT !.bodies = [j \in DOMAIN @ |-> FoldHasGetPattern(@[j])]]>> \o FoldHasGetPattern(Tail(t))

-----------------------------------------------------------------------------
(* A length or a load that was thrown away, put where a value is missing.  *)
CountUnknown(e) ==
    LET RECURSIVE go(_)
        go(x) == (IF x = UnknownVal THEN 1 ELSE 0)
                 + FoldLeft(LAMBDA n, k : n + go(k), 0, Children(x, Childless))
    IN  go(e)
Rebuilt == {"Not", "And", "Or", "ValConvert", "CastAs"} \cup Compare \cup (Arith \ {"Shl"})
RECURSIVE ReplaceSoleUnknown(_, _)
ReplaceSoleUnknown(e, new) ==   \* <<>> where a shape is in the way
    LET i == IF Len(e.kids) = 2 /\ CountUnknown(e.kids[1]) = 0 THEN 2 ELSE 1
        r == ReplaceSoleUnknown(e.kids[i], new)
    IN  IF e = UnknownVal THEN <<new>>
        ELSE IF e.op \notin Rebuilt \/ r = <<>> THEN <<>> ELSE <<[e EXCEPT !.kids[i] = r[1]]>>
RECURSIVE IsPureLenObject(_)
IsPureLenObject(e) == e.op \in Variables \/ (e.op = "FieldAccess" /\ IsPureLenObject(e.kids[1]))
DiscardedPureLen(s) == s.k = "Expr" /\ IsCall(s.es[1], "len", 0) /\ IsPureLenObject(s.es[1].kids[1])
FillConsumer(s, new) ==
    IF s.k \notin Valued \cup {"If"} \/ s.es = <<>> THEN <<>>
    ELSE LET r == ReplaceSoleUnknown(s.es[1], new)
         IN  IF CountUnknown(s.es[1]) # 1 \/ r = <<>> THEN <<>> ELSE <<[s EXCEPT !.es = r]>>
RecoverDiscardedLen(t) ==
    LET join(a, b) == IF DiscardedPureLen(a) THEN FillConsumer(b, a.es[1]) ELSE <<>>
        pair(u) == Pairwise(join, u)
    IN  MapLists(pair, t)

DiscardedGet(s) == IsStatement(s, "StorageGet") /\ s.es[1].at[1] = "unwrap"
IsStaleKey(key, e) == /\ UnknownVal \notin Nodes(key, Nothing)
                      /\ key = e \/ (key.op = "VecConstruct" /\ key.kids = <<e>>)
TakesLoad(s, key) ==            \* a consumer of nothing, or of the key itself
    \/ s.k = "Expr" /\ s.es[1].op \in {"RequireAuth", "RequireAuthForArgs"}
       /\ (s.es[1].kids[1] = UnknownVal \/ IsStaleKey(key, s.es[1].kids[1]))
    \/ ReturnsValue(s) /\ IsStaleKey(key, s.es[1])
RecoverDiscardedStorageGet(t) ==
    LET join(a, b) ==
            IF ~ (DiscardedGet(a) /\ TakesLoad(b, a.es[1].kids[1])) THEN <<>>
            ELSE IF b.k = "Return" THEN <<Return(a.es[1])>>
            ELSE <<[b EXCEPT !.es[1].kids[1] = a.es[1]]>>
        pair(u) == Pairwise(join, u)
    IN  MapLists(pair, t)

-----------------------------------------------------------------------------
(* Values thrown away.                                                     *)
RemoveSpuriousLen(t) == DropDiscarded(LAMBDA s : s.k = "Expr" /\ IsCall(s.es[1], "len", 0), t)
RemoveSpuriousGet(t) == DropDiscarded(LAMBDA s : s.k = "Expr" /\ IsCall(s.es[1], "get", 1), t)
RemoveStandaloneNew(t) == DropDiscarded(LAMBDA s : IsStatement(s, "CollectionNew"), t)
LinearMemory == {"map_unpack_to_linear_memory", "map_new_from_linear_memory"}
IsOrphan(s) ==
    /\ s.k = "Expr"
    /\ LET e == s.es[1] IN
       \/ e.op \in {"UnknownVal", "StorageHas"} \/ IsCall(e, "id", 0) \/ IsCall(e, "address", 0)
       \/ e.op = "MethodCall" /\ e.kids[1].op = "CollectionNew"
       \/ e.op = "RawHostCall" /\ Last(e.at) \in LinearMemory
DropOrphans(t) == LET strip(u) == SelectSeq(u, LAMBDA s : ~ IsOrphan(s)) IN MapLists(strip, t)
DropDuplicates(t) ==            \* the neighbour before, if it is part of this one
    LET take(done, s) == IF /\ done # <<>> /\ Last(done).k = "Expr" /\ s.k \in {"Expr", "Return", "Let"} /\ s.es # <<>>
                            /\ Last(done).es[1] \in Nodes(s.es[1], Nothing)
                         THEN Append(Front(done), s) ELSE Append(done, s)
        strip(u) == FoldLeft(take, <<>>, u)
    IN  MapLists(strip, t)

-----------------------------------------------------------------------------
(* Checks of a tag.                                                        *)
IsValTagExpr(e) == e.op \in {"ValTag", "ValTagName"}
RECURSIVE IsTagCondition(_)
IsTagCondition(e) == \/ e.op = "Not" /\ IsTagCondition(e.kids[1])
                     \/ e.op \in {"Eq", "Ne"} /\ (IsValTagExpr(e.kids[1]) \/ IsValTagExpr(e.kids[2]))
GenuineTags == 4..14 \cup 64..78
TagType == 4 :> "u32" @@ 5 :> "i32" @@ 11 :> "i128" @@ 69 :> "i128" @@ 64 :> "u64" @@ 73 :> "String" @@ 77 :> "Address"
RECURSIVE LostTag(_)            \* <<n>> for a check of what was lost against tag n
LostTag(e) ==
    IF e.op = "Not" THEN LostTag(e.kids[1])
    ELSE IF e.op \notin {"Eq", "Ne"} \/ UnknownVal \notin ToSet(e.kids) THEN <<>>
    ELSE LET o == IF e.kids[1] = UnknownVal THEN e.kids[2] ELSE e.kids[1]
         IN  IF IsInt(o) /\ NumOf(o) \in GenuineTags THEN <<NumOf(o)>> ELSE <<>>
Guards(s) == s.k = "If" /\ s.bodies[2] = <<>> /\ s.bodies[1] # <<>>
LostTagHusk(s) == IF Guards(s) /\ s.bodies[1][1] = PanicStatement THEN LostTag(s.es[1]) ELSE <<>>
RECURSIVE StripTagGuards(_)
StripTagGuards(t) ==
    Spliced(LAMBDA s : IF Guards(s) /\ IsTagCondition(s.es[1]) /\ RaisesFirst(s.bodies[1]) THEN <<>>
                       ELSE IF Guards(s) /\ IsTagCondition(s.es[1]) /\ s.bodies[1][1].k \in {"Break", "Continue"}
                            THEN <<[s EXCEPT !.es = <<UnknownVal>>]>>
                       ELSE IF LostTagHusk(s) # <<>> THEN <<>> ELSE Inside(StripTagGuards, s), t)
RecoverInvokeReturnTypes(t) ==
    LET type(u) == [i \in DOMAIN u |->
            IF /\ i < Len(u) /\ u[i].k \in {"Expr", "Let", "Assign"} /\ u[i].es[1].op = "InvokeContract"
               /\ u[i].es[1].at = <<"Val">> /\ LostTagHusk(u[i + 1]) # <<>>
               /\ LostTagHusk(u[i + 1])[1] \in DOMAIN TagType
            THEN [u[i] EXCEPT !.es[1].at = <<TagType[LostTagHusk(u[i + 1])[1]]>>] ELSE u[i]]
    IN  MapLists(type, t)
=============================================================================
