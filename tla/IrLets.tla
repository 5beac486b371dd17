------------------------------- MODULE IrLets -------------------------------
(* optimizer.rs, what is bound: equal reads made one, bindings dropped or  *)
(* put where they are used, counters nothing reads, locals without a       *)
(* binding, names, and counted loops.  A local var_N is auto-inlined, a    *)
(* named one never is.                                                     *)
EXTENDS IrHusks

CONSTANT Snake          \* the snake_case of the CamelCase names in use

MaxLocal == 4           \* names var_1 .. var_4, and var_1_2 for a shadow of var_1
LocalVars == {"var_" \o ToString(i) : i \in 1..MaxLocal}
Tails     == {ToString(i) : i \in 1..MaxLocal} \cup {ToString(i) \o "_" \o ToString(j) : i, j \in 1..MaxLocal}
Suffix    == [n \in {"var_" \o x : x \in Tails} |-> CHOOSE x \in Tails : n = "var_" \o x]

IsLet(s)     == s.k = "Let"
IsMutable(s) == s.pats # <<>>
Value(s)     == s.es[1]
LetSeq(t)    == SelectSeq(InOrder(t), IsLet)

(* Variants that count_local_in_expr and substitute_local do not enter.    *)
Uncounted == {"Try", "Some", "SretResult", "ValTag", "VecTryIterFold"}
RECURSIVE CountIn(_, _)
CountIn(e, n) == IF e = Local(n) THEN 1
                 ELSE FoldLeft(LAMBDA sum, k : sum + CountIn(k, n), 0, Children(e, Uncounted))
CountAll(es, n) == FoldLeft(LAMBDA sum, e : sum + CountIn(e, n), 0, es)
RECURSIVE CountUses(_, _)
CountUses(t, n) == FoldLeft(LAMBDA sum, s : sum + CountAll(s.es, n)
                              + FoldLeft(LAMBDA m, b : m + CountUses(b, n), 0, s.bodies), 0, t)
UsedInLoop(t, n) == \E s \in StmtsOf(t) : s.k = "Loop" /\ CountUses(s.bodies[1], n) > 0

(* The statements before the next let of the same name.                    *)
BeforeRedef(t, n) == LET i == SelectInSeq(t, LAMBDA s : IsLet(s) /\ s.name = n)
                     IN  IF i = 0 THEN t ELSE SubSeq(t, 1, i - 1)

(* The first use replaced, and only that. *)
RECURSIVE SubstituteIn(_, _, _)
SubstituteIn(es, n, v) ==
    LET i == SelectInSeq(es, LAMBDA e : CountIn(e, n) > 0)
    IN  IF i = 0 THEN es
        ELSE [es EXCEPT ![i] = IF @ = Local(n) THEN v ELSE [@ EXCEPT !.kids = SubstituteIn(@, n, v)]]
RECURSIVE SubstituteLocal(_, _, _)
SubstituteLocal(t, n, v) ==
    LET i == SelectInSeq(t, LAMBDA s : CountUses(<<s>>, n) > 0)
        j == SelectInSeq(t[i].bodies, LAMBDA b : CountUses(b, n) > 0)
    IN  IF i = 0 THEN t
        ELSE IF CountAll(t[i].es, n) > 0 THEN [t EXCEPT ![i].es = SubstituteIn(@, n, v)]
        ELSE [t EXCEPT ![i].bodies[j] = SubstituteLocal(@, n, v)]

(* What an expression itself does, not its operands. *)
HostCalls == {"StorageGet", "StorageSet", "StorageHas", "StorageRemove", "StorageExtendTtl", "RequireAuth",
              "RequireAuthForArgs", "PublishEvent", "InvokeContract", "RawHostCall"}
HasSideEffects(e) == e.op \in HostCalls \/ (e.op = "MethodCall" /\ e.at[1] \notin {"len", "id", "address"})

-----------------------------------------------------------------------------
(* Two reads of one key are one, until something may have written it.      *)
KeepsEntries(s) == s.k \in {"Break", "Continue"} \cup Valued
Forgets_OnlyCalls(s, get) ==
    \/ ~ KeepsEntries(s)
    \/ \E e \in UNION {Nodes(x, Nothing) : x \in ToSet(s.es)} : e.op \in {"RawHostCall", "InvokeContract"}
Forgets(s, get) ==
    LET nodes == UNION {Nodes(e, {"StorageSet", "StorageRemove", "StorageExtendTtl"}) : e \in ToSet(s.es)}
    IN  \/ ~ KeepsEntries(s)
        \/ \E e \in nodes : \/ e.op \in {"RawHostCall", "InvokeContract"}
                            \/ e.op \in {"StorageSet", "StorageRemove"} /\ e.kids[1] = get.kids[1]
RECURSIVE SameGets(_, _, _)
SameGets(done, rest, seen) ==       \* seen: <<read, name of its local>>
    LET s == rest[1]
        plain == IsLet(s) /\ ~ IsMutable(s) /\ s.name \in LocalVars /\ PlainGet(Value(s))
        i == SelectInSeq(seen, LAMBDA p : p[1] = Value(s))
        near == BeforeRedef(Tail(rest), s.name)
        far  == SubSeq(rest, Len(near) + 2, Len(rest))
    IN  IF rest = <<>> THEN done
        ELSE IF plain /\ i # 0 THEN SameGets(done, SubstituteLocal(near, s.name, Local(seen[i][2])) \o far, seen)
        ELSE IF plain THEN SameGets(Append(done, s), Tail(rest), Append(seen, <<Value(s), s.name>>))
        ELSE SameGets(Append(done, s), Tail(rest), SelectSeq(seen, LAMBDA p : ~ Forgets(s, p[1])))

(* A conversion of a local that is not bound takes the field of its type.  *)
FieldLets(t) == SelectSeq(t, LAMBDA s : /\ IsLet(s) /\ s.name \in LocalVars
                                        /\ Value(s).op = "ValConvert" /\ Value(s).kids[1].op = "FieldAccess")
ResolveValConvertLocals(t) ==
    LET defined == {s.name : s \in ToSet(SelectSeq(t, IsLet))} \cap LocalVars
        field(ty) == SelectInSeq(FieldLets(t), LAMBDA s : Value(s).at = ty)
        hit(e) == e.op = "ValConvert" /\ e.kids[1].op = "Local" /\ NameOf(e.kids[1]) \notin defined /\ field(e.at) # 0
        fill(e) == [e EXCEPT !.kids[1] = Local(FieldLets(t)[field(e.at)].name)]
        reach(e) == CASE e.op = "InvokeContract" -> DOMAIN e.kids \ {2}
                      [] e.op \in {"ValConvert", "VecConstruct", "TupleConstruct", "Add", "Sub", "Mul"} -> DOMAIN e.kids
                      [] OTHER -> {}
    IN  MapKinds(Valued \cup {"If"}, LAMBDA e : MapReached(hit, fill, reach, e), t)

(* A binding nobody reads goes, one read once moves to where it is read.   *)
RemoveDeadAssigns(t, n) ==          \* not those of the list itself
    LET RECURSIVE drop(_)
        drop(u) == Spliced(LAMBDA s : IF s.k # "Assign" \/ s.name # n
                                      THEN <<[s EXCEPT !.bodies = [j \in DOMAIN @ |-> drop(@[j])]]>>
                                      ELSE IF HasSideEffects(Value(s)) THEN <<Expr(Value(s))>> ELSE <<>>, u)
        limit == Len(BeforeRedef(t, n))
    IN  [i \in DOMAIN t |-> IF i > limit THEN t[i] ELSE [t[i] EXCEPT !.bodies = [j \in DOMAIN @ |-> drop(@[j])]]]
RECURSIVE InlineLets(_, _)
InlineLets(done, rest) ==
    LET s == rest[1]  later == Tail(rest)
        near == BeforeRedef(later, s.name)
        uses == CountUses(near, s.name)
        acts == HasSideEffects(Value(s))
        once == ~ IsMutable(s) /\ uses = 1 /\ ~ UsedInLoop(near, s.name)
    IN  IF rest = <<>> THEN done
        ELSE IF ~ IsLet(s) \/ s.name \notin LocalVars THEN InlineLets(Append(done, s), later)
        ELSE IF uses = 0 /\ ~ acts
             THEN InlineLets(done, IF IsMutable(s) THEN RemoveDeadAssigns(later, s.name) ELSE later)
        ELSE IF uses = 0 /\ ~ IsMutable(s) THEN InlineLets(Append(done, Expr(Value(s))), later)
        ELSE IF once /\ ~ acts THEN InlineLets(done, SubstituteLocal(later, s.name, Value(s)))
        ELSE IF once /\ CountUses(<<later[1]>>, s.name) = 1
             THEN InlineLets(done, SubstituteLocal(<<later[1]>>, s.name, Value(s)) \o Tail(later))
        ELSE InlineLets(Append(done, s), later)

(* Two equal values are one. *)
RECURSIVE SameValues(_, _, _)
SameValues(done, rest, seen) ==
    LET s == rest[1]
        plain == IsLet(s) /\ ~ IsMutable(s) /\ s.name \in LocalVars /\ ~ HasSideEffects(Value(s))
        i == SelectInSeq(seen, LAMBDA p : p[1] = Value(s))
    IN  IF rest = <<>> THEN done
        ELSE IF plain /\ i # 0 THEN SameValues(done, SubstituteLocal(Tail(rest), s.name, Local(seen[i][2])), seen)
        ELSE SameValues(Append(done, s), Tail(rest), IF plain THEN Append(seen, <<Value(s), s.name>>) ELSE seen)

RemoveRedundantLets(t) ==
    LET clean(u) == SameValues(<<>>, InlineLets(<<>>, ResolveValConvertLocals(SameGets(<<>>, u, <<>>))), <<>>)
    IN  MapLists(clean, t)

-----------------------------------------------------------------------------
(* A counter that only feeds itself. *)
ReadsLocal(e, n) == \E x \in Nodes(e, Nothing) : x.op \in Locals /\ NameOf(x) = n
ReadOutsideSelfAssigns(t, n) ==
    \E s \in StmtsOf(t) : IF s.k = "Assign" /\ s.name = n THEN ~ IsEffectFree(Value(s))
                          ELSE \E e \in ToSet(s.es) : ReadsLocal(e, n)
StripVar(t, n) ==
    LET strip(u) == SelectSeq(u, LAMBDA s : ~ (s.k \in {"Let", "Assign"} /\ s.name = n)) IN MapLists(strip, t)
RECURSIVE RemoveDeadCarriedCounters(_)
RemoveDeadCarriedCounters(t) ==
    LET dead == SelectSeq(t, LAMBDA s : /\ IsLet(s) /\ IsMutable(s) /\ IsEffectFree(Value(s))
                                        /\ Len(SelectSeq(LetSeq(t), LAMBDA l : l.name = s.name)) = 1
                                        /\ ~ ReadOutsideSelfAssigns(t, s.name))
        kept == FoldLeft(LAMBDA u, s : StripVar(u, s.name), t, dead)
    IN  [i \in DOMAIN kept |-> [kept[i] EXCEPT !.bodies = [j \in DOMAIN @ |-> RemoveDeadCarriedCounters(@[j])]]]

(* A let of itself. *)
RECURSIVE IsSelfReferential(_, _)
IsSelfReferential(n, e) ==
    \/ e.op \in Variables /\ NameOf(e) = n
    \/ /\ e.op = "ValConvert" \/ (e.op = "TupleConstruct" /\ Len(e.kids) = 1)
       /\ IsSelfReferential(n, e.kids[1])
RECURSIVE IsParamExpr(_)
IsParamExpr(e) == e.op = "Param" \/ (e.op = "ValConvert" /\ IsParamExpr(e.kids[1]))
TryInlineVecSelfRef(n, e, lost) ==  \* one element of the vector is the vector
    LET itself == SelectSeq(e.kids, LAMBDA x : x = Local(n))
    IN  IF e.op = "VecConstruct" /\ n \in LocalVars /\ Len(itself) = 1
        THEN <<Let(n, WithKids(e, [i \in DOMAIN e.kids |-> IF e.kids[i] = Local(n) THEN lost ELSE e.kids[i]]))>>
        ELSE <<>>
ResolveSelfReferentialLets(t) ==    \* the statement before it is what was lost
    LET join(a, b) ==
            IF a.k # "Expr" \/ ~ IsLet(b) \/ IsMutable(b) THEN <<>>
            ELSE IF IsSelfReferential(b.name, Value(b)) THEN <<Let(b.name, a.es[1])>>
            ELSE TryInlineVecSelfRef(b.name, Value(b), a.es[1])
        pair(u) == Pairwise(join, u)
    IN  MapLists(pair, t)
RemoveSelfAssignments(t) ==
    LET strip(u) == SelectSeq(u, LAMBDA s :
            ~ /\ s.k = "Assign" \/ (IsLet(s) /\ (~ IsMutable(s) \/ IsParamExpr(Value(s))))
              /\ IsSelfReferential(s.name, Value(s)))
    IN  MapLists(strip, t)

(* A local without a binding takes the statement before its first use.     *)
(* Which local comes first is up to the iteration of a hash set.           *)
Unbound(t) ==
    {NameOf(e) : e \in {e \in NodesOf(t, Childless) : e.op = "Local"}} \ {s.name : s \in ToSet(LetSeq(t))}
IsRaise(s) == s.k = "Expr" /\ s.es[1].op \in {"Panic", "PanicWithError"}
BindBefore(t, n) ==
    LET at == SelectInSeq(t, LAMBDA s : CountUses(<<s>>, n) > 0)
        p  == SelectLastInSubSeq(t, 1, at - 1, LAMBDA s : ~ IsRaise(s))
    IN  IF at = 0 \/ p = 0 \/ t[p].k # "Expr" THEN t ELSE [t EXCEPT ![p] = Let(n, t[p].es[1])]
BindUnboundLocals(t) == {FoldLeft(BindBefore, t, order) : order \in SetToSeqs(Unbound(t))}
=============================================================================
