------------------------------ MODULE IrNames -------------------------------
(* optimizer.rs, the last passes: names for the locals, one name for each  *)
(* binding of a list, and loops that count.                                *)
EXTENDS IrLets

SnakeOf(n) == IF n \in DOMAIN Snake THEN Snake[n] ELSE n
NoRenames  == [n \in {} |-> n]

(* A name from what is bound: <<>> where the value suggests none.          *)
MethodNames == [len |-> "len", id |-> "id", address |-> "address", sha256 |-> "hash", map_fp_to_g1 |-> "g1"]
RECURSIVE DeriveName(_)
DeriveName(e) ==
    LET then(suffix, of) == IF of = <<>> THEN <<>> ELSE <<of[1] \o suffix>>
        key(k) == CASE k.op = "Symbol"        -> <<SnakeOf(k.at[1])>>
                    [] k.op = "EnumConstruct" -> <<SnakeOf(k.at[2])>>
                    [] OTHER                  -> <<>>
    IN  CASE e.op = "Param"       -> e.at
          [] e.op = "FieldAccess" -> e.at
          [] e.op = "StorageGet" /\ e.kids[1].op = "NamedLocal" -> e.kids[1].at
          [] e.op = "StorageGet" /\ e.kids[1].op = "VecConstruct" ->
                 LET named == SelectSeq(e.kids[1].kids, LAMBDA k : key(k) # <<>>)
                 IN  IF named = <<>> THEN <<>> ELSE key(named[1])
          [] e.op = "StorageGet"  -> key(e.kids[1])
          [] e.op \in {"ValConvert", "CastAs"} -> DeriveName(e.kids[1])
          [] e.op = "MethodCall" /\ e.at[1] = "get" -> then("_elem", DeriveName(e.kids[1]))
          [] e.op = "MethodCall" /\ e.at[1] = "unwrap" -> DeriveName(e.kids[1])
          [] e.op = "MethodCall" /\ e.at[1] \in DOMAIN MethodNames -> <<MethodNames[e.at[1]]>>
          [] e.op = "InvokeContract" /\ e.kids[2].op = "Symbol" -> e.kids[2].at
          [] e.op = "StorageHas"  -> <<"exists">>
          [] e.op = "Ledger"      -> <<"sequence">>
          [] e.op = "StructConstruct" -> <<SnakeOf(e.at[1])>>
          [] e.op = "EnumConstruct"   -> <<SnakeOf(e.at[2])>>
          [] e.op = "VecConstruct" /\ Len(e.kids) = 1 ->
                 IF DeriveName(e.kids[1]) = <<>> THEN <<"vp">> ELSE then("_vec", DeriveName(e.kids[1]))
          [] e.op = "CollectionNew" -> <<IF e.at[1] = "Vec" THEN "vec" ELSE IF e.at[1] = "Map" THEN "map"
                                         ELSE SnakeOf(e.at[1])>>
          [] e.op \in {"ContractError", "ErrorFromCode"} -> <<"error">>
          [] OTHER -> <<>>

(* Every reference under the new name, but for what the walker leaves out. *)
Unrenamed == Uncounted \cup {"Shl"}
RenameInExpr(e, renames) ==
    MapExpr(LAMBDA x : IF x.op \in Locals /\ NameOf(x) \in DOMAIN renames THEN NamedLocal(renames[NameOf(x)]) ELSE x,
            Unrenamed, e)
RenameInStmt_TopLevel(s, renames) ==
    LET go(x) == [x EXCEPT !.name = IF x.k \in {"Let", "Assign"} /\ @ \in DOMAIN renames THEN renames[@] ELSE @,
                           !.es = [i \in DOMAIN @ |-> RenameInExpr(@[i], renames)]]
    IN  IF renames = NoRenames THEN s ELSE go(s)
RenameInStmt(s, renames) ==
    LET RECURSIVE go(_)
        go(x) == [x EXCEPT !.name = IF x.k \in {"Let", "Assign"} /\ @ \in DOMAIN renames THEN renames[@] ELSE @,
                           !.es = [i \in DOMAIN @ |-> RenameInExpr(@[i], renames)],
                           !.bodies = [j \in DOMAIN @ |-> [i \in DOMAIN @[j] |-> go(@[j][i])]]]
    IN  IF renames = NoRenames THEN s ELSE go(s)

(* let mut v = init; match x { .. => v = .. } is named after x.            *)
MatchName(t, n) ==
    LET assigns(b) == b = <<>> \/ (Len(b) = 1 /\ b[1].k = "Assign" /\ b[1].name = n)
        pair(i) == /\ IsLet(t[i]) /\ IsMutable(t[i]) /\ t[i].name = n
                   /\ t[i + 1].k = "Match" /\ \A b \in ToSet(t[i + 1].bodies) : assigns(b)
        named == {i \in 1..(Len(t) - 1) : pair(i) /\ DeriveName(t[i + 1].es[1]) # <<>>}
    IN  IF named = {} THEN <<>> ELSE DeriveName(t[Max(named) + 1].es[1])
AssignTargets(t) == {s.name : s \in {s \in StmtsOf(t) : s.k = "Assign"}}
Fitting(t, s, used, plain) ==       \* plain, or what tells it from a name in use
    LET second == IF Value(s).op = "EnumConstruct" /\ Value(s).kids = <<>> THEN plain \o "_key"
                  ELSE plain \o "_" \o Suffix[s.name]
        n == IF plain \in used THEN second ELSE plain
        itself == /\ IsMutable(s) /\ s.name \in AssignTargets(t)
                  /\ Value(s).op \in {"Param", "NamedLocal"} /\ NameOf(Value(s)) = n
    IN  IF n \in used \/ itself \/ n = s.name THEN <<>> ELSE <<n>>
NewName(t, s, used) ==              \* <<>> where the local keeps its name
    LET fitting(derived) == IF derived = <<>> THEN <<>> ELSE Fitting(t, s, used, derived[1])
    IN  IF ~ IsLet(s) \/ s.name \notin DOMAIN Suffix THEN <<>>
        ELSE fitting(MatchName(t, s.name) \o DeriveName(Value(s)))
UsedNames(t) == {s.name : s \in ToSet(LetSeq(OutsideFors(t)))}
RECURSIVE PropagateNames(_)
PropagateNamesInNested(s) ==
    IF s.k = "For" THEN s
    ELSE [s EXCEPT !.bodies = [j \in DOMAIN @ |-> PropagateNames(@[j])]]
PropagateNames(t) ==
    LET take(acc, n, s, new) ==     \* the let of n, its references renamed, under new
            IF new = <<>> THEN [acc EXCEPT !.done = Append(@, s)]
            ELSE [done |-> Append(acc.done, [s EXCEPT !.name = new[1]]),
                  used |-> acc.used \cup {new[1]}, renames |-> (n :> new[1]) @@ acc.renames]
        name(acc, s) == take(acc, s.name, RenameInStmt(s, acc.renames), NewName(t, s, acc.used))
        deeper(u) == [i \in DOMAIN u |-> PropagateNamesInNested(u[i])]
    IN  deeper(FoldLeft(name, [done |-> <<>>, used |-> UsedNames(t), renames |-> NoRenames], t).done)

(* A name that is bound again in the list becomes name_2, name_3, ..       *)
DeshadowNames(t) ==
    LET fresh(n, used) == LET i == CHOOSE i \in 2..(Len(t) + 2) :
                                       /\ n \o "_" \o ToString(i) \notin used
                                       /\ \A j \in 2..(i - 1) : n \o "_" \o ToString(j) \in used
                          IN  n \o "_" \o ToString(i)
        rename(acc, s) ==
            IF ~ IsLet(s) THEN [acc EXCEPT !.done = Append(@, RenameInStmt(s, acc.renames))]
            ELSE IF s.name \notin acc.bound
                 THEN [acc EXCEPT !.done = Append(@, RenameInStmt(s, acc.renames)), !.bound = @ \cup {s.name}]
            ELSE LET n == fresh(s.name, acc.used)
                     renames == (s.name :> n) @@ acc.renames
                 IN  [acc EXCEPT !.done = Append(@, RenameInStmt(s, renames)),
                                 !.used = @ \cup {n}, !.renames = renames]
    IN  FoldLeft(rename, [done |-> <<>>, used |-> {s.name : s \in ToSet(SelectSeq(t, IsLet))},
                          bound |-> {}, renames |-> NoRenames], t).done

-----------------------------------------------------------------------------
(* loop { if i == end { break } .. i = i + step } is a for, where nothing  *)
(* else counts, i is dead behind it and the range ends at end.             *)
ForStep(v, a, z, step, b) == [For(v, a, z, b) EXCEPT !.pats = <<step>>]
IncrementStep(e, n) ==              \* <<step>>
    LET i == CASE e.op = "Add" /\ e.kids[1] = Local(n) -> 2
               [] e.op = "Add" /\ e.kids[2] = Local(n) -> 1
               [] e.op = "Sub" /\ e.kids[1] = Local(n) -> 2
               [] OTHER -> 0
    IN  IF i = 0 THEN <<>> ELSE IF ~ IsInt(e.kids[i]) THEN <<>>
        ELSE <<IF e.op = "Sub" THEN - NumOf(e.kids[i]) ELSE NumOf(e.kids[i])>>
CounterAndEnd(e) ==                 \* <<i, end>>, the counter on either side
    IF e.op # "Eq" THEN <<>>
    ELSE IF e.kids[1].op = "Local" /\ IsInt(e.kids[2]) THEN <<NameOf(e.kids[1]), e.kids[2]>>
    ELSE IF e.kids[2].op = "Local" /\ IsInt(e.kids[1]) THEN <<NameOf(e.kids[2]), e.kids[1]>> ELSE <<>>
Counts(s, n) == s.k = "Assign" /\ s.name = n
CountedBy(b, exit, assigns) ==      \* assigns: those of the counter
    LET last == SelectLastInSeq(b, LAMBDA s : s.k # "Continue")
        by(step) == IF step = <<>> \/ b[last] # assigns[1] THEN <<>> ELSE <<exit[1], step[1], exit[2]>>
    IN  IF Len(assigns) # 1 THEN <<>> ELSE by(IncrementStep(Value(assigns[1]), exit[1]))
CountedForShape(b) ==               \* <<i, step, end>>
    LET counted(exit) == IF exit = <<>> THEN <<>>
                         ELSE CountedBy(b, exit, SelectSeq(Tail(b), LAMBDA s : Counts(s, exit[1])))
    IN  IF Len(b) < 2 \/ b[1].k # "If" \/ b[1].bodies # <<<<Break>>, <<>>>> THEN <<>>
        ELSE counted(CounterAndEnd(b[1].es[1]))
BuildForBody(b, n) ==
    LET kept == SelectSeq(Tail(b), LAMBDA s : ~ (Counts(s, n) /\ IncrementStep(Value(s), n) # <<>>))
    IN  IF kept # <<>> /\ Last(kept).k = "Continue" THEN Front(kept) ELSE kept
Covers(a, z, step) == IsInt(a) /\ NumOf(z) >= NumOf(a) /\ (NumOf(z) - NumOf(a)) % step = 0
AsFor(t, i, p, n, step, end) ==     \* p: where the counter starts
    IF step <= 0 \/ p = 0 \/ CountUses(SubSeq(t, i + 1, Len(t)), n) # 0 THEN t
    ELSE IF CountUses(SubSeq(t, p + 1, i - 1), n) # 0 \/ ~ Covers(Value(t[p]), end, step) THEN t
    ELSE RemoveAt([t EXCEPT ![i] = ForStep(n, Value(t[p]), end, step, BuildForBody(@.bodies[1], n))], p)
RecoverFor(t, i) ==                 \* the loop at i, if it is one
    LET start(n) == SelectLastInSubSeq(t, 1, i - 1, LAMBDA s : IsLet(s) /\ IsMutable(s) /\ s.name = n)
        from(shape) == IF shape = <<>> THEN t ELSE AsFor(t, i, start(shape[1]), shape[1], shape[2], shape[3])
    IN  from(CountedForShape(t[i].bodies[1]))
RecoverForLoops(t) ==
    LET RECURSIVE go(_, _)
        next(u, i, v) == IF v = u THEN go(u, i + 1) ELSE go(v, i)
        go(u, i) == IF i > Len(u) THEN u
                    ELSE IF u[i].k # "Loop" THEN go(u, i + 1) ELSE next(u, i, RecoverFor(u, i))
        each(u) == go(u, 1)
    IN  MapLists(each, t)
=============================================================================
