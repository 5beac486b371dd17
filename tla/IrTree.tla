------------------------------- MODULE IrTree -------------------------------
(* The Soroban IR as trees.  An expression is its variant, the atoms it    *)
(* carries (names, types, methods, literals) and its sub-expressions in    *)
(* the order the source lists them.  A statement is its kind, the name it  *)
(* binds or assigns, its expressions, its bodies and, for a Match, the     *)
(* pattern of each arm: <<type, variant, bindings...>>, or <<>> for `_'.   *)
EXTENDS Integers, SequencesExt

Node(op, at, kids) == [op |-> op, at |-> at, kids |-> kids]
Leaf(op, atom)     == Node(op, <<atom>>, <<>>)
UnknownVal   == Node("UnknownVal", <<>>, <<>>)
Panic        == Node("Panic", <<>>, <<>>)
VoidVal      == Node("Void", <<>>, <<>>)
Param(n)     == Leaf("Param", n)
Local(n)     == Leaf("Local", n)          \* Local(3) is var_3
NamedLocal(n) == Leaf("NamedLocal", n)
IntLit(n)    == Leaf("Int", n)            \* of any width
Bool(b)      == Leaf("Bool", b)
Symbol(s)    == Leaf("Symbol", s)
LongSymbols  == {"long"}                  \* more than nine characters: Symbol::new(&env, ..)
CollectionNew(c) == Leaf("CollectionNew", c)
ContractError(c) == Leaf("ContractError", c)
Bin(op, a, b)    == Node(op, <<>>, <<a, b>>)
Un(op, a)        == Node(op, <<>>, <<a>>)
Get(key)         == Node("StorageGet", <<"unwrap">>, <<key>>)
GetOption(key)   == Node("StorageGet", <<"option">>, <<key>>)
Set(key, value)  == Bin("StorageSet", key, value)
Method(obj, m, args)  == Node("MethodCall", <<m>>, <<obj>> \o args)
Field(obj, f)         == Node("FieldAccess", <<f>>, <<obj>>)
Enum(ty, v, fields)   == Node("EnumConstruct", <<ty, v>>, fields)
Struct(ty, names, es) == Node("StructConstruct", <<ty>> \o names, es)
Invoke(ty, addr, fn, args) == Node("InvokeContract", <<ty>>, <<addr, fn>> \o args)
CastAs(e, ty)     == Node("CastAs", <<ty>>, <<e>>)
ValConvert(e, ty) == Node("ValConvert", <<ty>>, <<e>>)

Stmt(k, name, es, bodies, pats) ==
    [k |-> k, name |-> name, es |-> es, bodies |-> bodies, pats |-> pats]
Expr(e)        == Stmt("Expr", "", <<e>>, <<>>, <<>>)
Let(n, e)      == Stmt("Let", n, <<e>>, <<>>, <<>>)
LetMut(n, e)   == Stmt("Let", n, <<e>>, <<>>, <<"mut">>)
Assign(n, e)   == Stmt("Assign", n, <<e>>, <<>>, <<>>)
Return(e)      == Stmt("Return", "", <<e>>, <<>>, <<>>)
ReturnVoid     == Stmt("Return", "", <<>>, <<>>, <<>>)
If(c, t, f)    == Stmt("If", "", <<c>>, <<t, f>>, <<>>)
Match(e, pats, arms) == Stmt("Match", "", <<e>>, arms, pats)
Loop(b)        == Stmt("Loop", "", <<>>, <<b>>, <<>>)
For(v, a, z, b) == Stmt("For", v, <<a, z>>, <<b>>, <<>>)
Block(b)       == Stmt("Block", "", <<>>, <<b>>, <<>>)
Break          == Stmt("Break", "", <<>>, <<>>, <<>>)
Continue       == Stmt("Continue", "", <<>>, <<>>, <<>>)

Variables == {"Param", "Local", "NamedLocal"}
Locals    == {"Local", "NamedLocal"}
Arith     == {"Add", "Sub", "Mul", "Div", "Rem", "Shl"}
Compare   == {"Eq", "Ne", "Lt", "Le", "Gt", "Ge"}
Literals  == {"Int", "Bool", "Symbol", "String", "Bytes"}

NameOf(e)   == e.at[1]                              \* of a variable
Bindings(pat) == SubSeq(pat, 3, Len(pat))
IsExpr(s, e)  == s.k = "Expr" /\ s.es = <<e>>
ReturnsValue(s) == s.k = "Return" /\ s.es # <<>>

-----------------------------------------------------------------------------
(* Walkers.  child_exprs lists the sub-expressions of every variant; the   *)
(* walkers of correctness.rs take those of Shl and Try for leaves.         *)
Nothing == {}
Opaque  == {"Shl", "Try"}
Children(e, leaves) == IF e.op \in leaves THEN <<>> ELSE e.kids

WithKids(e, kids) == [e EXCEPT !.kids = kids]         \* child_exprs_mut, written to
WithParts(s, es, bodies) == [s EXCEPT !.es = es, !.bodies = bodies]

(* Rewrite children first, then the node. *)
MapExpr(F(_), leaves, e0) ==
    LET RECURSIVE go(_)
        go(e) == F(IF e.op \in leaves THEN e
                   ELSE WithKids(e, [i \in DOMAIN e.kids |-> go(e.kids[i])]))
    IN  go(e0)

(* Rewrite the outermost nodes that match, and nothing inside them; Reach  *)
(* says which sub-expressions of a node are looked at.                     *)
MapReached(Hit(_), F(_), Reach(_), e0) ==
    LET RECURSIVE go(_)
        go(e) == IF Hit(e) THEN F(e)
                 ELSE WithKids(e, [i \in DOMAIN e.kids |-> IF i \in Reach(e) THEN go(e.kids[i]) ELSE e.kids[i]])
    IN  go(e0)
MapOutermost(Hit(_), F(_), leaves, e0) ==
    MapReached(Hit, F, LAMBDA e : IF e.op \in leaves THEN {} ELSE DOMAIN e.kids, e0)

(* The expressions of every statement, in nested bodies too, rewritten. *)
MapStmts(F(_), t0) ==
    LET RECURSIVE go(_)
        go(t) == [i \in DOMAIN t |->
                    WithParts(t[i], [j \in DOMAIN t[i].es |-> F(t[i].es[j])],
                                    [j \in DOMAIN t[i].bodies |-> go(t[i].bodies[j])])]
    IN  go(t0)

(* The same, but not the bounds of a for: most walkers pass them by. *)
MapButBounds(F(_), t0) ==
    LET RECURSIVE go(_)
        go(t) == [i \in DOMAIN t |->
                    [t[i] EXCEPT !.es = [j \in DOMAIN @ |-> IF t[i].k = "For" THEN @[j] ELSE F(@[j])],
                                 !.bodies = [j \in DOMAIN @ |-> go(@[j])]]]
    IN  go(t0)

(* Or not a for at all. *)
MapOutsideFors(F(_), t0) ==
    LET RECURSIVE go(_)
        go(t) == [i \in DOMAIN t |-> IF t[i].k = "For" THEN t[i]
                    ELSE [t[i] EXCEPT !.es = [j \in DOMAIN @ |-> F(@[j])],
                                      !.bodies = [j \in DOMAIN @ |-> go(@[j])]]]
    IN  go(t0)
RECURSIVE OutsideFors(_)
OutsideFors(t) ==
    LET kept == SelectSeq(t, LAMBDA s : s.k # "For")
    IN  [i \in DOMAIN kept |-> [kept[i] EXCEPT !.bodies = [j \in DOMAIN @ |-> OutsideFors(@[j])]]]

(* Or the expressions of the statements of some kinds only. *)
Valued == {"Expr", "Return", "Let", "Assign"}
MapKinds(kinds, F(_), t) ==
    LET RECURSIVE go(_)
        go(u) == [i \in DOMAIN u |-> IF u[i].k = "For" THEN u[i]
                    ELSE [u[i] EXCEPT !.es = [j \in DOMAIN @ |-> IF u[i].k \in kinds THEN F(@[j]) ELSE @[j]],
                                      !.bodies = [j \in DOMAIN @ |-> go(@[j])]]]
    IN  go(t)

(* The expression each path of a body ends with. *)
MapTail(F(_), t0) ==
    LET RECURSIVE go(_)
        go(t) == IF t = <<>> THEN t
                 ELSE LET s == Last(t) IN
                      CASE s.k \in {"Expr", "Return"} -> [t EXCEPT ![Len(t)].es = [j \in DOMAIN @ |-> F(@[j])]]
                        [] s.k \in {"If", "Match", "Block"} ->
                               [t EXCEPT ![Len(t)].bodies = [j \in DOMAIN @ |-> go(@[j])]]
                        [] OTHER -> t
    IN  go(t0)

(* Nested bodies first, then the list itself. *)
MapLists(F(_), t0) ==
    LET RECURSIVE go(_)
        go(t) == F([i \in DOMAIN t |-> [t[i] EXCEPT !.bodies = [j \in DOMAIN @ |-> go(@[j])]]])
    IN  go(t0)

(* Every node of an expression, of a statement list. *)
Nodes(e0, leaves) ==
    LET RECURSIVE go(_)
        go(e) == {e} \cup UNION {go(Children(e, leaves)[i]) : i \in DOMAIN Children(e, leaves)}
    IN  go(e0)

RECURSIVE StmtsOf(_)
StmtsOf(t) == UNION {{t[i]} \cup UNION {StmtsOf(t[i].bodies[j]) : j \in DOMAIN t[i].bodies} :
                        i \in DOMAIN t}

(* The same in source order: a statement, then its bodies; a node, then its *)
(* sub-expressions.                                                        *)
RECURSIVE InOrder(_)
InOrder(t) == FlattenSeq([i \in DOMAIN t |->
                  <<t[i]>> \o FlattenSeq([j \in DOMAIN t[i].bodies |-> InOrder(t[i].bodies[j])])])
RECURSIVE Preorder(_)
Preorder(e) == <<e>> \o FlattenSeq([i \in DOMAIN e.kids |-> Preorder(e.kids[i])])

NodeSeq(t) == FlattenSeq([i \in DOMAIN InOrder(t) |->
                  FlattenSeq([j \in DOMAIN InOrder(t)[i].es |-> Preorder(InOrder(t)[i].es[j])])])
UseCount(t, n) == Len(SelectSeq(NodeSeq(t), LAMBDA e : e.op \in Variables /\ NameOf(e) = n))

(* One occurrence of a node, the first in source order, replaced. *)
RECURSIVE ReplaceFirstIn(_, _, _)
ReplaceFirstIn(es, old, new) ==
    LET i == SelectInSeq(es, LAMBDA e : old \in ToSet(Preorder(e)))
    IN  IF i = 0 THEN es
        ELSE [es EXCEPT ![i] = IF @ = old THEN new ELSE [@ EXCEPT !.kids = ReplaceFirstIn(@, old, new)]]
RECURSIVE ReplaceFirst(_, _, _)
ReplaceFirst(t, old, new) ==
    LET i == SelectInSeq(t, LAMBDA s : old \in ToSet(NodeSeq(<<s>>)))
        j == SelectInSeq(t[i].bodies, LAMBDA b : old \in ToSet(NodeSeq(b)))
    IN  IF i = 0 THEN t
        ELSE IF ReplaceFirstIn(t[i].es, old, new) # t[i].es
             THEN [t EXCEPT ![i].es = ReplaceFirstIn(@, old, new)]
             ELSE [t EXCEPT ![i].bodies[j] = ReplaceFirst(@, old, new)]

ExprsOf(t) == UNION {{s.es[i] : i \in DOMAIN s.es} : s \in StmtsOf(t)}
NodesOf(t, leaves) == UNION {Nodes(e, leaves) : e \in ExprsOf(t)}

Has(t, Hit(_))     == \E e \in NodesOf(t, Nothing) : Hit(e)
HasUnknown(t)      == Has(t, LAMBDA e : e = UnknownVal)      \* stmts_contain_unknown
Names(t, leaves)   == {NameOf(e) : e \in {e \in NodesOf(t, leaves) : e.op \in Variables}}

(* The names a statement binds, all, and in its j-th body. *)
Introduces(s) ==                    \* a let, a for variable, the bindings of an arm
    (IF s.k \in {"Let", "For"} THEN {s.name} ELSE {})
    \cup (IF s.k = "Match" THEN UNION {ToSet(Bindings(s.pats[i])) : i \in DOMAIN s.pats} ELSE {})
LetNames(t) == UNION {Introduces(s) : s \in StmtsOf(t)}
ScopeOf(s, j) == IF s.k = "For" THEN {s.name}
                 ELSE IF s.k = "Match" THEN ToSet(Bindings(s.pats[j])) ELSE {}

(* Locals used where nothing binds them. *)
RECURSIVE Loose(_, _)
Loose(t, scope) ==
    IF t = <<>> THEN {}
    ELSE LET s == Head(t)
             uses == {NameOf(n) : n \in {n \in UNION {Nodes(e, Nothing) : e \in ToSet(s.es)} :
                                            n.op \in Locals}}
         IN  (uses \ scope)
             \cup UNION {Loose(s.bodies[j], scope \cup ScopeOf(s, j)) : j \in DOMAIN s.bodies}
             \cup Loose(Tail(t), scope \cup (IF s.k = "Let" THEN {s.name} ELSE {}))

(* Side effects, as is_effect_free sees them, and what is a `!'. *)
RECURSIVE IsEffectFree(_)
IsEffectFree(e) ==
    \/ e.op \in Literals \cup Variables \cup {"Void", "None", "Env", "Ledger"}
    \/ /\ e.op \in {"FieldAccess", "CastAs", "ValConvert", "Not"} \cup Compare
                    \cup (Arith \ {"Div", "Rem"})
       /\ \A i \in DOMAIN e.kids : IsEffectFree(e.kids[i])

(* never: the locals already known to be bound to nothing but a `!'.  The  *)
(* walk that knows them does not take them into a Shl.                     *)
RECURSIVE NeverRootedWith(_, _)
NeverRootedWith(e, never) ==
    LET known == IF e.op = "Shl" THEN {} ELSE never IN
    \/ e.op \in {"UnknownVal", "Panic", "PanicWithError"}
    \/ e.op \in Locals /\ NameOf(e) \in never
    \/ /\ e.op \in {"MethodCall", "FieldAccess", "ValConvert", "Not"}
       /\ NeverRootedWith(e.kids[1], never)
    \/ /\ e.op \in Arith \cup Compare
       /\ \/ NeverRootedWith(e.kids[1], known)
          \/ NeverRootedWith(e.kids[2], known) /\ IsEffectFree(e.kids[1])
IsNeverRooted(e) == NeverRootedWith(e, {})
=============================================================================
