------------------------- MODULE PipelineSoundness -------------------------
(* What the repairs of the pipeline promise: each leaves what the body     *)
(* does as it is or fills a hole of it, what they fill is what was         *)
(* compiled, and the text has the names it needs.                          *)
EXTENDS Pipeline, FnRuns

CONSTANT Worlds

VARIABLES outcome, guessed      \* history: what the body does, and whether a
                                \* repair has guessed
hvars == <<vars, outcome, guessed>>

(* A returned value of another type than the function's does not compile.  *)
Ints == NumberTypes \cup {"U256", "I256"}
HasType(v, ty) ==
    CASE ty \in Ints                    -> v[1] = "int"
      [] ty = "Bool"                    -> v[1] = "bool"
      [] ty = "Address"                 -> v[1] = "handle"
      [] ty \in {"Vec", "Map", "Symbol", "String", "Bytes"} -> v[1] \in {ty, "vec", "map"}
      [] ty = "Option"                  -> v[1] \in {"some", "none"}
      [] ty \in DOMAIN Arity            -> v[1] = "vec" /\ Len(v[2]) = Arity[ty]
      [] IsStruct(ty)                   -> v[1] = "struct" /\ v[2] = ty
      [] IsUnion(ty)                    -> v[1] = "enum" /\ v[2][1] = ty
      [] OTHER                          -> TRUE
Mistyped(r) == /\ r.sig = "value" /\ HasReturnType(fn.ret)
               /\ ~ HasType(r.val, IF IsResult(fn.ret) THEN fn.ret[2] ELSE fn.ret[1])
Given(w) == [w EXCEPT !.args = SelectSeq(@, LAMBDA x : \E p \in ToSet(fn.params) : p[1] = x[1])]
Meaning(t, w) ==
    LET r == MeaningOf(fn.ret, t, [Start(Given(w), FALSE) EXCEPT !.unbound = "hole"])
    IN  IF r.sig = "novalue" THEN [r EXCEPT !.sig = "hole"] ELSE r      \* todo!() is the value
Does(t) == LET rs == [i \in DOMAIN Worlds |-> Meaning(t, Worlds[i])]
           IN  [i \in DOMAIN rs |-> IF \E j \in DOMAIN rs : Mistyped(rs[j])
                                   THEN [rs[i] EXCEPT !.sig = "stuck"] ELSE rs[i]]

-----------------------------------------------------------------------------
Spelt(data) == IF data.op \in Tuples THEN data.kids ELSE <<data>>

(* Where a repair does not know: it takes the first thing that fits, or    *)
(* what the shape mostly stands for.                                       *)
Effects == {"StorageSet", "StorageRemove", "StorageExtendTtl", "PublishEvent", "RequireAuth", "InvokeContract"}
DropsMore ==            \* the statement holds more than the check of the list
    \E s \in StmtsOf(body) : IsTokenSortValidation(s) /\ \E n \in ToSet(NodeSeq(<<s>>)) : n.op \in Effects
OwnFields(e) == \A i \in DOMAIN e.kids : Bare(e.kids[i]).at = <<e.at[i + 1]>>
TakenForIdentity ==     \* fields of one another, a bool, the head of a vector
    LET e == body[1].es[1] IN e.op # "StructConstruct" \/ ~ OwnFields(e)
RECURSIVE Leaves(_)
Leaves(s) == \/ s.k = "Return" \/ IsPanicking(s)
             \/ s.k \in {"If", "Match", "Block"} /\ \A b \in ToSet(s.bodies) : b # <<>> /\ Leaves(Last(b))
ReachedPanic ==         \* the panic that ends the body is taken for a trap
    Last(body) = PanicStmt /\ (Len(body) = 1 \/ ~ Leaves(body[Len(body) - 1]))
LostOption ==           \* a lost field that may be absent is absent
    \E e \in NodesOf(body, Nothing) : e.op = "StructConstruct" /\ UnknownVal \in ToSet(e.kids)
HashesOther ==          \* what is mapped to the curve was no field
    \E e \in NodesOf(source, Nothing) : /\ e.op = "MethodCall" /\ e.at[1] \in DOMAIN MapInputSize
                                        /\ e.kids[2].op # "FieldAccess"
NestedPayloads ==       \* both called v0: the inner one hides the outer
    \E s \in StmtsOf(body) : /\ s.k = "Match"
                             /\ \E b \in ToSet(s.bodies) : \E x \in StmtsOf(b) : x.k = "Match"
WildcardArm == <<>> \in UNION {ToSet(s.pats) : s \in {s \in StmtsOf(body) : s.k = "Match"}}

(* What the source does there is not what the repair must take it for. *)
SourceNodes(ops) == {e \in NodesOf(source, Nothing) : e.op \in ops}
OtherKey ==             \* in an arm, another key than the scrutinee
    \E s \in StmtsOf(source) : /\ s.k = "Match"
                               /\ \E b \in ToSet(s.bodies) : \E e \in NodesOf(b, Nothing) :
                                      e.op \in KeyedOps /\ e.kids[1] # s.es[1]
OtherArm ==             \* an arm that is filled did more than load, or nothing
    \E s \in StmtsOf(source) : s.k = "Match" /\ \E b \in ToSet(s.bodies) : Len(b) # 1
OtherTtlKey ==          \* behind if has(key), another key
    \E s \in StmtsOf(source) : /\ s.k = "If" /\ s.es[1].op = "StorageHas"
                               /\ \E e \in NodesOf(s.bodies[1], Nothing) :
                                      e.op = "StorageExtendTtl" /\ e.kids[1] # s.es[1].kids[1]
Unseen(seen, done) == done \ seen # {}
KeyUnseen   == Unseen(fn.hints.storage, {e.kids[1] : e \in SourceNodes(KeyedOps)})
EventUnseen == Unseen(fn.hints.events, {<<Front(e.kids), Spelt(Last(e.kids))>> : e \in SourceNodes({"PublishEvent"})})
CallUnseen  == Unseen(fn.hints.invokes, {<<e.kids[2]>> : e \in SourceNodes(InvokeOps)})
AuthUnseen  == Unseen(fn.hints.auth, {<<<<e.kids[1]>>, e.kids[2]>> : e \in SourceNodes({"RequireAuthForArgs"})})
OtherParam ==           \* 4f, 4h: a parameter before that one is not used
    \E i, j \in DOMAIN fn.params : /\ i < j /\ fn.params[i][1] \notin Names(source, Nothing)
                                   /\ fn.params[j][1] \in Names(source, Nothing)
NoHole(e) == UnknownVal \notin Nodes(e, Nothing)
RealLiteral ==          \* a literal that stands for itself
    \E e \in NodesOf(body, Nothing) :
        \E i \in DOMAIN e.kids : /\ (e.op \in InvokeOps /\ i > 2) \/ (e.op = "StorageSet" /\ i = 2)
                                 /\ IsArtifact(e.kids[i]) /\ NoHole(e.kids[i])
OtherConversion ==      \* another field is converted to the same type
    \E e \in SourceNodes({"ValConvert"}) : /\ e.kids[1].op \in Locals
        /\ \E l \in ToSet(FieldLets(source)) : l.es[1].at = e.at /\ l.name # NameOf(e.kids[1])
LetsAtTop(n) == {s \in ToSet(body) : s.k = "Let" /\ s.name = n}
ReturnsBound ==         \* the name that is returned is no artifact
    LET e == Last(body).es[1] IN e.op = "Param" \/ \E s \in LetsAtTop(NameOf(e)) : ~ IsParamGet(s.es[1])
NotTheNumber ==         \* an arm of an integer enum assigns something else
    \E s \in StmtsOf(source) : /\ s.k = "Match"
        /\ \E j \in DOMAIN s.pats : /\ s.pats[j] # <<>> /\ s.pats[j][2] = "Lvl"
                                    /\ \E x \in StmtsOf(s.bodies[j]) : x.k = "Assign" /\ x.es # <<NumberOf>>
BareName ==             \* the name of a variant that is only a symbol
    \E e \in NodesOf(body, Nothing) : /\ e.op \notin Tuples
        /\ \E k \in ToSet(e.kids) : k.op = "Symbol" /\ IsUnit(k.at[1])
BoundAgain == \E i, j \in DOMAIN body : i < j /\ body[i].k = "Let" /\ body[j].k = "Let" /\ body[i].name = body[j].name
OtherInstanceKey == \E e \in SourceNodes(KeyedOps) : IsInstance(e) /\ e.kids[1].kids # <<>>
EarlyReturn ==          \* what follows runs where nothing returns
    \E s \in StmtsOf(body) : s # Last(body) /\ ReturnsValue(s) /\ IsPure(s.es[1])
OtherGetter == Len(source) # 1 \/ source[1].k # "Return" \/ SourceNodes({"StorageGet"}) = {}
CapturesName ==         \* a let for a load hides a name in use
    \E s \in ToSet(body) : /\ s.k = "Expr" /\ s.es[1].op = "StorageGet"
                           /\ \E n \in ToSet(LoadName(s.es[1].kids[1])) : n \in Names(body, Nothing)
OtherLoad == \E e \in SourceNodes({"FieldAccess"}) : IsLoad(e.kids[1])
UsedShadow ==           \* a symbol that is used under a parameter's name
    \E s \in StmtsOf(body) : /\ s.k = "Let" /\ s.es[1].op = "Symbol"
                             /\ s.name \in Names(body, Nothing) /\ \E p \in ToSet(fn.params) : p[1] = s.name
OtherResult ==          \* what was read is not what is returned
    \E s \in StmtsOf(source) : ReturnsValue(s) /\ s.es[1] \notin {NamedLocal("value"), ZeroOf(fn.ret)}
Rekeyed ==              \* the key is bound again, to another, before the read
    \E s \in StmtsOf(body) : /\ ReadsGuarded(s) /\ s.es[1].kids[1].op = "NamedLocal"
        /\ Cardinality({l.es : l \in {l \in StmtsOf(body) : l.k = "Let" /\ l.name = NameOf(s.es[1].kids[1])}}) > 1
KeyTopic == KeyPairs(body) # {} /\ \E e \in NodesOf(body, Nothing) : e.op = "PublishEvent"
OtherData ==            \* an event carries more than parameters
    \E e \in SourceNodes({"PublishEvent"}) : \E n \in Nodes(Last(e.kids), Nothing) : n.kids = <<>> /\ n.op # "Param"
LostTopic == \E e \in NodesOf(body, Nothing) : e.op = "PublishEvent" /\ e.at # <<>> /\ IsUnresolved(e.kids[1].kids[1])

Guess ==
    \/ stage = "tokens" /\ DropsMore
    \/ stage = "reconstruction" /\ TakenForIdentity
    \/ stage \in {"trailingPanic", "voidPanic", "4r"} /\ ReachedPanic
    \/ stage = "wrapperPanic"          \* as the trap of the export stands for one
    \/ stage = "4b2" /\ LostOption
    \/ stage = "4b4" /\ HashesOther
    \/ stage = "4b5" /\ NestedPayloads
    \/ stage = "4b6" /\ WildcardArm
    \/ stage = "4c"  /\ (OtherKey \/ OtherArm)
    \/ stage = "4c2" /\ OtherTtlKey
    \/ stage = "4c4" /\ KeyUnseen
    \/ stage = "4c5" /\ EventUnseen
    \/ stage = "4c6" /\ CallUnseen
    \/ stage = "4c7" /\ AuthUnseen
    \/ stage = "4f"  /\ OtherParam
    \/ stage = "4h"  /\ RealLiteral
    \/ stage = "4h2" /\ OtherConversion
    \/ stage = "4i"  /\ ReturnsBound
    \/ stage = "4j"  /\ NotTheNumber
    \/ stage = "4k"                    \* as a large literal stands for a payload
    \/ stage = "4p"  /\ SourceNodes({"Add"}) = {}
    \/ stage = "4m"  /\ (BareName \/ BoundAgain)
    \/ stage = "4m2" /\ OtherInstanceKey
    \/ stage = "4n2"                   \* as true and false stand for 1 and 0
    \/ stage = "4o"  /\ EarlyReturn
    \/ stage = "4q"  /\ SourceNodes({"StructConstruct"}) # {}
    \/ stage \in {"4s", "4t"} /\ OtherGetter
    \/ stage = "4t2" /\ CapturesName
    \/ stage \in {"4w", "4w again"} /\ OtherLoad
    \/ stage = "4u"  /\ UsedShadow
    \/ stage = "4v"  /\ (OtherResult \/ Rekeyed)
    \/ stage = "4x"  /\ KeyTopic
    \/ stage = "4y"  /\ (OtherData \/ LostTopic)
-----------------------------------------------------------------------------

HInit == Init /\ outcome = Does(body) /\ guessed = FALSE
HNext == /\ Next
         /\ outcome' = IF body' = body THEN outcome ELSE Does(body')
         /\ guessed' = (guessed \/ (body' # body /\ Guess))
HSpec == HInit /\ [][HNext]_hvars

Promise == INSTANCE Outcomes WITH Worlds <- DOMAIN Worlds

(* Every repair implements the promise of Outcomes: it leaves what the     *)
(* body does in every world, stops at a hole before, or fills a hole       *)
(* behind what ran before it, as long as no repair has guessed.            *)
RepairsHonour == Promise!Spec

(* What the repairs make of a lifted body is what was compiled, or a hole  *)
(* is left of it, or it does not compile, where none of them guessed.      *)
FilledRight ==
    stage = "done" /\ ~ guessed =>
        \A i \in DOMAIN Worlds : Silent(outcome[i]) \/ HonestEnd(outcome[i], Does(source)[i])

(* A function whose text writes env takes it as a parameter, also for what *)
(* is rebuilt after the parameter was dropped (4g); but two forms that are *)
(* written with env are unknown to the scan: x.to_xdr(&env) and the        *)
(* arguments that are authorised.                                          *)
EnvGivenBar == stage = "done" /\ UsesEnv(body) => fn.takesEnv
=============================================================================
