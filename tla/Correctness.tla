---------------------------- MODULE Correctness ----------------------------
(* The last passes over a function's body (ir/correctness.rs) and the text *)
(* written from it.  Each pass is an action; between the guards that       *)
(* follow the optimizer and the final passes the pipeline's repairs run,   *)
(* which are left out here: the passes take any body.                      *)
EXTENDS Codegen

-----------------------------------------------------------------------------
(* What goes with the text of a function: the names its `use' line brings, *)
(* found by a scan of the body (codegen/imports.rs); the names the text    *)
(* mentions; and the grade and the hole counts of the recovery report.     *)

SdkTypes == {"Symbol", "Address", "MuxedAddress", "Bytes", "BytesN", "String", "U256",
             "I256", "Timepoint", "Duration", "Vec", "Map"}
CollectionTypes == {"Vec", "Map", "Bytes"}
IsNiladicToXdr(e) == e.op = "MethodCall" /\ e.at[1] = "to_xdr" /\ Len(e.kids) = 1

-----------------------------------------------------------------------------
(* compute_imports: what each node of the body asks for.  What falls to    *)
(* the last arm of scan_expr is a leaf.                                    *)
HeadOf(ty) == IF ty = "Map<Val, Val>" THEN "Map" ELSE ty     \* its Val is written soroban_sdk::Val
CastNeeds_NoVal(ty) == {HeadOf(ty)} \cap (CollectionTypes \cup {"Address"})
CastNeeds(ty) == {HeadOf(ty)} \cap (CollectionTypes \cup {"Val", "Address"})
IsEmptyDefault(e) == e.op = "StorageGet" /\ e.at[1] = "empty"      \* unwrap_or(Map::new(&env))
ScanNode(e) ==
    CASE e.op = "Symbol"        -> IF e.at[1] \in LongSymbols THEN {"Symbol"} ELSE {"symbol_short"}
      [] e.op = "String"        -> {"String"}
      [] e.op = "Bytes"         -> {"Bytes"}
      [] e.op \in {"RequireAuth", "StrkeyToAddress"} -> {"Address"}
      [] e.op = "RequireAuthForArgs" -> {"Address", "IntoVal"}
      [] e.op = "VecConstruct"  -> {"Vec", "vec"} \cup IF IsHeterogeneousValVec(e.kids) THEN {"IntoVal", "Val"} ELSE {}
      [] e.op = "MapConstruct"  -> {"Map", "map"}
      [] e.op = "Log"           -> {"log"}
      [] e.op = "PanicWithError" -> {"panic_with_error"}
      [] e.op \in {"InvokeContract", "TryInvokeContract"} -> {"vec", "IntoVal"}
      [] e.op = "MethodCall"    -> IF e.at[1] = "to_xdr" THEN {"ToXdr"} ELSE {}
      [] e.op = "CastAs"        -> CastNeeds(e.at[1])
      [] e.op = "CollectionNew" -> {e.at[1]} \cap CollectionTypes
      [] IsEmptyDefault(e)      -> {"Map"}
      [] OTHER                  -> {}
Unscanned == {"Some", "Try", "SretResult", "ValTag", "VecTryIterFold"}
ScannedNodes(body) == NodesOf(body, Unscanned)
ScanTypeDef(ty) == {ty} \cap SdkTypes
SignatureTypes(fn) == {fn.params[i][2] : i \in DOMAIN fn.params} \cup ToSet(fn.ret)
ComputeImports(fn, body) == UNION {ScanTypeDef(ty) : ty \in SignatureTypes(fn)}
                            \cup UNION {ScanNode(e) : e \in ScannedNodes(body)}

(* What the tokens written for a node of the text name. *)
MentionsAtom(e) ==
    CASE e.op = "Symbol"            -> IF e.at[1] \in LongSymbols THEN {"Symbol"} ELSE {"symbol_short"}
      [] e.op \in {"String", "Bytes"} -> {e.op}
      [] e.op = "ValTagName"        -> {"Tag"}
      [] OTHER                      -> {}
MentionsStorage(e) == IF IsEmptyDefault(e) THEN {"Map"} ELSE {}    \* a lost key's Val is written in full
MentionsCall(e) ==
    IF e.op \notin {"InvokeContract", "TryInvokeContract"} THEN {}
    ELSE {"vec"} \cup ({e.at[1]} \cap SdkTypes)
         \cup IF \E i \in 3..Len(e.kids) : ~ IsNeverRooted(e.kids[i]) THEN {"IntoVal"} ELSE {}
MentionsBuilt(e) ==
    CASE e.op = "VecConstruct"      -> {"vec"} \cup IF e.at = <<"Val">> THEN {"IntoVal", "Val"} ELSE {}
      [] e.op = "MapConstruct"      -> {"map"}
      [] e.op = "CollectionNew"     -> {e.at[1]}
      [] OTHER                      -> {}
MentionsHost(e) ==
    CASE e.op = "RequireAuthForArgs" -> {"IntoVal"}
      [] e.op = "StrkeyToAddress"   -> {"Address"}
      [] e.op = "Log"               -> {"log"}
      [] e.op = "PanicWithError"    -> {"panic_with_error"}
      [] IsNiladicToXdr(e)          -> {"ToXdr"}
      [] OTHER                      -> {}
MentionsCast(e) == IF e.op = "CastAs" THEN {HeadOf(e.at[1])} \cap (SdkTypes \cup {"Val"}) ELSE {}
Mentions(e) == MentionsAtom(e) \cup MentionsStorage(e) \cup MentionsCall(e)
               \cup MentionsBuilt(e) \cup MentionsHost(e) \cup MentionsCast(e)
MentionedIn(nodes) == UNION {Mentions(e) : e \in nodes}

-----------------------------------------------------------------------------
(* score_fn: the grade of one function; hosts says the lifter saw host     *)
(* calls in it.  The walk passes by what a get falls back to.              *)
RECURSIVE WalkExpr(_)
WalkExpr(e) == {e} \cup UNION {WalkExpr(e.kids[i]) : i \in IF e.op = "StorageGet" THEN {1} ELSE DOMAIN e.kids}
WalkBody(t) == UNION {WalkExpr(e) : e \in ExprsOf(t)}
IsUnrecovered_NoCycles(e) == e.op \in {"UnknownVal", "RawHostCall"}
IsUnrecovered(e) == e.op \in {"UnknownVal", "CyclicSlot", "RawHostCall"}
ScoreFn(ret, body, hosts) ==
    CASE body = <<>> /\ (hosts \/ HasReturnType(ret))    -> "LogicLost"
      [] body = <<>>                                     -> "Trivial"
      [] \E e \in WalkBody(body) : IsUnrecovered(e)      -> "Partial"
      [] OTHER                                           -> "Clean"
IsFullyRecovered(grade) == grade \in {"Clean", "Trivial"}

(* count_artifacts: the holes of the text that the report counts. *)
IsHole(e) == e.op = "UnknownVal"
Spellings == {"host call", "decompiled function body"}
CountArtifacts(text) == LET holes == SelectSeq(NodeSeq(text), IsHole)
                        IN  Len(SelectSeq(holes, LAMBDA e : e.at = <<>> \/ e.at[1] \in Spellings))
-----------------------------------------------------------------------------

CONSTANT Programs       \* pairs: a signature [params |-> <<<<name, type>>, ..>>,
                        \* ret |-> ..], and the statements its lifting may leave

VARIABLES fn, body, was, stage, text
vars == <<fn, body, was, stage, text>>

Order == <<"handles", "sentinels", "breaks", "declare", "unbound", "tail",
           "gets", "collections", "literal", "clone", "emit">>

NonCopy == {"Address", "Bytes", "BytesN", "String", "Vec", "Map", "Udt"}
ParamNames  == {fn.params[i][1] : i \in DOMAIN fn.params}
HandleNames == {fn.params[i][1] : i \in {i \in DOMAIN fn.params : fn.params[i][2] \in NonCopy}}

Init == /\ \E p \in Programs : fn = p[1] /\ body = p[2]
        /\ was = body /\ stage = "handles" /\ text = <<>>

Pass(s, new) ==
    /\ stage = s
    /\ was' = body /\ body' = new
    /\ stage' = Order[SelectInSeq(Order, LAMBDA x : x = s) + 1]
    /\ UNCHANGED <<fn, text>>

-----------------------------------------------------------------------------
(* Before the optimizer: a handle is never compared with an integer. *)
IsHandleVsInt(p, lit) == p.op = "Param" /\ NameOf(p) \in HandleNames /\ lit.op = "Int"
HandleIntCmp(e) ==
    /\ e.op \in {"Eq", "Ne"}
    /\ IsHandleVsInt(e.kids[1], e.kids[2]) \/ IsHandleVsInt(e.kids[2], e.kids[1])
HuskHandleIntComparisons(t) ==
    MapStmts(LAMBDA e : MapOutermost(HandleIntCmp, LAMBDA n : UnknownVal, Opaque, e), t)

(* Nothing has a field or a method on an error value or a panic. *)
IsErrorSentinel(e) == e.op \in {"ContractError", "ErrorFromCode", "PanicWithError", "Panic"}
HuskErrorSentinelAccess(t) ==
    MapStmts(LAMBDA e : MapExpr(LAMBDA n : IF n.op \in {"FieldAccess", "MethodCall"}
                                                  /\ IsErrorSentinel(n.kids[1])
                                           THEN UnknownVal ELSE n, Opaque, e), t)

DropBreaksOutsideLoops_TopLevel(t) == SelectSeq(t, LAMBDA s : s.k \notin {"Break", "Continue"})
RECURSIVE DropBreaksOutsideLoops(_)
DropBreaksOutsideLoops(t) ==        \* a loop's body keeps its own
    LET kept == SelectSeq(t, LAMBDA s : s.k \notin {"Break", "Continue"})
    IN  [i \in DOMAIN kept |->
            IF kept[i].k \in {"Loop", "For"} THEN kept[i]
            ELSE [kept[i] EXCEPT !.bodies = [j \in DOMAIN @ |-> DropBreaksOutsideLoops(@[j])]]]

(* The first assignment, on each path, to a name nothing in the function   *)
(* binds becomes its declaration.                                          *)
RECURSIVE DeclareFirstAssign(_, _)
DeclareFirstAssign(t, bound) ==
    LET seen(i) == bound \cup {t[j].name : j \in {j \in 1..(i - 1) : t[j].k = "Assign"}}
    IN  [i \in DOMAIN t |->
            IF t[i].k = "Assign" /\ t[i].name \notin seen(i) THEN LetMut(t[i].name, t[i].es[1])
            ELSE [t[i] EXCEPT !.bodies = [j \in DOMAIN @ |-> DeclareFirstAssign(@[j], seen(i))]]]
DeclareUndeclaredAssignments(t) == DeclareFirstAssign(t, LetNames(t))

-----------------------------------------------------------------------------
(* The final passes.  A use with no visible binding, and a use of a local  *)
(* whose every binding in the function is a `!', is a hole.                *)
IsLocalIn(e, names) == e.op \in Locals /\ NameOf(e) \in names
RECURSIVE SubstUndeclaredUses(_, _)
SubstUndeclaredUses(t, scope) ==
    LET visible(i) == scope \cup {t[j].name : j \in {j \in 1..(i - 1) : t[j].k = "Let"}}
        husk(e, i) == MapOutermost(LAMBDA n : n.op \in Locals /\ NameOf(n) \notin visible(i),
                                   LAMBDA n : UnknownVal, Nothing, e)
    IN  [i \in DOMAIN t |->
            [t[i] EXCEPT !.es = [j \in DOMAIN @ |-> husk(@[j], i)],
                         !.bodies = [j \in DOMAIN @ |->
                             SubstUndeclaredUses(@[j], visible(i) \cup ScopeOf(t[i], j))]]]

Written(t, n) == {s.es[1] : s \in {s \in StmtsOf(t) : s.k \in {"Let", "Assign"} /\ s.name = n}}
RealBound(t) == UNION {Introduces(s) : s \in {s \in StmtsOf(t) : s.k # "Let"}}
RECURSIVE NeverBound(_, _)
NeverBound(t, never) ==             \* a least fixpoint: never-ness flows through lets
    LET names == {s.name : s \in {s \in StmtsOf(t) : s.k \in {"Let", "Assign"}}} \ RealBound(t)
        more  == {n \in names : \A e \in Written(t, n) : NeverRootedWith(e, never)}
    IN  IF more \subseteq never THEN never ELSE NeverBound(t, never \cup more)
SubstNeverUses(t, never) ==
    MapStmts(LAMBDA e : MapOutermost(LAMBDA n : IsLocalIn(n, never), LAMBDA n : UnknownVal, Nothing, e), t)
HuskUnboundLocalUses(t) ==
    LET scoped == SubstUndeclaredUses(t, ParamNames)
        husk(u) == SubstNeverUses(u, NeverBound(u, {}))
    IN  husk(scoped)

(* An empty collection returned next to a storage load whose value was     *)
(* dropped is the default arm of that load: a hole, unless a load escapes. *)
LoadCarriers == {"CastAs", "ValConvert", "Try", "Some", "Not", "RequireAuth", "ErrorFromCode",
                 "PanicWithError", "And", "Or", "MethodCall", "FieldAccess", "InvokeContract",
                 "TryInvokeContract", "RawHostCall", "TupleConstruct", "VecConstruct",
                 "MapConstruct", "StructConstruct"} \cup Compare \cup (Arith \ {"Shl"})
RECURSIVE ContainsStorageGet(_)
ContainsStorageGet(e) ==
    \/ e.op = "StorageGet"
    \/ e.op \in LoadCarriers /\ \E i \in DOMAIN e.kids : ContainsStorageGet(e.kids[i])
LoadsIn(t, kinds) == \E s \in StmtsOf(t) : s.k \in kinds /\ s.es # <<>> /\ ContainsStorageGet(s.es[1])
DiscardedLoad(t) == LoadsIn(t, {"Expr"})
EscapingLoad_Returned(t) == LoadsIn(t, {"Return"})
EscapingLoad(t) == LoadsIn(t, {"Return", "Let", "Assign"})
TailCollection(t) == /\ t # <<>> /\ Last(t).k \in {"Expr", "Return"} /\ Last(t).es # <<>>
                     /\ Last(t).es[1].op = "CollectionNew"
HuskFabricatedEmptyCollectionTail(t) ==
    IF HasReturnType(fn.ret) /\ TailCollection(t) /\ DiscardedLoad(Front(t)) /\ ~ EscapingLoad(Front(t))
    THEN [t EXCEPT ![Len(t)].es = <<UnknownVal>>] ELSE t

(* Gets that nothing types: an authorised one is an Address; one that is   *)
(* discarded, or bound to a name never mentioned, is read as a Val.        *)
IsGet(e) == e.op = "StorageGet"
UninferableGetType(e) == IF e.at[1] = "empty" THEN "Map<Val, Val>" ELSE "Val"
AnnotateAuthTargetGets(t) ==
    MapStmts(LAMBDA e : MapExpr(LAMBDA n :
                 IF n.op \in {"RequireAuth", "RequireAuthForArgs"} /\ IsGet(n.kids[1])
                 THEN [n EXCEPT !.kids[1] = CastAs(@, "Address")] ELSE n, Opaque, e), t)
RECURSIVE AnnotateGets(_, _, _)
AnnotateGets(t, tailIsReturn, used) ==
    [i \in DOMAIN t |->
        LET s == t[i]
            isTail == tailIsReturn /\ i = Len(t)
        IN  IF /\ s.k \in {"Expr", "Let"} /\ IsGet(s.es[1])
               /\ IF s.k = "Expr" THEN ~ isTail ELSE s.name \notin used
            THEN [s EXCEPT !.es[1] = CastAs(@, UninferableGetType(@))]
            ELSE [s EXCEPT !.bodies = [j \in DOMAIN @ |->
                     AnnotateGets(@[j], isTail /\ s.k \notin {"Loop", "For"}, used)]]]
AnnotateUninferableGets_TailToo(t) ==
    LET u == AnnotateAuthTargetGets(t) IN AnnotateGets(u, FALSE, Names(u, Opaque))
AnnotateUninferableGets(t) ==
    LET u == AnnotateAuthTargetGets(t)
    IN  AnnotateGets(u, HasReturnType(fn.ret) /\ ~ CodegenSynthesizesTail(fn.ret, t), Names(u, Opaque))

(* Empty collections reached only through methods that say nothing of      *)
(* their element type.                                                     *)
IsValueAgnostic(e) == e.op = "MethodCall" /\ e.at[1] \in {"keys", "contains_key", "len", "is_empty"}
IsEmptyMapOrVec(e) == e.op = "CollectionNew" /\ e.at[1] \in {"Map", "Vec"}
RECURSIVE Pinning(_)
Pinning(e) ==
    LET agnostic == IsValueAgnostic(e) /\ e.kids[1].op \in Variables
        kids == Children(e, Opaque)
    IN  (IF e.op \in Variables THEN {NameOf(e)} ELSE {})
        \cup UNION {Pinning(kids[i]) : i \in (IF agnostic THEN 2 ELSE 1)..Len(kids)}
AnnotateInlineCollection(e) ==
    MapExpr(LAMBDA n : IF IsValueAgnostic(n) /\ IsEmptyMapOrVec(n.kids[1])
                       THEN [n EXCEPT !.kids[1] = CastAs(@, "Val")] ELSE n, Opaque, e)
RECURSIVE AnnotateLetCollections(_, _)
AnnotateLetCollections(t, names) ==
    [i \in DOMAIN t |->
        IF t[i].k = "Let" /\ IsEmptyMapOrVec(t[i].es[1]) /\ t[i].name \in names
        THEN [t[i] EXCEPT !.es[1] = CastAs(@, "Val")]
        ELSE [t[i] EXCEPT !.bodies = [j \in DOMAIN @ |-> AnnotateLetCollections(@[j], names)]]]
AnnotateUninferableCollections(t) ==
    AnnotateLetCollections(MapStmts(AnnotateInlineCollection, t),
                           Names(t, Opaque) \ UNION {Pinning(e) : e \in ExprsOf(t)})

(* A literal returned as the Ok value that can never have its type. *)
ScalarOkClass(ty) == IF ty \in {"U32", "I32", "U64", "I64", "U128", "I128"} THEN "numeric"
                     ELSE IF ty = "Bool" THEN "bool" ELSE "none"
LiteralScalarClass(e) == IF e.op = "Int" THEN "numeric"
                         ELSE IF e.op = "Bool" THEN "bool"
                         ELSE IF e.op \in Literals THEN e.op ELSE "none"
LiteralMismatches(e, class) ==
    LET c == LiteralScalarClass(IF e.op = "ValConvert" THEN e.kids[1] ELSE e)
    IN  c # "none" /\ c # class
HuskMismatched(s, class) == IF LiteralMismatches(s.es[1], class) THEN [s EXCEPT !.es = <<UnknownVal>>] ELSE s
HuskMismatchedReturns(t, class) ==
    MapLists(LAMBDA l : [i \in DOMAIN l |-> IF ReturnsValue(l[i]) THEN HuskMismatched(l[i], class)
                                            ELSE l[i]], t)
HuskTypeMismatchedOkLiteral(t) ==
    IF ~ IsResult(fn.ret) \/ ScalarOkClass(fn.ret[2]) = "none" THEN t
    ELSE LET class == ScalarOkClass(fn.ret[2])
             u == HuskMismatchedReturns(t, class)
         IN  IF u # <<>> /\ Last(u).k = "Expr" THEN [u EXCEPT ![Len(u)] = HuskMismatched(@, class)] ELSE u

(* A handle moved into two enum payloads is cloned at each. *)
RECURSIVE SumOf(_)
SumOf(counts) == IF counts = <<>> THEN 0 ELSE Head(counts) + SumOf(Tail(counts))
RECURSIVE MovesIn(_, _, _)
MovesIn(e, n, leaves) ==            \* bare uses of n as an enum's field
    LET kids == Children(e, leaves)
    IN  SumOf([i \in DOMAIN kids |->
               IF e.op = "EnumConstruct" /\ kids[i].op \in Variables
               THEN IF NameOf(kids[i]) = n THEN 1 ELSE 0
               ELSE MovesIn(kids[i], n, leaves)])
RECURSIVE MovesInStmts(_, _, _)
MovesInStmts(t, n, leaves) ==
    SumOf([i \in DOMAIN t |-> SumOf([j \in DOMAIN t[i].es |-> MovesIn(t[i].es[j], n, leaves)])
                              + SumOf([j \in DOMAIN t[i].bodies |-> MovesInStmts(t[i].bodies[j], n, leaves)])])
ReusedHandles_AboveTwo(t) == {n \in HandleNames : MovesInStmts(t, n, Opaque) > 2}
ReusedHandles(t) == {n \in HandleNames : MovesInStmts(t, n, Opaque) >= 2}
CloneReusedMoveParams(t) ==
    LET names == ReusedHandles(t)
        clone(f) == IF f.op \in Variables /\ NameOf(f) \in names THEN Method(f, "clone", <<>>) ELSE f
    IN  MapStmts(LAMBDA e : MapExpr(LAMBDA n :
                     IF n.op = "EnumConstruct" THEN [n EXCEPT !.kids = [i \in DOMAIN @ |-> clone(@[i])]]
                     ELSE n, Opaque, e), t)

-----------------------------------------------------------------------------
Handles     == Pass("handles", HuskHandleIntComparisons(body))
Sentinels   == Pass("sentinels", HuskErrorSentinelAccess(body))
Breaks      == Pass("breaks", DropBreaksOutsideLoops(body))
Declare     == Pass("declare", DeclareUndeclaredAssignments(body))
Unbound     == Pass("unbound", HuskUnboundLocalUses(body))
EmptyTail   == Pass("tail", HuskFabricatedEmptyCollectionTail(body))
Gets        == Pass("gets", AnnotateUninferableGets(body))
Collections == Pass("collections", AnnotateUninferableCollections(body))
OkLiteral   == Pass("literal", HuskTypeMismatchedOkLiteral(body))
Clone       == Pass("clone", CloneReusedMoveParams(body))
Emit        == /\ stage = "emit"
               /\ text' = EmitBody(fn.ret, body)
               /\ stage' = "done" /\ was' = body
               /\ UNCHANGED <<fn, body>>
Done        == stage = "done" /\ UNCHANGED vars

Next == \/ Handles \/ Sentinels \/ Breaks \/ Declare \/ Unbound \/ EmptyTail
        \/ Gets \/ Collections \/ OkLiteral \/ Clone \/ Emit \/ Done
Spec == Init /\ [][Next]_vars
=============================================================================
