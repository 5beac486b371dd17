------------------------------- MODULE IrRuns -------------------------------
(* What a statement list of the IR does when it runs: the meaning that the *)
(* Rust written from it has.  A world fixes the arguments, what storage    *)
(* holds and what foreign contracts answer.  A run ends with "value",      *)
(* "done" or "panic"; at a "hole", todo!() in the output; "stuck" where    *)
(* the text does not compile; or it is "cut" when a loop goes on.          *)
EXTENDS IrTree, Endings

Bound(st, n) == \E i \in DOMAIN st.env : st.env[i][1] = n
Innermost(st, n) == CHOOSE i \in DOMAIN st.env :
                        /\ st.env[i][1] = n
                        /\ \A j \in DOMAIN st.env : st.env[j][1] = n => j <= i
Bind(st, n, v) == [st EXCEPT !.env = Append(@, <<n, v>>)]
Effect(st, what) == [st EXCEPT !.trace = Append(@, what)]
Stored(st, k) == IF \E p \in st.store : p[1] = k
                 THEN (CHOOSE p \in st.store : p[1] = k)[2] ELSE <<"missing">>
Put(st, k, v) == [st EXCEPT !.store = {p \in @ : p[1] # k} \cup {<<k, v>>}]

Ends(sig, st)   == [sig |-> sig, val |-> <<"unit">>, st |-> st]
Gives(val, st)  == [sig |-> "next", val |-> val, st |-> st]

Numeric(v) == v[1] = "int"
BoolVal(b) == <<"bool", b>>

(* An event by its symbol and what it carries, spelt out or by its struct. *)
Spread(v) == IF v[1] = "struct" THEN v[4] ELSE IF v[1] = "vec" THEN v[2] ELSE <<v>>
Published(e, vs) ==
    IF e.at # <<>> THEN <<"event", e.at[1], Spread(vs[1])>>
    ELSE LET topics == FlattenSeq([i \in 1..(Len(vs) - 1) |-> Spread(vs[i])])
         IN  IF topics # <<>> /\ topics[1][1] = "Symbol"
             THEN <<"event", topics[1][2][1], Tail(topics) \o Spread(Last(vs))>> ELSE <<"event", vs>>

(* The host sees a variant as a vector: its name, then its payload. *)
Encoded(v) == IF v[1] = "enum" THEN <<"vec", <<<<"Symbol", <<v[2][2]>>>>>> \o v[3]>> ELSE v
EncodedAll(vs) == [i \in DOMAIN vs |-> Encoded(vs[i])]

(* Division goes towards zero, and what is left has the sign of a. *)
Abs(n) == IF n < 0 THEN - n ELSE n
Quot(a, b) == LET q == Abs(a) \div Abs(b) IN IF (a < 0) <=> (b < 0) THEN q ELSE - q
Operate(op, a, b) == CASE op = "Add" -> a + b [] op = "Sub" -> a - b [] op = "Mul" -> a * b
                       [] op = "Shl" -> a * 2 ^ b [] op = "Div" -> Quot(a, b) [] OTHER -> a - b * Quot(a, b)

(* Arithmetic on literals of one width, in a body that is still of the     *)
(* machine (mixed), stays in that width.                                   *)
Bits == [i32 |-> 4, u32 |-> 4, i64 |-> 6, u64 |-> 6]       \* 32 and 64
Signed == {"i32", "i64"}
Least(ty) == IF ty \in Signed THEN - 2 ^ (Bits[ty] - 1) ELSE 0
Wrap(ty, n) == ((n - Least(ty)) % 2 ^ Bits[ty]) + Least(ty)
RECURSIVE WidthOf(_)
WidthOf(e) == CASE e.op = "Int" /\ Len(e.at) = 2 -> e.at[2]
                [] e.op \in Arith /\ WidthOf(e.kids[1]) = WidthOf(e.kids[2]) -> WidthOf(e.kids[1])
                [] OTHER -> ""
Sized(e, r) == IF r.st.mixed /\ r.sig = "next" /\ e.op \in Arith /\ WidthOf(e) # "" /\ Numeric(r.val)
               THEN [r EXCEPT !.val[2] = Wrap(WidthOf(e), @)] ELSE r

(* A strict operation on the values of its operands.  In a body that is    *)
(* still of the machine (mixed) a bool is the number 0 or 1; a threshold   *)
(* stands between its number and the next.                                 *)
AsNumber(v, st) == IF st.mixed /\ v[1] = "bool" THEN <<"int", IF v[2] THEN 1 ELSE 0>> ELSE v
RECURSIVE Binary(_, _, _, _)
Binary(op, a, b, st) ==
    CASE st.mixed /\ {a[1], b[1]} \in {{"bool", "int"}, {"bool"}} /\ ~ (op \in {"Eq", "Ne"} /\ a[1] = b[1]) ->
             Binary(op, AsNumber(a, st), AsNumber(b, st), st)
      [] b[1] = "threshold" -> Gives(BoolVal(op = "Ne" \/ (op \in {"Lt", "Le"} /\ a[2] <= b[2])
                                             \/ (op \in {"Gt", "Ge"} /\ a[2] > b[2])), st)
      [] a[1] = "threshold" -> Gives(BoolVal(op = "Ne" \/ (op \in {"Gt", "Ge"} /\ b[2] <= a[2])
                                             \/ (op \in {"Lt", "Le"} /\ b[2] > a[2])), st)
      [] op \in {"Eq", "Ne"} ->
             IF a[1] = b[1] THEN Gives(BoolVal((a = b) <=> (op = "Eq")), st) ELSE Ends("stuck", st)
      [] a[1] = "some" /\ b[1] = "some" -> Binary(op, a[2], b[2], st)
      [] ~ (Numeric(a) /\ Numeric(b)) -> Ends("stuck", st)
      [] op = "Lt"  -> Gives(BoolVal(a[2] < b[2]), st)
      [] op = "Le"  -> Gives(BoolVal(a[2] <= b[2]), st)
      [] op = "Gt"  -> Gives(BoolVal(a[2] > b[2]), st)
      [] op = "Ge"  -> Gives(BoolVal(a[2] >= b[2]), st)
      [] op \in {"Div", "Rem"} /\ b[2] = 0 -> Ends("panic", st)
      [] OTHER      -> Gives(<<"int", Operate(op, a[2], b[2])>>, st)

FieldOf(v, f) ==        \* a struct value is <<"struct", type, <<names>>, <<values>>>>
    LET i == SelectInSeq(v[3], LAMBDA n : n = f) IN IF i = 0 THEN <<"missing">> ELSE v[4][i]

(* A value read as an untyped Val is <<"raw", value>>: it fits no typed     *)
(* place, and as a collection it answers only what needs no element type.   *)
ValueAgnostic == {"keys", "contains_key", "len", "is_empty"}
Called(method, vs, st) ==
    LET v == IF Head(vs)[1] = "raw" /\ method \in ValueAgnostic THEN vs[1][2] ELSE vs[1] IN
    CASE method \in {"clone", "address", "to_bytes"} -> Gives(v, st)
      [] method \in {"first_index_of", "last_index_of"} /\ v[1] = "vec" ->
             IF vs[2] \in ToSet(v[2]) THEN Gives(<<"some", <<"int", SelectInSeq(v[2], LAMBDA x : x = vs[2]) - 1>>>>, st)
             ELSE Gives(<<"none">>, st)
      [] method = "to_xdr" -> Gives(<<"Bytes", <<v>>>>, st)
      [] method = "unwrap" /\ v[1] = "none"   -> Ends("panic", st)
      [] method = "unwrap" /\ v[1] = "some"   -> Gives(v[2], st)
      [] method \in {"map_fp_to_g1", "map_fp2_to_g2"} -> Gives(<<method, vs[2]>>, st)
      [] method \in {"is_none", "is_some"} /\ v[1] \in {"none", "some"} ->
             Gives(BoolVal(method = "is_" \o v[1]), st)
      [] method = "get" /\ v[1] = "vec" /\ Len(vs) = 2 /\ Numeric(vs[2]) ->
             IF vs[2][2] < Len(v[2]) THEN Gives(<<"some", v[2][vs[2][2] + 1]>>, st)
             ELSE Gives(<<"none">>, st)
      [] method = "len" /\ v[1] = "vec"       -> Gives(<<"int", Len(v[2])>>, st)
      [] method = "len" /\ v[1] = "map"       -> Gives(<<"int", 0>>, st)
      [] method = "keys" /\ v[1] = "map"      -> Gives(<<"vec", <<>>>>, st)
      [] method = "get" /\ v[1] = "map"       -> Gives(<<"none">>, st)
      [] method = "contains_key" /\ v[1] = "map" -> Gives(BoolVal(FALSE), st)
      [] method = "is_empty" /\ v[1] = "map"  -> Gives(BoolVal(TRUE), st)
      [] OTHER -> Ends("stuck", st)

TagOf(v) == CASE v[1] = "int"    -> "U32Val"
              [] v[1] = "handle" -> "AddressObject"
              [] v[1] = "vec"    -> "VecObject"
              [] v[1] = "Symbol" -> IF v[2] = <<"long">> THEN "SymbolObject" ELSE "SymbolSmall"
              [] OTHER           -> "Other"
Total(v) == FoldLeft(LAMBDA sum, x : sum + x[2], 0, v[2])        \* of a vector of numbers

ApplyTo(e, vs, st) ==
    CASE e.op \in Arith \cup Compare -> Sized(e, Binary(e.op, vs[1], vs[2], st))
      [] e.op = "Not" -> IF vs[1][1] = "bool" THEN Gives(BoolVal(~ vs[1][2]), st) ELSE Ends("stuck", st)
      [] e.op = "StorageGet" ->
             LET v == Stored(st, vs[1]) IN
             CASE e.at[1] = "option" -> Gives(IF v = <<"missing">> THEN <<"none">> ELSE <<"some", v>>, st)
               [] e.at[1] = "error"  -> Gives(IF v = <<"missing">> THEN <<"err", e.at[2]>> ELSE <<"ok", v>>, st)
               [] v # <<"missing">>  -> Gives(v, st)
               [] e.at[1] = "default" -> Gives(vs[2], st)         \* unwrap_or(..)
               [] e.at[1] = "empty"  -> Gives(<<"map">>, st)      \* unwrap_or(Map::new(&env))
               [] OTHER              -> Ends("panic", st)
      [] e.op = "StorageHas" -> Gives(BoolVal(Stored(st, vs[1]) # <<"missing">>), st)
      [] e.op = "StorageSet" -> Gives(<<"unit">>, Effect(Put(st, vs[1], vs[2]), <<"set", vs>>))
      [] e.op = "RawHostCall" /\ e.at[1] = "Buf" -> Ends("stuck", st)      \* no rendering
      [] e.op = "RawHostCall" /\ Last(e.at) = "obj_cmp" ->
             Gives(<<"int", CASE vs[1][2] < vs[2][2] -> -1 [] vs[1][2] > vs[2][2] -> 1 [] OTHER -> 0>>, st)
      [] e.op = "RawHostCall" /\ Last(e.at) = "map_unpack_to_linear_memory" -> Gives(<<"unit">>, st)
      [] e.op = "PublishEvent" -> Gives(<<"unit">>, Effect(st, Published(e, vs)))
      [] e.op \in {"StorageExtendTtl", "RawHostCall", "StorageRemove"} ->
             Gives(<<"unit">>, Effect(st, <<e.op, e.at, vs>>))
      [] e.op \in {"RequireAuth", "RequireAuthForArgs"} ->
             IF vs[1][1] # "handle" THEN Ends("stuck", st)
             ELSE Gives(<<"unit">>, Effect(st, <<e.op, e.at, vs>>))
      [] e.op = "InvokeContract" ->
             IF vs[1][1] # "handle" \/ vs[2][1] # "Symbol" THEN Ends("stuck", st)
             ELSE IF st.ans = <<>> THEN Ends("cut", st)
             ELSE Gives(Head(st.ans), Effect([st EXCEPT !.ans = Tail(@)], <<e.op, vs>>))
      [] e.op = "MethodCall"  -> Called(e.at[1], vs, st)
      [] e.op = "FieldAccess" ->
             IF vs[1][1] = "struct" /\ FieldOf(vs[1], e.at[1]) # <<"missing">>
             THEN Gives(FieldOf(vs[1], e.at[1]), st) ELSE Ends("stuck", st)
      [] e.op = "EnumConstruct"   -> Gives(<<"enum", e.at, vs>>, st)
      [] e.op = "StructConstruct" /\ <<"unit">> \in ToSet(vs) -> Ends("stuck", st)      \* no field is a ()
      [] e.op = "StructConstruct" -> Gives(<<"struct", e.at[1], Tail(e.at), vs>>, st)
      [] e.op \in {"VecConstruct", "TupleConstruct"} ->      \* vec![&env, ..]
             Gives(<<"vec", SelectSeq(vs, LAMBDA v : v[1] # "Env")>>, st)
      [] e.op = "ValTag" -> Gives(<<"ValTagName", <<TagOf(vs[1])>>>>, st)
      [] e.op = "VecTryIterFold" -> IF vs[1][1] = "vec" THEN Gives(<<"int", vs[2][2] + Total(vs[1])>>, st)
                                    ELSE Ends("stuck", st)
      [] e.op = "Some" -> Gives(<<"some", vs[1]>>, st)
      [] e.op \in {"Ok", "Err"} -> Gives(<<IF e.op = "Ok" THEN "ok" ELSE "err", vs[1]>>, st)
      [] e.op = "CastAs" /\ e.kids[1].op = "StorageGet" /\ e.at[1] = "i128" ->
             IF Numeric(vs[1]) THEN Gives(vs[1], st) ELSE Ends("panic", st)
      [] e.op = "CastAs" /\ e.kids[1].op \in {"StorageGet", "CollectionNew"} /\ e.at[1] # "Address" ->
             Gives(<<"raw", vs[1]>>, st)
      [] e.op \in {"CastAs", "ValConvert"} -> Gives(vs[1], st)
      [] e.op = "Try" ->
             CASE vs[1][1] = "ok"  -> Gives(vs[1][2], st)
               [] vs[1][1] = "err" -> [sig |-> "value", val |-> vs[1], st |-> st]
               [] OTHER            -> Ends("stuck", st)
      [] e.op = "PanicWithError" -> [sig |-> "panic", val |-> vs[1], st |-> st]
      [] e.op = "ErrorFromCode"  -> Gives(<<e.op, vs>>, st)
      [] OTHER -> Ends("stuck", st)

HostOps == {"StorageGet", "StorageHas", "StorageSet", "StorageRemove", "StorageExtendTtl", "PublishEvent",
            "RequireAuthForArgs", "InvokeContract"}
Apply(e, vs, st) == ApplyTo(e, IF e.op \in HostOps THEN EncodedAll(vs) ELSE vs, st)

Numerals == {<<ToString(n), n>> : n \in (-32..78) \cup {300}}
Digits == [d \in {s[1] : s \in Numerals} |-> (CHOOSE s \in Numerals : s[1] = d)[2]]
Atom(e, st) ==
    CASE e.op = "Int"        -> Gives(<<"int", Digits[e.at[1]]>>, st)
      [] e.op = "Threshold"  -> Gives(<<"threshold", Digits[e.at[1]]>>, st)
      [] e.op = "Bool"       -> Gives(BoolVal(e.at[1] = "true"), st)
      [] e.op = "Void"       -> Gives(<<"unit">>, st)
      [] e.op = "None"       -> Gives(<<"none">>, st)
      [] e.op = "Ledger"     -> Gives(<<"int", 3>>, st)
      [] e.op = "CollectionNew" -> Gives(<<"map">>, st)
      [] e.op \in Variables /\ NameOf(e) \in st.moved -> Ends("moved", st)
      [] e.op \in Variables  -> IF Bound(st, NameOf(e)) THEN Gives(st.env[Innermost(st, NameOf(e))][2], st)
                                ELSE Ends(st.unbound, st)
      [] e.op \in {"UnknownVal", "CyclicSlot"} -> Ends("hole", st)
      [] e.op = "Panic"      -> Ends("panic", st)
      [] e.op = "CompileError" -> Ends("stuck", st)
      [] OTHER               -> Gives(<<e.op, e.at>>, st)      \* symbols, errors, tags

(* The variables an enum's payload takes by value; a handle is not Copy. *)
MovedBy(e, vs) == IF e.op # "EnumConstruct" THEN {}
                  ELSE {NameOf(e.kids[i]) : i \in {i \in DOMAIN vs : vs[i][1] = "handle"
                                                        /\ e.kids[i].op \in Variables}}
Matches(v, pat) == \/ pat = <<>>
                   \/ v[1] = "enum" /\ v[2] = SubSeq(pat, 1, 2)
                   \/ Numeric(v) /\ pat[1] = "lit" /\ v[2] = Digits[pat[2]]
Unpacked(st, v, pat) ==
    FoldLeft(LAMBDA in, i : Bind(in, Bindings(pat)[i], v[3][i]), st,
             [i \in DOMAIN Bindings(pat) |-> i])

RECURSIVE Eval(_, _)
RECURSIVE EvalAll(_, _, _)
RECURSIVE EvalRest(_, _, _)
EvalRest(es, vs, r) == IF r.sig # "next" THEN r ELSE EvalAll(es, Append(vs, r.val), r.st)
EvalAll(es, vs, st) == IF es = <<>> THEN Gives(vs, st) ELSE EvalRest(Tail(es), vs, Eval(Head(es), st))

Junction(e, l) ==               \* its left side is evaluated to l
    IF l.sig # "next" THEN l
    ELSE IF l.val[1] # "bool" THEN Ends("stuck", l.st)
    ELSE IF l.val[2] = (e.op = "Or") THEN l ELSE Eval(e.kids[2], l.st)
Chosen(e, c) ==                 \* an if as an expression
    IF c.sig # "next" THEN c
    ELSE IF c.val[1] # "bool" THEN Ends("stuck", c.st)
    ELSE Eval(e.kids[IF c.val[2] THEN 2 ELSE 3], c.st)
Unscoped(r, st) == [r EXCEPT !.st.env = SubSeq(@, 1, Len(st.env))]     \* bindings end with their body
Arm(v, pats) == SelectInSeq(pats, LAMBDA p : Matches(v, p))
MatchedArm(e, c, a) == IF a = 0 THEN Ends("stuck", c.st)
                       ELSE Unscoped(Eval(e.kids[a + 1], Unpacked(c.st, c.val, e.at[a])), c.st)
Matched(e, c) == IF c.sig # "next" THEN c ELSE MatchedArm(e, c, Arm(c.val, e.at))
Applied(e, r) ==
    IF r.sig # "next" THEN r
    ELSE Apply(e, r.val, IF r.st.strict THEN [r.st EXCEPT !.moved = @ \cup MovedBy(e, r.val)] ELSE r.st)
EmptyBuilt == {"VecConstruct", "TupleConstruct", "EnumConstruct", "StructConstruct", "RawHostCall"}
Eval(e, st) ==
    CASE e.kids = <<>> /\ e.op \notin EmptyBuilt -> Atom(e, st)
      [] e.op \in {"And", "Or"} -> Junction(e, Eval(e.kids[1], st))
      [] e.op = "Cond"          -> Chosen(e, Eval(e.kids[1], st))
      [] e.op = "MatchOf"       -> Matched(e, Eval(e.kids[1], st))
      [] OTHER                  -> Applied(e, EvalAll(e.kids, <<>>, st))

Truth(v, st) == IF v[1] = "bool" THEN <<v[2]>>
                ELSE IF st.mixed /\ Numeric(v) THEN <<v[2] # 0>> ELSE <<>>

RECURSIVE Exec(_, _, _)
Scoped(s, j, st, rounds) == Unscoped(Exec(s.bodies[j], st, rounds), st)

(* What follows a round of a loop, of a for. *)
AfterRound(s, r, rounds) ==
    CASE r.sig = "break"                -> Ends("next", r.st)
      [] r.sig \notin {"next", "continue"} -> r
      [] rounds = 0                     -> Ends("cut", r.st)
      [] OTHER                          -> Exec(<<s>>, r.st, rounds - 1)
Later(s, from) ==                       \* a for whose next number is known
    [s EXCEPT !.es[1] = IntLit(ToString(from + (IF s.pats = <<>> THEN 1 ELSE s.pats[1])))]

(* One statement, last of its list or not, whose expressions are evaluated. *)
Step(s, last, ev, st, rounds) ==
    CASE ev.sig # "next" -> ev
      [] s.k = "Expr"   -> IF last THEN [ev EXCEPT !.val = ev.val[1]]    \* the list's value
                           ELSE Ends("next", ev.st)
      [] s.k = "Semi"   -> Ends("next", ev.st)        \* `e;' of the output
      [] s.k = "Let"    -> Ends("next", Bind(ev.st, s.name, ev.val[1]))
      [] s.k = "Assign" -> IF ~ Bound(st, s.name) THEN Ends("stuck", ev.st)
                           ELSE Ends("next", [ev.st EXCEPT !.env[Innermost(ev.st, s.name)][2] = ev.val[1]])
      [] s.k = "Return" -> [sig |-> "value", st |-> ev.st,
                            val |-> IF s.es = <<>> THEN <<"unit">> ELSE ev.val[1]]
      [] s.k = "If"     -> IF Truth(ev.val[1], ev.st) = <<>> THEN Ends("stuck", ev.st)
                           ELSE Scoped(s, IF Truth(ev.val[1], ev.st)[1] THEN 1 ELSE 2, ev.st, rounds)
      [] s.k = "Match"  -> IF Arm(ev.val[1], s.pats) = 0 THEN Ends("stuck", ev.st)
                           ELSE Unscoped(Exec(s.bodies[Arm(ev.val[1], s.pats)],
                                              Unpacked(ev.st, ev.val[1], s.pats[Arm(ev.val[1], s.pats)]), rounds), ev.st)
      [] s.k = "Block"  -> Scoped(s, 1, st, rounds)
      [] s.k = "Loop"   -> AfterRound(s, Scoped(s, 1, st, rounds), rounds)
      [] s.k = "For"    ->                    \* bounds are Int literals or params
             IF ev.val[1][2] >= ev.val[2][2] THEN Ends("next", ev.st)
             ELSE AfterRound(Later(s, ev.val[1][2]),
                             Unscoped(Exec(s.bodies[1], Bind(ev.st, s.name, ev.val[1]), rounds), st), rounds)
      [] OTHER          -> Ends(IF s.k = "Break" THEN "break" ELSE "continue", st)
Rest(t, first, rounds) ==
    IF first.sig # "next" \/ t = <<>> THEN first ELSE Exec(t, first.st, rounds)
Exec(t, st, rounds) ==
    IF t = <<>> THEN Ends("next", st)
    ELSE Rest(Tail(t), Step(Head(t), Len(t) = 1, EvalAll(Head(t).es, <<>>, st), st, rounds), rounds)

(* strict: a handle moved away is gone, as it is in the text.  unbound:    *)
(* what the use of a name without a binding is.                            *)
Start(world, strict) == [env |-> world.args, store |-> world.store, ans |-> world.ans,
                         trace |-> <<>>, strict |-> strict, moved |-> {}, unbound |-> "stuck", mixed |-> FALSE]
=============================================================================
