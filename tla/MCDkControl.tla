----------------------------- MODULE MCDkControl -----------------------------
(* What the micro-evaluator runs: branching constructors over a selector   *)
(* and a payload; loop fragments in the wrapper block of the const-loop    *)
(* evaluator, over a counter, concrete at entry, and a local that is       *)
(* opaque then; such fragments followed by a write to the counter; and a   *)
(* caller with a callee that may call itself or back.                      *)
EXTENDS DkReference, TLC

(* Every validated body up to a size, over small alphabets.  A generated   *)
(* sequence is [seq, h]: h is the operand height it leaves, Dead after an  *)
(* unconditional jump.  An opener's body starts at height 0 and must leave *)
(* exactly the opener's arity; labels are arities, innermost first.        *)

(* Height after a straight-line node at height h; the empty set: invalid.  *)
Heights(node, h) ==
    CASE node.op \in {"const", "get"} -> {h + 1}
      [] node.op \in {"set", "drop"}  -> IF h >= 1 THEN {h - 1} ELSE {}
      [] node.op = "eqz"              -> IF h >= 1 THEN {h} ELSE {}
      [] node.op = "add"              -> IF h >= 2 THEN {h - 1} ELSE {}
      [] node.op = "select"           -> IF h >= 3 THEN {h - 2} ELSE {}
      [] node.op = "call"             -> IF h >= 1 THEN {h} ELSE {}
      [] OTHER                        -> {}

(* Contexts: an operand height and the labels in scope.                    *)
Contexts(nest, tall) == (0 .. tall) \X UNION {[1 .. k -> {0, 1}] : k \in 0 .. nest}

(* Table(..)[n + 1][<<h, labels>>]: the sequences of exactly n nodes that  *)
(* are valid from that context, built size by size.                        *)
Grow(alphabet, contexts, smaller) ==
         LET size == Len(smaller)
             of(op) == {node \in alphabet : node.op = op}
             has(op) == \E node \in alphabet : node.op = op
             from(c) ==
                 LET h == c[1]
                     labels == c[2]
                     then(node, rest, g) ==
                         IF <<g, labels>> \notin contexts THEN {}
                         ELSE {[m EXCEPT !.seq = <<node>> \o @] :
                                  m \in smaller[rest + 1][<<g, labels>>]}
                     depths(pop) == {d \in 1 .. Len(labels) : h >= labels[d] + pop}
                     jumps ==
                         IF size > 1 THEN {}
                         ELSE of("unreachable")
                              \cup {node \in of("return") : h >= 1}
                              \cup {I("br", d - 1) : d \in IF has("br") THEN depths(0) ELSE {}}
                              \cup {I("br_table", <<<<d[1] - 1>>, d[2] - 1>>) :
                                       d \in IF has("br_table") THEN depths(1) \X depths(1) ELSE {}}
                     bodies(k, label, arity) ==
                         IF <<0, <<label>> \o labels>> \notin contexts THEN {}
                         ELSE {m.seq : m \in {g \in smaller[k + 1][<<0, <<label>> \o labels>>] :
                                                g.h \in {arity, Dead}}}
                     opened(node, k) ==
                         UNION {then([op |-> node.op, n |-> node.n, body |-> b],
                                     size - 1 - k, h + node.n) :
                                   b \in bodies(k, IF node.op = "loop" THEN 0 ELSE node.n, node.n)}
                     ifs(node, k, j) ==
                         UNION {then([op |-> "if", n |-> node.n, body |-> b[1], els |-> b[2]],
                                     size - 1 - k - j, h - 1 + node.n) :
                                   b \in bodies(k, node.n, node.n) \X bodies(j, node.n, node.n)}
                 IN  UNION {UNION {then(node, size - 1, g) : g \in Heights(node, h)} :
                               node \in alphabet}
                     \cup UNION {then(I("br_if", d - 1), size - 1, h - 1) :
                                    d \in IF has("br_if") THEN depths(1) ELSE {}}
                     \cup {[seq |-> <<node>>, h |-> Dead] : node \in jumps}
                     \cup UNION {opened(p[1], p[2]) :
                                    p \in (of("block") \cup of("loop")) \X (0 .. (size - 1))}
                     \cup UNION {ifs(p[1], p[2], p[3]) :
                                    p \in {q \in of("if") \X (0 .. (size - 1)) \X (0 .. (size - 1)) :
                                              h >= 1 /\ q[2] + q[3] <= size - 1}}
         IN  Append(smaller, [c \in contexts |-> from(c)] @@ <<>>)

RECURSIVE Table(_, _, _)
Table(alphabet, contexts, size) ==
    IF size = 0
    THEN <<[c \in contexts |-> {[seq |-> <<>>, h |-> c[1]]}]>>
    ELSE CHOOSE t \in {Grow(alphabet, contexts, s) : s \in {Table(alphabet, contexts, size - 1)}} :
             TRUE

(* The bodies of each size that leave `arity' results at their end. *)
Whole(table, arity, labels) ==
    {{m.seq : m \in {g \in table[n][<<0, labels>>] : g.h \in {arity, Dead}}} :
        n \in 1 .. Len(table)}

Fn(tree, params, extra, arity) ==
    [body |-> Flatten(tree) \o End, params |-> params, extra |-> extra, arity |-> arity]

-----------------------------------------------------------------------------
(* Every if/else, nested block, br, br_if and br_table; and the bodies     *)
(* that only dispatch, return and trap.                                    *)
BranchAlphabet ==
    {I("get", 0), I("get", 1), I("select", 0), I("return", 0),
     I("br", 0), I("br_if", 0), I("br_table", 0), I("block", 0), I("block", 1), I("if", 1)}
TableAlphabet ==
    {I("get", 0), I("get", 1), I("return", 0), I("unreachable", 0),
     I("br_table", 0), I("block", 0)}
Constructors(table) ==
    {{[code |-> <<Fn(t, 2, 0, 1)>>, tree |-> <<t>>, locals |-> <<sel, -1>>, direct |-> FALSE] :
         t \in bodies, sel \in {0, 1, 2}} : bodies \in Whole(table, 1, <<>>)}

LoopEntry(b, locals, rest) ==
    [code |-> <<[body |-> Flatten(Fragment(b)), params |-> Len(locals), extra |-> 0, arity |-> 0]>>,
     tree |-> <<Fragment(b)>>, locals |-> locals, direct |-> TRUE, rest |-> rest]

(* Straight bodies with any branches; bodies with an inner if; bodies with *)
(* many writes to both locals; and bodies left through the enclosing       *)
(* block's label or the loop's own end, with something to skip.            *)
WalkAlphabet ==
    {I("const", 1), I("get", 0), I("set", 0), I("add", 0), I("br", 0), I("br_if", 0)}
NestAlphabet == WalkAlphabet \cup {I("get", 1), I("set", 1), I("if", 0)}
WriteAlphabet == {I("const", 1), I("set", 0), I("set", 1), I("if", 0)}
ResumeAlphabet == {I("const", 1), I("get", 0), I("set", 0), I("br_if", 0)}
Flat == {<<h, <<0, 0>>>> : h \in 0 .. 2}
Loops(table) ==
    {{LoopEntry(b, <<k, -1>>, <<>>) : b \in bodies, k \in {0, 1}} :
        bodies \in Whole(table, 0, <<0, 0>>)}
Resumed(table) ==
    {{LoopEntry(b, <<k>>, <<I("const", 0), I("set", 0)>>) : b \in bodies, k \in {0, 1}} :
        bodies \in Whole(table, 0, <<0, 0>>)}

CallAlphabet ==
    {I("const", 1), I("get", 0), I("set", 0), I("eqz", 0), I("return", 0),
     I("call", 1), I("call", 2), I("if", 1), I("loop", 0)}
Calls(table) ==
    {{[code |-> <<Fn(t, 1, 0, 1), Fn(u, 1, 1, 1)>>, tree |-> <<t, u>>,
       locals |-> <<a>>, direct |-> FALSE] :
         t \in bodies[1], u \in bodies[2], a \in {0, -1}} :
        bodies \in Whole(table, 1, <<>>) \X Whole(FrontOf(table), 1, <<>>)}

(* A caller of a function that eval_call refuses: too long by one, with    *)
(* two results, with an indirect call; and of the longest it takes.        *)
Pad(n) == [i \in 1 .. (2 * n) |-> IF i % 2 = 1 THEN I("get", 0) ELSE I("drop", 0)]
Limits ==
    LET answer == <<I("get", 0), I("call", 2)>>
        calling(caller, callee, results) ==
            [code |-> <<Fn(caller, 1, 0, 1), Fn(callee, 1, 0, results)>>, tree |-> <<caller, callee>>,
             locals |-> <<-1>>, direct |-> FALSE]
    IN  {{calling(answer, Pad(7) \o <<I("get", 0)>>, 1),
          calling(answer, Pad(7) \o <<I("get", 0), I("return", 0)>>, 1),
          calling(answer \o <<I("drop", 0)>>, <<I("get", 0), I("get", 0)>>, 2),
          calling(answer, <<I("const", 0), I("call_indirect", 0), I("get", 0)>>, 1)}}

(* All of them, up to four, five or six nodes each. *)
AllEntries ==
    Constructors(Table(BranchAlphabet, Contexts(2, 3), 5))
    \cup Constructors(Table(TableAlphabet, Contexts(2, 2), 6))
    \cup Loops(Table(WalkAlphabet, Flat, 6))
    \cup Loops(Table(NestAlphabet, Contexts(3, 2), 4))
    \cup Loops(Table(WriteAlphabet, Contexts(3, 1), 6))
    \cup Resumed(Table(ResumeAlphabet, Flat, 4))
    \cup Calls(Table(CallAlphabet, Contexts(1, 2), 4))
    \cup Limits
=============================================================================
