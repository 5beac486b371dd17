---------------------------- MODULE MCStructurize ----------------------------
(* Any bytes: every sequence of up to six instructions, well nested or not,*)
(* of plain instructions, told apart by their place, and every marker.     *)
(* And compiled bodies: every kind of node in trees of up to three nodes,  *)
(* the ways to leave a body in trees of up to four, error tails with the   *)
(* branches to them in trees of up to five; and nesting past the limit.    *)
(* Ifs is the smallest alphabet in which an If can take another's else;    *)
(* in Tails an error tail may hold a branch of its own.                    *)
EXTENDS Structurize

(* Every tree up to a size over an alphabet of nodes: plain instructions,  *)
(* openers without their bodies, and the branches as I("br", 0),           *)
(* I("br_if", 0) and I("br_table", 0), which stand for every valid depth.  *)
(* Grown(..)[n + 1][k + 1]: the trees of n nodes under k labels, as far as *)
(* they can be part of one of `total' nodes.                               *)
Longer(alphabet, nest, total, smaller) ==
    LET size == Len(smaller)
        branches == {"br", "br_if"}
        leaves(k) ==
            {a \in alphabet : a.op \notin Opens \cup branches \cup {"br_table"}}
            \cup {I(a.op, d) : a \in {b \in alphabet : b.op \in branches}, d \in 0 .. (k - 1)}
            \cup {I("br_table", <<<<d>>, e>>) :
                     d \in 0 .. (k - 1), e \in IF I("br_table", 0) \in alphabet
                                               THEN 0 .. (k - 1) ELSE {}}
        under(op) == {a \in alphabet : a.op = op}
        heads(m, k) ==      \* nodes of m nodes in all
            (IF m = 1 THEN leaves(k) ELSE {})
            \cup (IF k = nest THEN {}
                  ELSE {[op |-> a.op, n |-> 0, body |-> b] :
                           a \in under("block") \cup under("loop"), b \in smaller[m][k + 2]}
                       \cup UNION {{[op |-> "if", n |-> 0, body |-> b, els |-> e] :
                                       a \in under("if"), b \in smaller[j + 1][k + 2],
                                       e \in smaller[m - j][k + 2]} : j \in 0 .. (m - 1)})
        from(k) == IF size + k > total THEN {} ELSE
                   UNION {{<<h>> \o t : h \in heads(m, k), t \in smaller[size - m + 1][k + 1]} :
                             m \in 1 .. size}
    IN  Append(smaller, [i \in 1 .. (nest + 1) |-> from(i - 1)] \o <<>>)

RECURSIVE Grown(_, _, _, _)
Grown(alphabet, nest, total, size) ==
    IF size = 0 THEN <<[i \in 1 .. (nest + 1) |-> {<<>>}]>>
    ELSE CHOOSE t \in {Longer(alphabet, nest, total, s) :
                           s \in {Grown(alphabet, nest, total, size - 1)}} : TRUE

(* A batch of each size. *)
Batch(trees) == {[code |-> Flatten(t) \o End, tree |-> t] : t \in trees}
BodiesOf(alphabet, nest, size) ==
    UNION {{Batch(table[n][1]) : n \in DOMAIN table} :
              table \in {Grown(alphabet, nest, size, size)}}

-----------------------------------------------------------------------------
Over(ops) == {I(op, 0) : op \in ops}

AnyBytes ==
    LET ops == {"nop", "block", "if", "else", "end"}
        of(size) == {[code |-> [i \in 1 .. size |-> I(c[i], i)], tree |-> <<>>] :
                         c \in [1 .. size -> ops]}
    IN  {of(size) : size \in 0 .. 6}

Compiled ==
    BodiesOf(Over({"nop", "return", "unreachable", "panic_helper",
                   "br", "br_if", "br_table", "block", "loop", "if"}), 3, 3)
    \cup BodiesOf(Over({"return", "unreachable", "br", "br_if", "block", "loop", "if"}), 3, 4)
    \cup BodiesOf(Over({"fail_with_error", "unreachable", "br_if", "block", "loop"}), 3, 5)
    \cup BodiesOf(Over({"nop", "block"}), 5, 6)

Block(b) == [op |-> "block", n |-> 0, body |-> b]
Tails ==
    LET checks == UNION {[1 .. n -> {I("nop", 0), I("br_if", 0), I("br_if", 1)}] : n \in 1 .. 2}
        first == {<<>>, <<I("nop", 0)>>, <<I("br", 0)>>, <<I("br_if", 0)>>}
        guarded(b, s) == <<Block(<<Block(b)>> \o s \o <<I("fail_with_error", 0), I("unreachable", 0)>>)>>
    IN  {Batch({guarded(b, s) : b \in checks, s \in first})}

AllEntries == AnyBytes \cup Compiled \cup Tails

(* A function that returns or, from the end of its block, traps. *)
ReturnOrTrap == {Batch({<<Block(<<I("nop", 0), I("br_if", 0), I("nop", 0), I("return", 0)>>), I("unreachable", 0)>>})}

Ifs == BodiesOf(Over({"nop", "if"}), 2, 4)
Misread == Ifs \cup ReturnOrTrap \cup Tails
=============================================================================
