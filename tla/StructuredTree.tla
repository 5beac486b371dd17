--------------------------- MODULE StructuredTree ---------------------------
(* The structured trees the lifter walks.  A tree is a sequence of nodes   *)
(* [op, n], or [op, n, body] for an opener and [op, n, body, els] for an   *)
(* If.  "unreachable" and "net" are the two readings of the one trap       *)
(* instruction: a user's panic, and a safety net that lifts to nothing.    *)
EXTENDS WasmBlocks

I(op, n) == [op |-> op, n |-> n]
End == <<I("end", 0)>>

(* The bodies of a node, none for a plain instruction. *)
Bodies(node) ==
    CASE node.op \in {"block", "loop"} -> {node.body}
      [] node.op = "if"                -> {node.body, node.els}
      [] OTHER                         -> {}

(* flatten_structured: an If without an else part gets no Else. *)
RECURSIVE Flatten(_)
Flatten(t) ==
    IF t = <<>> THEN <<>>
    ELSE LET node == Head(t)
             inner ==
                 IF node.op = "net" THEN <<I("unreachable", 0)>>
                 ELSE IF node.op \notin Opens THEN <<node>>
                 ELSE <<I(node.op, node.n)>> \o Flatten(node.body)
                      \o (IF node.op = "if" /\ node.els # <<>>
                          THEN <<I("else", 0)>> \o Flatten(node.els) ELSE <<>>)
                      \o End
         IN  inner \o Flatten(Tail(t))

(* Every sequence of the tree: itself and, in turn, its nodes' bodies. *)
RECURSIVE Sequences(_)
Sequences(t) == {t} \cup UNION {UNION {Sequences(b) : b \in Bodies(t[i])} : i \in DOMAIN t}

(* What is left of a tree whose openers nested deeper than `levels' keep   *)
(* no body.                                                                *)
RECURSIVE Pruned(_, _)
Pruned(t, levels) ==
    [i \in DOMAIN t |->
        LET inside(b) == IF levels = 0 THEN <<>> ELSE Pruned(b, levels - 1)
        IN  CASE t[i].op \in {"block", "loop"} -> [t[i] EXCEPT !.body = inside(@)]
              [] t[i].op = "if" -> [t[i] EXCEPT !.body = inside(@), !.els = inside(@)]
              [] OTHER -> t[i]]

-----------------------------------------------------------------------------
(* The runs of a tree: the effects and the decisions in the order they     *)
(* happen, and how the sequence is left: "next" falls through, "br" to the *)
(* label `to', "return" and "trap".  A decision is free, which way a       *)
(* condition goes; a loop goes round at most `rounds' times, then "cut".   *)
(* A br_table has n = <<targets, default>>, with one target here.          *)
Run(trace, sig, to) == [trace |-> trace, sig |-> sig, to |-> to]
Fell == Run(<<>>, "next", 0)
After(trace, runs) == {[r EXCEPT !.trace = trace \o @] : r \in runs}

(* Past the end of an opener: label 0 is its own. *)
Unlabelled(r) ==
    IF r.sig # "br" THEN r
    ELSE IF r.to = 0 THEN [r EXCEPT !.sig = "next"] ELSE [r EXCEPT !.to = @ - 1]

RECURSIVE Runs(_, _)
Runs(t, rounds) ==
    IF t = <<>> THEN {Fell}
    ELSE LET node == Head(t)
             op == node.op
             again(r) ==
                 IF r.sig = "br" /\ r.to = 0
                 THEN IF rounds = 0 THEN {Run(r.trace, "cut", 0)}
                      ELSE After(r.trace, Runs(<<node>>, rounds - 1))
                 ELSE {Unlabelled(r)}
             first ==
                 CASE op = "block" -> {Unlabelled(r) : r \in Runs(node.body, rounds)}
                   [] op = "loop"  -> UNION {again(r) : r \in Runs(node.body, rounds)}
                   [] op = "if"    -> {Unlabelled(r) : r \in
                                          After(<<"yes">>, Runs(node.body, rounds))
                                          \cup After(<<"no">>, Runs(node.els, rounds))}
                   [] op = "br"    -> {Run(<<>>, "br", node.n)}
                   [] op = "br_if" -> {Run(<<"yes">>, "br", node.n), Run(<<"no">>, "next", 0)}
                   [] op = "br_table" -> {Run(<<"yes">>, "br", node.n[1][1]),
                                          Run(<<"no">>, "br", node.n[2])}
                   [] op = "return" -> {Run(<<>>, "return", 0)}
                   [] op \in {"unreachable", "panic_helper"} -> {Run(<<>>, "trap", 0)}
                   [] op \in {"net", "fail_with_error"} -> {Run(<<op>>, "trap", 0)}
                   [] OTHER -> {Run(<<op>>, "next", 0)}
         IN  UNION {IF r.sig = "next" THEN After(r.trace, Runs(Tail(t), rounds)) ELSE {r} :
                       r \in first}

Passable(node) == \E r \in Runs(<<node>>, 1) : r.sig = "next"
=============================================================================
