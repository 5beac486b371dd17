---------------------------- MODULE Structurize ----------------------------
(***************************************************************************)
(* From a flat WASM body to the tree that is lifted: the recursive descent *)
(* of structurize, the safety-net classification of its traps, and the     *)
(* recovery of contract-error branches.  Each pass behind the descent is   *)
(* one step.                                                               *)
(***************************************************************************)
EXTENDS Descent, StructuredTree

(* cfg_analysis.  A node terminates when, read off its nodes, control does *)
(* not pass it: any of a body's nodes is enough.  A "panic_helper" is a    *)
(* call of a function that is only `unreachable'.                          *)
RECURSIVE Terminates(_)
SeqTerminates(t) == \E i \in DOMAIN t : Terminates(t[i])
Terminates_EitherArm(node) ==
    CASE node.op \in {"block", "loop"} -> SeqTerminates(node.body)
      [] node.op = "if" -> SeqTerminates(node.body) \/ SeqTerminates(node.els)
      [] OTHER -> node.op \in {"return", "unreachable", "br", "br_table", "panic_helper", "net"}
Terminates(node) ==
    CASE node.op \in {"block", "loop"} -> SeqTerminates(node.body)
      [] node.op = "if" -> SeqTerminates(node.body) /\ SeqTerminates(node.els)
      [] OTHER -> node.op \in {"return", "unreachable", "br", "br_table", "panic_helper", "net"}

(* classify_seq: inner bodies first; then a trap right after a node that   *)
(* terminates is a safety net.  A trap that leads its body stays a panic.  *)
RECURSIVE ClassifySeq(_)
ClassifySeq_TopLevel(t) ==
    [i \in DOMAIN t |-> IF t[i].op = "unreachable" /\ i > 1 /\ Terminates(t[i - 1])
                        THEN I("net", 0) ELSE t[i]]
ClassifySeq(t) ==
    LET inner(node) ==
            CASE node.op \in {"block", "loop"} -> [node EXCEPT !.body = ClassifySeq(@)]
              [] node.op = "if" -> [node EXCEPT !.body = ClassifySeq(@), !.els = ClassifySeq(@)]
              [] OTHER -> node
    IN  [i \in DOMAIN t |->
            IF t[i].op = "unreachable" /\ i > 1 /\ Terminates(t[i - 1])
            THEN I("net", 0) ELSE inner(t[i])]

Classify ==
    /\ status = "parsed"
    /\ tree' = ClassifySeq(tree) /\ status' = "classified"
    /\ LaterPass

-----------------------------------------------------------------------------
(* is_fail_with_error_tail: one to six plain instructions, a call that     *)
(* reports a contract error among them, ending in a trap of either kind.   *)
IsFailTail(t) ==
    /\ Len(t) \in 1 .. 6
    /\ Last(t).op \in {"unreachable", "net"}
    /\ \A i \in DOMAIN t : t[i].op \notin Opens
    /\ \E i \in DOMAIN t : t[i].op = "fail_with_error"

(* rewrite_branch_seq: enclosing holds, per label and outermost first, the *)
(* error tail that a branch to that label runs into, or <<>>.  A br_if to  *)
(* such a label becomes an If around a copy of the tail.                   *)
TailAt_FromOutermost(enclosing, k) == IF k < Len(enclosing) THEN enclosing[k + 1] ELSE <<>>
TailAt(enclosing, k) == IF k < Len(enclosing) THEN enclosing[Len(enclosing) - k] ELSE <<>>
RECURSIVE RewriteBranchSeq(_, _)
RewriteBranchSeq(t, enclosing) ==
    LET target(i) ==
            LET tail == SubSeq(t, i + 1, Len(t))
            IN  IF t[i].op # "loop" /\ IsFailTail(tail) THEN tail ELSE <<>>
        inside(b, i) == RewriteBranchSeq(b, Append(enclosing, target(i)))
        rewritten(i) ==
            CASE t[i].op = "br_if" /\ TailAt(enclosing, t[i].n) # <<>> ->
                    [op |-> "if", n |-> 0, body |-> TailAt(enclosing, t[i].n), els |-> <<>>]
              [] t[i].op \in {"block", "loop"} -> [t[i] EXCEPT !.body = inside(@, i)]
              [] t[i].op = "if" -> [t[i] EXCEPT !.body = inside(@, i), !.els = inside(@, i)]
              [] OTHER -> t[i]
    IN  [i \in DOMAIN t |-> rewritten(i)]

Recover ==
    /\ status = "classified"
    /\ tree' = RewriteBranchSeq(tree, <<>>) /\ status' = "recovered"
    /\ LaterPass

Structured == status = "recovered" /\ UNCHANGED vars

Next == Parse \/ Classify \/ Recover \/ Structured

Spec == Init /\ [][Next]_vars /\ WF_vars(Next)

-----------------------------------------------------------------------------
Plainly(code) == SelectSeq(code, LAMBDA ins : ins.op \notin Opens \cup {"else", "end"})
Gathered ==
    IF status = "parsed" THEN Plainly(Flatten(tree))
    ELSE FlattenSeq([k \in DOMAIN open |-> Plainly(Flatten(open[k].then \o open[k].body))])

(* Of any bytes, well nested or not, the parse keeps every instruction it  *)
(* has passed, once and in order, unless it had to cut an opener's body.   *)
(* (structurize's tests of stray Else, stray End and missing End.)         *)
InstructionsKept ==
    (status \in {"parse", "parsed"} /\ Len(SelectSeq(Code, LAMBDA i : i.op \in Opens)) <= MaxNest)
        => Gathered = Plainly(SubSeq(Code, 1, cursor - 1))

(* The parse ends on any bytes, though stray markers do not move it on.    *)
Ends == <>(status = "recovered")

(* "Block/loop/if/else/end nest perfectly, so this is a simple recursive   *)
(* descent": the tree is the structured code the body was flattened from,  *)
(* down to the depth limit.                                                *)
TreeAsWritten ==
    (status = "parsed" /\ Code = Flatten(entry.tree) \o End) => tree = Pruned(entry.tree, MaxNest)

(* It is for every body but those in which a then part with an else of its *)
(* own ends in an If that has none.                                        *)
Dangling(t) ==
    \E s \in Sequences(t) : \E i \in DOMAIN s :
        /\ s[i].op = "if" /\ s[i].els # <<>> /\ s[i].body # <<>>
        /\ Last(s[i].body).op = "if" /\ Last(s[i].body).els = <<>>
TreeAsWrittenBar == ~Dangling(entry.tree) => TreeAsWritten

(* "Rewrites every safety-net unreachable": a trap still read as a user's  *)
(* panic after the pass leads its body or follows a node some run passes.  *)
(* Otherwise the orphan panic cuts the caller's continuation off.  (A call *)
(* of fail_with_error is no call of a function that is only a trap.)       *)
ReportsError(node) == \E i \in DOMAIN Flatten(<<node>>) : Flatten(<<node>>)[i].op = "fail_with_error"
NoOrphanPanic ==
    status = "classified" =>
        \A s \in Sequences(tree) : \A i \in DOMAIN s :
            (s[i].op = "unreachable" /\ i > 1)
                => Passable(s[i - 1]) \/ ReportsError(s[i - 1])

(* "Every control-flow path reaching the unreachable has already           *)
(* terminated", except right after a node that holds a branch to the end   *)
(* of itself or of an opener inside it: a run can come to that safety net. *)
RECURSIVE Exits(_, _)
Exits(t, labels) ==
    LET to(d) == d < Len(labels) /\ labels[d + 1] # "loop"
    IN  \E i \in DOMAIN t :
            \/ t[i].op \in {"br", "br_if"} /\ to(t[i].n)
            \/ t[i].op = "br_table" /\ (to(t[i].n[1][1]) \/ to(t[i].n[2]))
            \/ \E b \in Bodies(t[i]) : Exits(b, <<t[i].op>> \o labels)
NetBehindTerminator ==
    status = "classified" =>
        \A s \in Sequences(tree) : \A i \in DOMAIN s :
            s[i].op = "net" => ~Passable(s[i - 1]) \/ Exits(<<s[i - 1]>>, <<>>)

(* "A br_if k whose depth-k target is a fail_with_error tail is the WASM   *)
(* lowering of if cond { panic }": nesting a copy of the tail changes no   *)
(* run, where no error tail itself branches.                               *)
SameRuns == Runs(tree', 1) = Runs(tree, 1)
BranchingTail ==
    \E s \in Sequences(tree) : \E i \in DOMAIN s :
        LET tail == SubSeq(s, i + 1, Len(s))
        IN  s[i].op \in Opens /\ IsFailTail(tail) /\ \E j \in DOMAIN tail : tail[j].op \in {"br", "br_if", "br_table"}
RecoveryExactBar == [][status' = "recovered" /\ ~BranchingTail => SameRuns]_vars

(* What is lifted runs as what was written, with the same effects after    *)
(* the same decisions, and comes to no trap that is read as dead: for      *)
(* "block/loop/if/else/end nest perfectly", "every control-flow path       *)
(* reaching the unreachable has already terminated", and branching to an   *)
(* error tail "is semantically if cond { panic }".                         *)
RunsAsWritten ==
    (status = "recovered" /\ Code = Flatten(entry.tree) \o End)
        => Runs(tree, 1) = Runs(Pruned(entry.tree, MaxNest), 1)
=============================================================================
