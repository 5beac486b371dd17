---------------------------- MODULE DkReference ----------------------------
(***************************************************************************)
(* What the flat machine of DkControl must compute: the meaning of the     *)
(* structured code its bodies were flattened from, run on concrete values  *)
(* only.  An entry carries that structured code in its field `tree': one   *)
(* StructuredTree per function.                                            *)
(***************************************************************************)
EXTENDS DkControl, StructuredTree, Functions

(* try_eval_const_loop's fragment: the loop inside exactly one void block. *)
Fragment(loopBody) ==
    <<[op |-> "block", n |-> 0,
       body |-> <<[op |-> "loop", n |-> 0, body |-> loopBody]>>]>>

-----------------------------------------------------------------------------
(* Structured execution.  sig says how a sequence was left: "next" falls   *)
(* through, "br" to the label `to', "return", "trap", or "fuel".           *)
Left(st, sig, to) == [st EXCEPT !.sig = sig, !.to = to]
State(stack, locals) == [stack |-> stack, locals |-> locals, sig |-> "next", to |-> 0]

Simple(st, node) ==
    LET s == st.stack
        h == Len(s)
    IN  CASE node.op = "const"  -> [st EXCEPT !.stack = Append(s, node.n)]
          [] node.op = "get"    -> [st EXCEPT !.stack = Append(s, st.locals[node.n + 1])]
          [] node.op = "set"    -> [st EXCEPT !.stack = Keep(s, h - 1),
                                              !.locals[node.n + 1] = s[h]]
          [] node.op = "drop"   -> [st EXCEPT !.stack = Keep(s, h - 1)]
          [] node.op = "select" -> [st EXCEPT !.stack = Append(Keep(s, h - 3),
                                        IF s[h] # 0 THEN s[h - 2] ELSE s[h - 1])]
          [] node.op = "add"    -> [st EXCEPT !.stack = Append(Keep(s, h - 2),
                                        (s[h - 1] + s[h]) % Modulus)]
          [] node.op = "eqz"    -> [st EXCEPT !.stack = Append(Keep(s, h - 1),
                                        IF s[h] = 0 THEN 1 ELSE 0)]
          [] node.op = "br"     -> Left(st, "br", node.n)
          [] node.op = "br_if"  -> LET p == [st EXCEPT !.stack = Keep(s, h - 1)]
                                   IN  IF s[h] # 0 THEN Left(p, "br", node.n) ELSE p
          [] node.op = "br_table" ->
                LET p == [st EXCEPT !.stack = Keep(s, h - 1)]
                IN  Left(p, "br", IF s[h] < Len(node.n[1]) THEN node.n[1][s[h] + 1]
                                  ELSE node.n[2])
          [] node.op = "return" -> Left(st, "return", 0)
          [] OTHER              -> Left(st, "trap", 0)

(* Leaving an opener of arity n: its results go onto the outer operands.   *)
Unlabel(outer, st, n) ==
    LET back == [st EXCEPT !.stack = outer \o Results(st.stack, n)]
    IN  CASE st.sig = "next" -> back
          [] st.sig = "br" /\ st.to = 0 -> Left(back, "next", 0)
          [] st.sig = "br" /\ st.to > 0 -> Left(st, "br", st.to - 1)
          [] OTHER -> st

RECURSIVE RunSeq(_, _, _, _)
RunSeq(tree, t, st, fuel) ==
    IF t = <<>> \/ st.sig # "next" THEN st
    ELSE IF fuel = 0 THEN Left(st, "fuel", 0)
    ELSE LET node == Head(t)
             h == Len(st.stack)
             inside(stack, b) == RunSeq(tree, b, State(<<>>, st.locals), fuel)
             callee ==
                 LET fn == node.n
                     args == Results(st.stack, Code[fn].params)
                 IN  RunSeq(tree, tree[fn], State(<<>>, args \o Zeros(Code[fn].extra)), fuel - 1)
             after ==
                 CASE node.op = "block" ->
                        Unlabel(st.stack, inside(<<>>, node.body), node.n)
                   [] node.op = "if" ->
                        Unlabel(Keep(st.stack, h - 1),
                                inside(<<>>, IF st.stack[h] # 0 THEN node.body ELSE node.els),
                                node.n)
                   [] node.op = "loop" ->
                        LET once == inside(<<>>, node.body)
                        IN  IF once.sig = "br" /\ once.to = 0
                            THEN RunSeq(tree, <<node>>, State(st.stack, once.locals), fuel - 1)
                            ELSE Unlabel(st.stack, once, node.n)
                   [] node.op = "call" ->
                        IF callee.sig \in {"next", "return"}
                        THEN [st EXCEPT !.stack = Keep(@, h - Code[node.n].params)
                                                  \o Results(callee.stack, Code[node.n].arity)]
                        ELSE callee
                   [] OTHER -> Simple(st, node)
         IN  RunSeq(tree, Tail(t), after, fuel)

(* The opaque values of an entry stand for any concrete ones. *)
Opaque == {v \in Range(entry.locals) : ~Concrete(v)}
Under(rho, s) == [i \in 1 .. Len(s) |-> IF s[i] \in DOMAIN rho THEN rho[s[i]] ELSE s[i]]

(* "A completed eval proves the payload flowed untouched": for every value *)
(* the opaque arguments can take, the bytecode really run on those values  *)
(* ends, with the evaluator's answer and, for a loop fragment whose finals *)
(* are adopted, with the evaluator's locals.                               *)
EvalSound ==
    status = "done" =>
        \A rho \in [Opaque -> Int32] :
            LET run == RunSeq(entry.tree, entry.tree[1],
                              State(<<>>, Under(rho, entry.locals \o Zeros(Code[1].extra))),
                              MaxSteps)
            IN  /\ run.sig \in {"next", "return"}
                /\ Results(run.stack, Code[1].arity) = Under(rho, result)
                /\ entry.direct => run.locals = Under(rho, acts[1].locals)

(* try_eval_const_loop adopts the finals of the locals the loop writes, if *)
(* it writes any and every one of them came out concrete.                  *)
Assigned_TopLevel ==
    {Body[i].n + 1 : i \in {k \in 1 .. Len(Body) : Body[k].op = "set" /\ Unclosed(Body, 1, k) = 2}}
Assigned == {Body[i].n + 1 : i \in {k \in 1 .. Len(Body) : Body[k].op = "set"}}
Adopts ==
    /\ status = "done" /\ entry.direct
    /\ Assigned # {}
    /\ \A x \in Assigned : Concrete(Act.locals[x])
Adopted == [x \in DOMAIN entry.locals |->
               IF x \in Assigned THEN Act.locals[x] ELSE entry.locals[x]]

(* How the loop is left, and whether the locals are the same behind what   *)
(* follows it in the enclosing block (an entry's field `rest') for the     *)
(* machine and for the lifter, which goes on with the finals it adopted.   *)
LeftBy(rho) ==
    RunSeq(entry.tree, entry.tree[1][1].body, State(<<>>, Under(rho, entry.locals)), MaxSteps)
SameBehind(rho) ==
    LET lifted == State(<<>>, Under(rho, Adopted))
    IN  RunSeq(entry.tree, entry.rest, LeftBy(rho), MaxSteps).locals
        = RunSeq(entry.tree, entry.rest, lifted, MaxSteps).locals

(* The finals stand for the loop, however it is left.  Left by its own end *)
(* or label, the machine goes on as the lifter does: "the single-wrapper   *)
(* exit model is exact".  Left through the enclosing label, it is past the *)
(* end of that block with just the finals, and skips what follows the loop *)
(* there; the lifter does not.                                             *)
AdoptionExactBar ==
    Adopts => \A rho \in [Opaque -> Int32] :
                  IF LeftBy(rho).sig = "next" THEN SameBehind(rho)
                  ELSE LeftBy(rho).locals = Under(rho, Adopted)
===============================================================================
