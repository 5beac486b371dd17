----------------------------- MODULE DkControl -----------------------------
(***************************************************************************)
(* The control machine of DkEval: run_instrs over flat WASM bodies, with   *)
(* the block frames, the branches, the nested calls and the step budget.   *)
(* Memory is DkMemory's subject; here the data is an operand stack and the *)
(* locals.  Both clients are covered: eval_call, which runs a constructor  *)
(* and the helpers it calls (loops refused), and the const-loop evaluator, *)
(* which runs one loop fragment (no calls) against the caller's locals.    *)
(*                                                                         *)
(* A value is a concrete integer 0 .. Modulus-1, or negative: -1 - k is    *)
(* the opaque Arg(k), which may be moved and never computed with.          *)
(***************************************************************************)
EXTENDS WasmBlocks

CONSTANTS
    Modulus,    \* integers wrap at this value
    MaxSteps,   \* DK_MAX_STEPS
    MaxDepth,   \* DK_MAX_CALL_DEPTH
    MaxBody,    \* DK_MAX_BODY, in instructions
    Entries     \* batches of what may be run: sets of [code, locals, direct]

ASSUME ControlAssumption ==
    Modulus \in Nat \ {0} /\ MaxSteps \in Nat /\ MaxDepth \in Nat /\ MaxBody \in Nat

(* An entry's code is a sequence of functions [body, params, extra, arity] *)
(* (extra: the declared locals), the first of which runs; direct says it   *)
(* runs without eval_call's checks, as a loop fragment does.  A body is a  *)
(* sequence of instructions [op, n]; br_table has n = <<targets, default>>;*)
(* an opener's n is its result arity, 2 standing for a FuncType block.  An *)
(* indirect call is of a function without parameters and results.          *)

VARIABLES
    entry,      \* what is being run
    acts,       \* the Rust call stack: one record per run_instrs
    steps,      \* DkEval.steps, shared by every activation
    status,     \* "run", then "done" or "bail" (the outer None)
    result      \* <<value>> or <<>>

vars == <<entry, acts, steps, status, result>>

Int32 == 0 .. (Modulus - 1)
Concrete(v) == v \in Int32

FrontOf(s) == SubSeq(s, 1, Len(s) - 1)
LastOf(s) == s[Len(s)]
Keep(s, n) == SubSeq(s, 1, n)
Results(s, n) == SubSeq(s, Len(s) - n + 1, Len(s))

(* dk_scan_blocks as a table: what it finds of each opener.                *)
Scan(body) ==
    {[start |-> i, end |-> EndOf(body, i), els |-> ElseOf(body, i)] :
        i \in {k \in 1 .. Len(body) : body[k].op \in Opens}}

(* What a validated module guarantees of the code it holds, besides that   *)
(* its blocks are paired: calls and labels name something.                 *)
Immediate(ins, fns) ==
    /\ ins.op = "const" => ins.n \in Int
    /\ ins.op = "call" => ins.n \in 1 .. fns
    /\ ins.op \in Opens \cup {"br", "br_if"} => ins.n \in Nat
    /\ ins.op = "br_table" => ins.n[2] \in Nat /\ \A i \in DOMAIN ins.n[1] : ins.n[1][i] \in Nat

(* The validator also knows the operand height before every instruction, a *)
(* block's operands staying above what was there when it opened; Dead: no  *)
(* path gets there.                                                        *)
Dead == -1
Jumps == {"br", "br_table", "return", "unreachable"}
Takes(ins, code) ==
    CASE ins.op \in {"set", "drop", "eqz", "br_if", "br_table", "if", "call_indirect"} -> 1
      [] ins.op = "add"    -> 2
      [] ins.op = "select" -> 3
      [] ins.op = "call"   -> code[ins.n].params
      [] OTHER             -> 0
Gives(ins, code) ==
    CASE ins.op \in {"const", "get", "eqz", "add", "select"} -> 1
      [] ins.op = "call" -> code[ins.n].arity
      [] OTHER           -> 0
Base(body, code, h, s) == h[s] - Takes(body[s], code)
Entered(body, h, s) == body[s].op \in Opens /\ body[s].n <= 1 /\ h[s] # Dead
Follows(ins) == ins.op \notin Jumps \cup {"else", "end"} /\ (ins.op \in Opens => ins.n <= 1)

(* The heights, instruction after instruction, and what they satisfy.      *)
Inferred(body, code) ==
    LET blocks == Scan(body)
        h[i \in 1 .. (Len(body) + 1)] ==
            IF i = 1 THEN 0
            ELSE LET ins == body[i - 1]
                     closed == {b.start : b \in {b \in blocks : i - 1 \in {b.els, b.end}}}
                     s == CHOOSE s \in closed : TRUE
                 IN  IF closed # {}
                     THEN IF ~ Entered(body, h, s) THEN Dead
                          ELSE Base(body, code, h, s) + IF ins.op = "end" THEN body[s].n ELSE 0
                     ELSE IF ~ Follows(ins) \/ h[i - 1] = Dead THEN Dead
                     ELSE h[i - 1] - Takes(ins, code) + Gives(ins, code)
    IN  h
Fits(body, code, h) ==
    /\ h \in [1 .. (Len(body) + 1) -> Nat \cup {Dead}] /\ h[1] = 0
    /\ \A i \in 1 .. Len(body) :
           Follows(body[i]) /\ h[i] # Dead => h[i + 1] = h[i] - Takes(body[i], code) + Gives(body[i], code)
    /\ \A s \in 1 .. Len(body) : Entered(body, h, s) =>
           /\ h[EndOf(body, s) + 1] = Base(body, code, h, s) + body[s].n
           /\ body[s].op = "if" => IF ElseOf(body, s) = 0 THEN body[s].n = 0
                                   ELSE h[ElseOf(body, s) + 1] = Base(body, code, h, s)
           /\ \A j \in (s + 1) .. EndOf(body, s) :
                  h[j] # Dead => h[j] - Takes(body[j], code) >= Base(body, code, h, s)

Function(f, code) ==
    /\ Len(f.body) \in Nat /\ Paired(f.body)
    /\ \A i \in 1 .. Len(f.body) : Immediate(f.body[i], Len(code))
    /\ Fits(f.body, code, Inferred(f.body, code))
    /\ f.params \in Nat /\ f.extra \in Nat /\ f.arity \in Nat
Validated(e) ==
    /\ Len(e.code) \in Nat \ {0} /\ e.locals \in Seq(Int)
    /\ \A fn \in 1 .. Len(e.code) : Function(e.code[fn], e.code)

ASSUME EntriesAssumption == \A batch \in Entries : \A e \in batch : Validated(e)

-----------------------------------------------------------------------------
Code == entry.code
Act == LastOf(acts)
Body == Code[Act.fn].body
Ins == Body[Act.ip]
InBody == status = "run" /\ Act.ip \in 1 .. Len(Body)

Tick == steps' = steps + 1
InBudget == steps + 1 <= MaxSteps
Continue(a) == acts' = Append(FrontOf(acts), a) /\ UNCHANGED <<entry, status, result>>
Bail == status' = "bail" /\ UNCHANGED <<entry, acts, result>>

(* An activation after ip moved on, with a new operand stack. *)
Next1(a, s) == [a EXCEPT !.ip = @ + 1, !.stack = s]

(* One straight-line instruction: the set of its outcomes, none when an    *)
(* operand is missing or is an opaque value that would be computed with.   *)
Straight(a, ins) ==
    LET s == a.stack
        h == Len(s)
        local == ins.n + 1
    IN  CASE ins.op = "const" -> {Next1(a, Append(s, ins.n))}
          [] ins.op = "get" /\ local \in DOMAIN a.locals ->
                {Next1(a, Append(s, a.locals[local]))}
          [] ins.op = "set" /\ local \in DOMAIN a.locals /\ h >= 1 ->
                {[Next1(a, FrontOf(s)) EXCEPT !.locals[local] = s[h]]}
          [] ins.op = "drop" /\ h >= 1 -> {Next1(a, FrontOf(s))}
          [] ins.op = "select" /\ h >= 3 /\ Concrete(s[h]) ->
                {Next1(a, Append(Keep(s, h - 3), IF s[h] # 0 THEN s[h - 2] ELSE s[h - 1]))}
          [] ins.op = "add" /\ h >= 2 /\ Concrete(s[h]) /\ Concrete(s[h - 1]) ->
                {Next1(a, Append(Keep(s, h - 2), (s[h - 1] + s[h]) % Modulus))}
          [] ins.op = "eqz" /\ h >= 1 /\ Concrete(s[h]) ->
                {Next1(a, Append(FrontOf(s), IF s[h] = 0 THEN 1 ELSE 0))}
          [] OTHER -> {}

(* dk_exit_block: keep the results, drop what lies between them and the    *)
(* height at entry.                                                        *)
ExitBlock(a, fr) ==
    IF Len(a.stack) < fr.height + fr.arity THEN {}
    ELSE {[a EXCEPT !.stack = Keep(@, fr.height) \o Results(@, fr.arity),
                    !.frames = FrontOf(@)]}

(* dk_branch: to a loop frame, the back edge, which keeps the frame; to    *)
(* any other, out past its End with its results.                           *)
BranchTo_KeepsFrame(a, depth) ==
    LET at == Len(a.frames) - depth
        fr == a.frames[at]
    IN  IF at < 1 \/ Len(a.stack) < fr.height + fr.arity THEN {}
        ELSE {[a EXCEPT !.stack = Keep(@, fr.height) \o Results(@, fr.arity),
                        !.frames = Keep(@, at), !.ip = fr.end + 1]}
BranchTo(a, depth) ==
    LET at == Len(a.frames) - depth
        fr == a.frames[at]
    IN  IF at < 1 THEN {}
        ELSE IF fr.loop_start # 0
        THEN IF Len(a.stack) < fr.height THEN {}
             ELSE {[a EXCEPT !.stack = Keep(@, fr.height), !.frames = Keep(@, at),
                             !.ip = fr.loop_start + 1]}
        ELSE IF Len(a.stack) < fr.height + fr.arity THEN {}
             ELSE {[a EXCEPT !.stack = Keep(@, fr.height) \o Results(@, fr.arity),
                             !.frames = Keep(@, at - 1),
                             !.ip = fr.end + 1]}

Resume(outcomes) == IF outcomes = {} THEN Bail ELSE \E a \in outcomes : Continue(a)

Frame(a, start) ==
    [end |-> EndOf(Body, start), arity |-> Body[start].n, height |-> Len(a.stack),
     loop_start |-> IF Body[start].op = "loop" THEN start ELSE 0]

-----------------------------------------------------------------------------
Activation(fn, locals) ==
    [fn |-> fn, ip |-> 1, stack |-> <<>>, frames |-> <<>>, locals |-> locals]
Zeros(n) == [i \in 1 .. n |-> 0]

(* eval_call refuses a function before running any of it: a body that is   *)
(* too long, that loops or calls through a table, or several results.  The *)
(* arguments are as many as it declares, as a call pops that many.         *)
Callable(fn) ==
    /\ Len(Code[fn].body) <= MaxBody /\ Code[fn].arity <= 1
    /\ \A i \in 1 .. Len(Code[fn].body) : Code[fn].body[i].op \notin {"loop", "call_indirect"}

Init ==
    /\ \E batch \in Entries : entry \in batch
    /\ acts = <<Activation(1, entry.locals \o Zeros(entry.code[1].extra))>>
    /\ steps = 0
    /\ status = IF entry.direct \/ Callable(1) THEN "run" ELSE "bail"
    /\ result = <<>>

OutOfBudget == status = "run" /\ ~InBudget /\ Tick /\ Bail

StraightLine ==
    /\ InBody /\ InBudget /\ Tick
    /\ Ins.op \in {"const", "get", "set", "drop", "select", "add", "eqz",
                   "unreachable", "call_indirect"}
    /\ Resume(Straight(Act, Ins))

EnterBlock ==
    /\ InBody /\ InBudget /\ Tick
    /\ Ins.op \in {"block", "loop"}
    /\ IF Ins.n > 1 THEN Bail ELSE
       Continue([Act EXCEPT !.ip = @ + 1, !.frames = Append(@, Frame(Act, Act.ip))])

(* An If whose condition is zero runs its Else, or skips it all unframed.  *)
EnterIf_HeightBeforePop ==
    /\ InBody /\ InBudget /\ Tick
    /\ Ins.op = "if"
    /\ IF Act.stack = <<>> \/ ~Concrete(LastOf(Act.stack)) \/ Ins.n > 1 THEN Bail
       ELSE LET a == [Act EXCEPT !.stack = FrontOf(@)]
                els == ElseOf(Body, Act.ip)
                framed(ip) == [a EXCEPT !.ip = ip, !.frames = Append(@, Frame(Act, Act.ip))]
            IN  IF LastOf(Act.stack) # 0 THEN Continue(framed(Act.ip + 1))
                ELSE IF els # 0 THEN Continue(framed(els + 1))
                ELSE Continue([a EXCEPT !.ip = EndOf(Body, Act.ip) + 1])
EnterIf ==
    /\ InBody /\ InBudget /\ Tick
    /\ Ins.op = "if"
    /\ IF Act.stack = <<>> \/ ~Concrete(LastOf(Act.stack)) \/ Ins.n > 1 THEN Bail
       ELSE LET a == [Act EXCEPT !.stack = FrontOf(@)]
                els == ElseOf(Body, Act.ip)
                framed(ip) == [a EXCEPT !.ip = ip, !.frames = Append(@, Frame(a, Act.ip))]
            IN  IF LastOf(Act.stack) # 0 THEN Continue(framed(Act.ip + 1))
                ELSE IF els # 0 THEN Continue(framed(els + 1))
                ELSE Continue([a EXCEPT !.ip = EndOf(Body, Act.ip) + 1])

(* Reaching Else is the end of the then branch: out past the End. *)
LeaveThen ==
    /\ InBody /\ InBudget /\ Tick
    /\ Ins.op = "else"
    /\ IF Act.frames = <<>> THEN Bail
       ELSE LET fr == LastOf(Act.frames)
            IN  Resume({[a EXCEPT !.ip = fr.end + 1] : a \in ExitBlock(Act, fr)})

LeaveBlock ==
    /\ InBody /\ InBudget /\ Tick
    /\ Ins.op = "end" /\ Act.frames # <<>>
    /\ Resume({[a EXCEPT !.ip = @ + 1] : a \in ExitBlock(Act, LastOf(Act.frames))})

Branch_Unbudgeted ==
    InBody /\ InBudget /\ UNCHANGED steps /\ Ins.op = "br" /\ Resume(BranchTo(Act, Ins.n))
Branch ==
    /\ InBody /\ InBudget /\ Tick
    /\ Ins.op = "br"
    /\ Resume(BranchTo(Act, Ins.n))

BranchIf ==
    /\ InBody /\ InBudget /\ Tick
    /\ Ins.op = "br_if"
    /\ IF Act.stack = <<>> \/ ~Concrete(LastOf(Act.stack)) THEN Bail
       ELSE LET a == [Act EXCEPT !.stack = FrontOf(@)]
            IN  IF LastOf(Act.stack) # 0 THEN Resume(BranchTo(a, Ins.n))
                ELSE Continue([a EXCEPT !.ip = @ + 1])

BranchTable ==
    /\ InBody /\ InBudget /\ Tick
    /\ Ins.op = "br_table"
    /\ IF Act.stack = <<>> \/ ~Concrete(LastOf(Act.stack)) THEN Bail
       ELSE LET idx == LastOf(Act.stack) + 1
                targets == Ins.n[1]
                depth == IF idx \in DOMAIN targets THEN targets[idx] ELSE Ins.n[2]
            IN  Resume(BranchTo([Act EXCEPT !.stack = FrontOf(@)], depth))

(* handle_call then eval_call: the arguments move to the callee's locals,  *)
(* the callee runs in its own operand stack and frames, one level deeper.  *)
Call_DeeperByOne ==
    /\ InBody /\ InBudget /\ Tick
    /\ Ins.op = "call"
    /\ LET fn == Ins.n
           n == Code[fn].params
       IN  IF Len(Act.stack) < n \/ Len(acts) > MaxDepth + 1 \/ ~Callable(fn) THEN Bail
           ELSE /\ acts' = Append(Append(FrontOf(acts), [Act EXCEPT !.stack = Keep(@, Len(@) - n)]),
                                  Activation(fn, Results(Act.stack, n) \o Zeros(Code[fn].extra)))
                /\ UNCHANGED <<entry, status, result>>
Call ==
    /\ InBody /\ InBudget /\ Tick
    /\ Ins.op = "call"
    /\ LET fn == Ins.n
           n == Code[fn].params
       IN  IF Len(Act.stack) < n \/ Len(acts) > MaxDepth \/ ~Callable(fn) THEN Bail
           ELSE /\ acts' = Append(Append(FrontOf(acts), [Act EXCEPT !.stack = Keep(@, Len(@) - n)]),
                                  Activation(fn, Results(Act.stack, n) \o Zeros(Code[fn].extra)))
                /\ UNCHANGED <<entry, status, result>>

(* Return, the function's own End, or running off the body.  The result    *)
(* goes to the caller, whose ip then passes the call.                      *)
Returns ==
    Act.ip \in 1 .. Len(Body) =>
        (Ins.op = "return" \/ (Ins.op = "end" /\ Act.frames = <<>>))
Return_StackBottom ==
    /\ status = "run" /\ InBudget /\ Tick
    /\ Returns
    /\ LET answer == Keep(Act.stack, Code[Act.fn].arity)
       IN  IF Len(Act.stack) < Code[Act.fn].arity THEN Bail
           ELSE IF Len(acts) = 1
           THEN status' = "done" /\ result' = answer /\ UNCHANGED <<entry, acts>>
           ELSE /\ acts' = LET callers == FrontOf(acts)
                               a == LastOf(callers)
                           IN  Append(FrontOf(callers), Next1(a, a.stack \o answer))
                /\ UNCHANGED <<entry, status, result>>
Return ==
    /\ status = "run" /\ InBudget /\ Tick
    /\ Returns
    /\ LET arity == Code[Act.fn].arity
           answer == Results(Act.stack, arity)
       IN  IF Len(Act.stack) < arity THEN Bail
           ELSE IF Len(acts) = 1
           THEN status' = "done" /\ result' = answer /\ UNCHANGED <<entry, acts>>
           ELSE /\ acts' = LET callers == FrontOf(acts)
                               a == LastOf(callers)
                           IN  Append(FrontOf(callers), Next1(a, a.stack \o answer))
                /\ UNCHANGED <<entry, status, result>>

Halted == status # "run" /\ UNCHANGED vars

Next ==
    \/ OutOfBudget
    \/ StraightLine \/ EnterBlock \/ EnterIf \/ LeaveThen \/ LeaveBlock
    \/ Branch \/ BranchIf \/ BranchTable \/ Call \/ Return
    \/ Halted

Spec == Init /\ [][Next]_vars /\ WF_vars(Next)

-----------------------------------------------------------------------------
TypeOK ==
    /\ steps \in 0 .. (MaxSteps + 1)
    /\ status \in {"run", "done", "bail"}
    /\ Len(acts) \in 1 .. (MaxDepth + 1)
    /\ \A i \in 1 .. Len(acts) : acts[i].ip \in 1 .. (Len(Code[acts[i].fn].body) + 1)

Holding(body, ip) == {b \in Scan(body) : b.start < ip /\ ip <= b.end}
ExtentsNest(a) ==
    /\ {a.frames[i].end : i \in 1 .. Len(a.frames)} = {b.end : b \in Holding(Code[a.fn].body, a.ip)}
    /\ \A i, j \in 1 .. Len(a.frames) : i < j => a.frames[j].end < a.frames[i].end
HeightsNest(a) ==
    /\ \A i, j \in 1 .. Len(a.frames) : i < j => a.frames[i].height <= a.frames[j].height
    /\ \A i \in 1 .. Len(a.frames) : a.frames[i].height <= Len(a.stack)

(* The frames are exactly the blocks whose extent holds the ip, outermost  *)
(* first, whatever branches led there: a branch depth then means what the  *)
(* validator took it to mean.                                              *)
FramesHoldIp == \A k \in 1 .. Len(acts) : ExtentsNest(acts[k])

(* No block consumes operands of the blocks around it: what dk_exit_block  *)
(* and dk_branch keep below a frame's height is what was there at entry.   *)
OperandsNest == \A k \in 1 .. Len(acts) : HeightsNest(acts[k])

(* Every fold is decided, whatever loops or recursion the bytecode holds.  *)
Decided == <>(status # "run")
=============================================================================
