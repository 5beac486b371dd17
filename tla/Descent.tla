------------------------------ MODULE Descent ------------------------------
(***************************************************************************)
(* The recursive descent of structurize, from a flat WASM body to a tree.  *)
(* It is a machine whose `open' is the stack of parse_sequence activations.*)
(* The front end takes any binary, validated or not, so a body here is any *)
(* sequence of instructions; `code' of an entry is the body and `tree' the *)
(* structured code it was flattened from, <<>> if none.                    *)
(***************************************************************************)
EXTENDS WasmBlocks, SequencesExt

CONSTANTS
    MaxNest,    \* MAX_RECURSION_DEPTH
    Entries     \* batches of what may be structured: sets of [code, tree]

(* Past the last instruction Op is "eof", which no instruction is called.  *)
ASSUME StructurizeAssumption ==
    /\ MaxNest \in Nat
    /\ \A batch \in Entries : \A e \in batch :
           /\ Len(e.code) \in Nat /\ DOMAIN e.code = 1 .. Len(e.code)
           /\ \A i \in DOMAIN e.code : e.code[i].op # "eof"

VARIABLES
    entry,      \* what is being structured
    cursor,     \* the next instruction
    open,       \* parse_sequence activations: [op, then, body]
    tree,       \* the tree, once parsed
    status      \* "parse", then after each pass "parsed", "classified", "recovered"

vars == <<entry, cursor, open, tree, status>>

Code == entry.code
Op(i) == IF i \in DOMAIN Code THEN Code[i].op ELSE "eof"

(* op says whose body the activation parses: "fn" that of the function,    *)
(* "then" and "else" those of an If, whose then part is kept in `then'.    *)
Activation(op, then) == [op |-> op, then |-> then, body |-> <<>>]

Node(a) ==
    IF a.op \in {"block", "loop"} THEN [op |-> a.op, n |-> 0, body |-> a.body]
    ELSE [op |-> "if", n |-> 0,
          body |-> IF a.op = "then" THEN a.body ELSE a.then,
          els |-> IF a.op = "then" THEN <<>> ELSE a.body]

Attached(activations, node) ==
    [activations EXCEPT ![Len(activations)].body = Append(@, node)]

Init ==
    /\ \E batch \in Entries : entry \in batch
    /\ cursor = 1
    /\ open = <<Activation("fn", <<>>)>>
    /\ tree = <<>>
    /\ status = "parse"

Plain ==
    /\ status = "parse"
    /\ Op(cursor) \notin Opens \cup {"else", "end", "eof"}
    /\ open' = Attached(open, Code[cursor])
    /\ cursor' = cursor + 1
    /\ UNCHANGED <<entry, tree, status>>

(* A body is parsed by an activation of its own, MaxNest of them at most   *)
(* besides the function's.                                                 *)
Enter ==
    /\ status = "parse" /\ Op(cursor) \in Opens
    /\ Len(open) - 1 < MaxNest
    /\ open' = Append(open, Activation(IF Op(cursor) = "if" THEN "then" ELSE Op(cursor), <<>>))
    /\ cursor' = cursor + 1
    /\ UNCHANGED <<entry, tree, status>>

(* skip_to_matching_end: past the End that closes what was opened before   *)
(* `from', or to the end of the code.                                      *)
PastMatchingEnd_FirstEnd(from) ==
    LET closing == {j \in from .. Len(Code) : Op(j) = "end"}
    IN  IF closing = {} THEN Len(Code) + 1 ELSE Min(closing) + 1
PastMatchingEnd(from) ==
    LET closing == {j \in from .. Len(Code) : Unclosed(Code, from, j) = -1}
    IN  IF closing = {} THEN Len(Code) + 1 ELSE Min(closing) + 1

Truncate ==
    /\ status = "parse" /\ Op(cursor) \in Opens
    /\ Len(open) - 1 >= MaxNest
    /\ LET emptied == Activation(IF Op(cursor) = "if" THEN "then" ELSE Op(cursor), <<>>)
       IN  open' = Attached(open, Node(emptied))
    /\ cursor' = PastMatchingEnd(cursor + 1)
    /\ UNCHANGED <<entry, tree, status>>

(* The innermost activation returns with the cursor at `at'.  The caller   *)
(* of a then part takes an Else found there for its own.                   *)
ReturnAt_DropsThen(at) ==
    LET a == Last(open)
        callers == Front(open)
    IN  IF a.op = "fn"
        THEN /\ tree' = a.body /\ status' = "parsed" /\ cursor' = at
             /\ UNCHANGED <<entry, open>>
        ELSE /\ IF a.op = "then" /\ Op(at) = "else"
                THEN open' = Append(callers, Activation("else", <<>>)) /\ cursor' = at + 1
                ELSE open' = Attached(callers, Node(a)) /\ cursor' = at
             /\ UNCHANGED <<entry, tree, status>>
ReturnAt_AnyElse(at) ==
    LET a == Last(open)
        callers == Front(open)
    IN  IF a.op = "fn"
        THEN /\ tree' = a.body /\ status' = "parsed" /\ cursor' = at
             /\ UNCHANGED <<entry, open>>
        ELSE /\ IF Op(at) = "else"
                THEN open' = Append(callers, Activation("else", a.body)) /\ cursor' = at + 1
                ELSE open' = Attached(callers, Node(a)) /\ cursor' = at
             /\ UNCHANGED <<entry, tree, status>>
ReturnAt(at) ==
    LET a == Last(open)
        callers == Front(open)
    IN  IF a.op = "fn"
        THEN /\ tree' = a.body /\ status' = "parsed" /\ cursor' = at
             /\ UNCHANGED <<entry, open>>
        ELSE /\ IF a.op = "then" /\ Op(at) = "else"
                THEN open' = Append(callers, Activation("else", a.body)) /\ cursor' = at + 1
                ELSE open' = Attached(callers, Node(a)) /\ cursor' = at
             /\ UNCHANGED <<entry, tree, status>>

(* An Else is left for the caller; so is the function's own End. *)
AtElse_Spins ==
    /\ status = "parse" /\ Op(cursor) = "else"
    /\ IF Last(open).op = "fn" THEN UNCHANGED vars ELSE ReturnAt(cursor)
AtElse == status = "parse" /\ Op(cursor) = "else" /\ ReturnAt(cursor)
AtEnd ==
    /\ status = "parse" /\ Op(cursor) = "end"
    /\ ReturnAt(IF Last(open).op = "fn" THEN cursor ELSE cursor + 1)
AtEof == status = "parse" /\ Op(cursor) = "eof" /\ ReturnAt(cursor)

Parse == Plain \/ Enter \/ Truncate \/ AtElse \/ AtEnd \/ AtEof

(* What follows the parse changes nothing but the tree. *)
LaterPass == status # "parse" /\ status' # "parse" /\ UNCHANGED <<entry, cursor, open>>

DescentSpec == Init /\ [][Parse \/ LaterPass]_vars

-----------------------------------------------------------------------------
(* Of any bytes: no more activations than the limit allows, and the cursor *)
(* at an instruction or just past the last one.                            *)
InBounds == Len(open) \in 1 .. (MaxNest + 1) /\ cursor \in 1 .. (Len(Code) + 1)

(* Every step of the parse moves the cursor on or ends an activation, or it*)
(* ends the parse: stray markers cannot keep it going.                     *)
Left == 2 * (Len(Code) + 1 - cursor) + Len(open)
Progress == [][status = "parse" => status' # "parse" \/ Left' < Left]_vars

(* What a validator guarantees of a body, its Elses being those of Ifs; and*)
(* no If without an Else stands right in front of another's: the descent   *)
(* would take that one for its own.                                        *)
TakesElse(code, s) ==
    /\ code[s].op = "if" /\ ElseOf(code, s) = 0
    /\ EndOf(code, s) < Len(code) /\ code[EndOf(code, s) + 1].op = "else"
WellNested(code) ==
    /\ Paired(code)
    /\ \A i \in 1 .. Len(code) : code[i].op = "else" =>
           \E s \in Openers(code) : code[s].op = "if" /\ ElseOf(code, s) = i
    /\ \A s \in Openers(code) : ~ TakesElse(code, s)

(* The part of block s that x lies in. *)
ArmAt(code, s, x) ==
    IF code[s].op # "if" THEN code[s].op
    ELSE IF ElseOf(code, s) \in 1 .. (x - 1) THEN "else" ELSE "then"

(* blocks: all those around the cursor, from the outside in. *)
Follow(blocks) ==
    /\ DOMAIN blocks = 1 .. (Len(open) - 1)
    /\ \A i, j \in DOMAIN blocks : i < j => blocks[i] < blocks[j]
    /\ \A s \in Around(Code, cursor) : \E i \in DOMAIN blocks : blocks[i] = s
    /\ \A i \in DOMAIN blocks : open[i + 1].op = ArmAt(Code, blocks[i], cursor)

(* "Block/loop/if/else/end nest perfectly, so this is a simple recursive   *)
(* descent": besides the function's there is one activation for each block *)
(* around the cursor, in their order, and it parses the part of the block  *)
(* the cursor is in; and the parse ends at the end of the body.  A block   *)
(* past the depth limit never lies around the cursor: it is jumped.        *)
OpenFollowBlocks ==
    WellNested(Code) =>
        IF status = "parse"
        THEN \E blocks \in [1 .. (Len(open) - 1) -> Around(Code, cursor)] : Follow(blocks)
        ELSE cursor >= Len(Code)
=============================================================================
