----------------------------- MODULE WasmBlocks -----------------------------
(***************************************************************************)
(* The blocks of a flat WASM body: which End closes an opener, which Else  *)
(* is an If's, and the blocks around a place in the body.  A body is a     *)
(* sequence of instructions with a field op.                               *)
(***************************************************************************)
EXTENDS Integers, Sequences, FiniteSets

Opens == {"block", "loop", "if"}
Openers(body) == {i \in 1 .. Len(body) : body[i].op \in Opens}

(* dk_scan_blocks: pairs every opener with its End and, for an If, with    *)
(* its Else (0: none).  An End with nothing open is the function's own.    *)
Unclosed(body, i, j) ==
    Cardinality({k \in i .. j : body[k].op \in Opens})
    - Cardinality({k \in i .. j : body[k].op = "end"})
EndOf(body, start) ==
    CHOOSE j \in (start + 1) .. Len(body) :
        /\ Unclosed(body, start, j) = 0
        /\ \A k \in start .. (j - 1) : Unclosed(body, start, k) > 0
ElseOf(body, start) ==
    LET elses == {j \in start .. EndOf(body, start) :
                     body[j].op = "else" /\ Unclosed(body, start, j) = 1}
    IN  IF elses = {} THEN 0 ELSE CHOOSE j \in elses : TRUE

(* What a validated module guarantees: the blocks are paired, and an End   *)
(* that closes none is the function's last instruction.                    *)
Closes(body, start, j) ==
    /\ body[start].op \in Opens
    /\ Unclosed(body, start, j) = 0
    /\ \A k \in start .. (j - 1) : Unclosed(body, start, k) > 0
Paired(body) ==
    /\ \A i \in 1 .. Len(body) :
           body[i].op \in Opens => \E j \in (i + 1) .. Len(body) : Closes(body, i, j)
    /\ \A j \in 1 .. (Len(body) - 1) :
           body[j].op = "end" => \E i \in 1 .. (j - 1) : Closes(body, i, j)

(* The blocks a place lies in: behind the opener, up to the End. *)
Around(body, x) == {s \in Openers(body) : s < x /\ x <= EndOf(body, s)}
=============================================================================
