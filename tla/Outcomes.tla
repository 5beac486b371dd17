------------------------------ MODULE Outcomes ------------------------------
(* What a rewrite of a body promises, seen from outside: the body is only  *)
(* what it does in each world.  A step leaves that as it is, or stops at a *)
(* hole before; a body that does not compile claims nothing, and a hole    *)
(* may be filled, behind what ran before it.  Once a step has guessed,     *)
(* nothing is promised any more.                                           *)
EXTENDS Endings

CONSTANT Worlds

VARIABLES outcome, guessed

FillsHole(is, was) == was.sig = "hole" /\ IsPrefix(was.trace, is.trace)

Init == ~ guessed
Next == \/ guessed'
        \/ /\ ~ guessed
           /\ \A w \in Worlds : HonestEnd(outcome'[w], outcome[w]) \/ FillsHole(outcome'[w], outcome[w])
Spec == Init /\ [][Next]_<<outcome, guessed>>
=============================================================================
