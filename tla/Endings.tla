------------------------------ MODULE Endings -------------------------------
(* How a run of a body may end, and what it then claims: a record of sig   *)
(* ("value", "panic", "hole" for todo!(), ...), val and trace, the effects *)
(* in their order.                                                         *)
EXTENDS SequencesExt

(* A body that does not compile, or that a loop cuts off, claims nothing. *)
Silent(r) == r.sig \in {"stuck", "cut", "break", "continue"}
StopsAtHole(is, was) == is.sig = "hole" /\ IsPrefix(is.trace, was.trace)
HonestEnd(is, was)   == is = was \/ Silent(was) \/ StopsAtHole(is, was)
=============================================================================
