------------------------------- MODULE IrFold -------------------------------
(* optimizer.rs, the algebra: fold_expr node by node, conditions that are  *)
(* constants, and matches on constants.  A literal is an Int node with its *)
(* digits and its type; a Threshold is the raw i64 (n << 32) | 0xFFFFFFFF. *)
EXTENDS IrRuns

IsInt(e)   == e.op = "Int"
NumOf(e)   == Digits[e.at[1]]
TypeOf(e)  == e.at[2]
Number(ty, n) == Node("Int", <<ToString(n), ty>>, <<>>)
IsSigned(e) == IsInt(e) /\ TypeOf(e) \in Signed
IsZeroLiteral(e) == IsInt(e) /\ NumOf(e) = 0                \* of any type
IsOneLiteral(e)  == IsInt(e) /\ NumOf(e) = 1
IsZeroExpr(e) == IsSigned(e) /\ NumOf(e) = 0                \* i32 and i64 only
IsOneExpr(e)  == IsSigned(e) /\ NumOf(e) = 1
IsCarryBorrowFlag(e) == e.op \in Compare
IsBoolTyped(e) ==
    \/ e.op \in {"StorageHas", "Bool", "And", "Or", "Not"} \cup Compare
    \/ e.op = "MethodCall" /\ e.at[1] \in {"contains_key", "contains", "is_empty", "is_none", "is_some"}
IsNumericLiteral(e) == e.op \in {"Int", "Bool", "Threshold"}

-----------------------------------------------------------------------------
(* Constants.  Nothing is <<>>, a number is <<n>>.                         *)
RECURSIVE AsLiteral(_)
AsLiteral(e) ==
    CASE e.op = "Bool"          -> <<IF e.at[1] = "true" THEN 1 ELSE 0>>
      [] e.op = "Int"           -> <<NumOf(e)>>
      [] e.op = "ContractError" -> <<Digits[e.at[1]]>>
      [] e.op \in {"ErrorFromCode", "ValConvert", "CastAs"} -> AsLiteral(e.kids[1])
      [] OTHER                  -> <<>>

RECURSIVE ConstEval(_)
ConstEval(e) ==
    IF AsLiteral(e) # <<>> THEN AsLiteral(e)
    ELSE IF e.op \notin {"Add", "Sub", "Mul", "Div", "Rem"} THEN <<>>
    ELSE LET vs == ConstEval(e.kids[1]) \o ConstEval(e.kids[2])
         IN  CASE Len(vs) < 2 -> <<>>
               [] e.op \in {"Div", "Rem"} /\ vs[2] = 0 -> <<>>
               [] OTHER -> <<Operate(e.op, vs[1], vs[2])>>

(* A comparison of two literals folds when it is false: a zero may stand   *)
(* for a value that was lost.                                              *)
Holds(op, x, y) == CASE op = "Eq" -> x = y  [] op = "Ne" -> x # y  [] op = "Lt" -> x < y
                     [] op = "Le" -> x <= y [] op = "Gt" -> x > y  [] OTHER -> x >= y
FoldsToFalse(op, l, r) ==
    LET x == AsLiteral(l)  y == AsLiteral(r)
    IN  x # <<>> /\ y # <<>> /\ ~ Holds(op, x[1], y[1])

-----------------------------------------------------------------------------
(* Arithmetic.  a and b are folded.                                        *)
BothInts(a, b) == IsInt(a) /\ IsInt(b) /\ TypeOf(a) = TypeOf(b)
Folded(op, a, b) == Number(TypeOf(a), Wrap(TypeOf(a), Operate(op, NumOf(a), NumOf(b))))
LeaksFlag(a, b) == IsCarryBorrowFlag(b) /\ ~ IsCarryBorrowFlag(a)
NegativeConstant(e) == IsSigned(e) /\ NumOf(e) < 0 /\ NumOf(e) # Least(TypeOf(e))

FoldAdd(a, b) ==
    IF BothInts(a, b) THEN Folded("Add", a, b)
    ELSE IF IsZeroLiteral(b) \/ (LeaksFlag(a, b) /\ ~ IsZeroLiteral(a)) THEN a
    ELSE IF IsZeroLiteral(a) \/ LeaksFlag(b, a) THEN b
    ELSE IF NegativeConstant(b) THEN Bin("Sub", a, Number(TypeOf(b), - NumOf(b)))
    ELSE Bin("Add", a, b)
FoldSub(a, b) ==
    IF BothInts(a, b) THEN Folded("Sub", a, b)
    ELSE IF IsZeroLiteral(b) \/ LeaksFlag(a, b) THEN a ELSE Bin("Sub", a, b)
FoldMul(a, b) ==
    IF BothInts(a, b) THEN Folded("Mul", a, b)
    ELSE IF IsOneLiteral(b) \/ (IsZeroLiteral(a) /\ ~ IsZeroLiteral(b)) THEN a
    ELSE IF IsOneLiteral(a) \/ IsZeroLiteral(b) THEN b
    ELSE Bin("Mul", a, b)
FoldShl(a, b) ==
    IF BothInts(a, b) /\ TypeOf(a) \in {"u32", "i32"} /\ NumOf(b) \in 0..(Bits.u32 - 1) THEN Folded("Shl", a, b)
    ELSE IF IsZeroLiteral(b) THEN a ELSE Bin("Shl", a, b)
FoldDiv(a, b) ==
    IF BothInts(a, b) /\ NumOf(b) # 0 THEN Folded("Div", a, b)
    ELSE IF IsOneLiteral(b) THEN a ELSE Bin("Div", a, b)
FoldRem(a, b) ==
    IF BothInts(a, b) /\ NumOf(b) # 0 THEN Folded("Rem", a, b)
    ELSE IF IsOneLiteral(b) THEN Number(TypeOf(b), 0) ELSE Bin("Rem", a, b)
FoldShortcut(op, a, b) ==       \* neutral && x is x, and the other one decides
    LET neutral == Bool(IF op = "And" THEN "true" ELSE "false")
        decides == Bool(IF op = "And" THEN "false" ELSE "true")
    IN  IF a = neutral THEN b
        ELSE IF b = neutral THEN a
        ELSE IF decides \in {a, b} THEN decides
        ELSE IF a = b THEN a ELSE Bin(op, a, b)

(* Comparisons.                                                            *)
Flipped(op) == CASE op = "Lt" -> "Gt" [] op = "Le" -> "Ge" [] op = "Gt" -> "Lt" [] op = "Ge" -> "Le" [] OTHER -> op
Contrary(op) == CASE op = "Eq" -> "Ne" [] op = "Ne" -> "Eq" [] op = "Lt" -> "Ge" [] op = "Ge" -> "Lt"
                  [] op = "Gt" -> "Le" [] OTHER -> "Gt"
IsObjCmp(e) == e.op = "RawHostCall" /\ Last(e.at) = "obj_cmp" /\ Len(e.kids) = 2
FoldObjCmp(op, l, r) ==         \* -1, 0, 1 for less, equal, greater
    LET n == IF IsSigned(r) THEN NumOf(r) ELSE 9
        direct(o) == Bin(o, l.kids[1], l.kids[2])
    IN  CASE n = 0 -> direct(op)
          [] op = "Eq" /\ n = -1 -> direct("Lt")  [] op = "Eq" /\ n = 1 -> direct("Gt")
          [] op = "Ne" /\ n = -1 -> direct("Ge")  [] op = "Ne" /\ n = 1 -> direct("Le")
          [] OTHER -> Bin(op, l, r)
IsSignum(e) == /\ e.op = "Sub" /\ e.kids[1].op = "Gt" /\ e.kids[2].op = "Lt"
               /\ e.kids[1].kids = e.kids[2].kids
MulNonzero(e) ==                \* <<the other factor>> of one that is not zero
    LET other(i) == IsInt(e.kids[i]) /\ NumOf(e.kids[i]) # 0
    IN  IF e.op # "Mul" THEN <<>>
        ELSE IF other(2) THEN <<e.kids[1]>> ELSE IF other(1) THEN <<e.kids[2]>> ELSE <<>>
DecodeThreshold(e) == IF e.op = "Threshold" THEN Number("u32", Digits[e.at[1]]) ELSE e
Decoded(op, l, r)  == IF r.op = "Threshold" THEN Bin(op, l, DecodeThreshold(r)) ELSE Bin(op, DecodeThreshold(l), r)

FoldOrder_EitherWay(op, l, r) ==
    IF IsObjCmp(l) THEN (IF IsSigned(r) /\ NumOf(r) = 0 THEN FoldObjCmp(op, l, r) ELSE Bin(op, l, r))
    ELSE IF IsZeroExpr(r) /\ IsSignum(l) THEN Bin(op, l.kids[1].kids[1], l.kids[1].kids[2])
    ELSE IF FoldsToFalse(op, l, r) THEN Bool("false")
    ELSE IF IsNumericLiteral(l) THEN Bin(Flipped(op), r, l)
    ELSE Decoded(op, l, r)
FoldOrder(op, l, r) ==
    IF IsObjCmp(l) THEN (IF IsSigned(r) /\ NumOf(r) = 0 THEN FoldObjCmp(op, l, r) ELSE Bin(op, l, r))
    ELSE IF IsZeroExpr(r) /\ IsSignum(l) THEN Bin(op, l.kids[1].kids[1], l.kids[1].kids[2])
    ELSE IF FoldsToFalse(op, l, r) THEN Bool("false")
    ELSE IF IsNumericLiteral(l) /\ ~ IsNumericLiteral(r) THEN Bin(Flipped(op), r, l)
    ELSE Decoded(op, l, r)

RECURSIVE FoldExpr(_)
FoldNot(e) ==
    CASE e.op = "Not"      -> e.kids[1]
      [] e.op = "Bool"     -> Bool(IF e.at[1] = "true" THEN "false" ELSE "true")
      [] e.op \in Compare  -> FoldExpr(Bin(Contrary(e.op), e.kids[1], e.kids[2]))
      [] OTHER             -> Un("Not", e)
FoldEquality(op, l, r) ==
    LET yes == Bool(IF op = "Eq" THEN "true" ELSE "false")
        no  == Bool(IF op = "Eq" THEN "false" ELSE "true")
    IN  IF IsObjCmp(l) THEN FoldObjCmp(op, l, r)
        ELSE IF IsZeroExpr(r) /\ IsSignum(l) THEN Bin(op, l.kids[1].kids[1], l.kids[1].kids[2])
        ELSE IF IsBoolTyped(l) /\ (IsOneExpr(r) \/ IsZeroExpr(r))
             THEN IF IsOneExpr(r) <=> op = "Eq" THEN l ELSE Un("Not", l)
        ELSE IF r = yes THEN l ELSE IF r = no THEN FoldExpr(Un("Not", l))
        ELSE IF l = yes THEN r ELSE IF l = no THEN FoldExpr(Un("Not", r))
        ELSE IF IsZeroLiteral(r) /\ MulNonzero(l) # <<>> THEN Bin(op, MulNonzero(l)[1], r)
        ELSE IF IsZeroLiteral(l) /\ MulNonzero(r) # <<>> THEN Bin(op, l, MulNonzero(r)[1])
        ELSE IF FoldsToFalse(op, l, r) THEN Bool("false")
        ELSE IF l = r THEN yes
        ELSE Decoded(op, l, r)

(* The variants that fold_expr does not enter. *)
Unfolded == {"Some", "SretResult", "ValTag", "Try", "VecTryIterFold"}
FoldNode(e) ==
    CASE e.op = "Add" -> FoldAdd(e.kids[1], e.kids[2])
      [] e.op = "Sub" -> FoldSub(e.kids[1], e.kids[2])
      [] e.op = "Mul" -> FoldMul(e.kids[1], e.kids[2])
      [] e.op = "Shl" -> FoldShl(e.kids[1], e.kids[2])
      [] e.op = "Div" -> FoldDiv(e.kids[1], e.kids[2])
      [] e.op = "Rem" -> FoldRem(e.kids[1], e.kids[2])
      [] e.op \in {"And", "Or"} -> FoldShortcut(e.op, e.kids[1], e.kids[2])
      [] e.op = "Not" -> FoldNot(e.kids[1])
      [] e.op \in {"Eq", "Ne"} -> FoldEquality(e.op, e.kids[1], e.kids[2])
      [] e.op \in Compare \ {"Eq", "Ne"} -> FoldOrder(e.op, e.kids[1], e.kids[2])
      [] e.op = "ValConvert" /\ IsInt(e.kids[1]) /\ TypeOf(e.kids[1]) = e.at[1] -> e.kids[1]
      [] e.op = "RequireAuthForArgs" /\ e.kids[2].op = "VecConstruct" ->
             [e EXCEPT !.kids[2].op = "TupleConstruct"]
      [] OTHER -> e
FoldExpr(e) == IF e.op \in Unfolded THEN e
               ELSE FoldNode([e EXCEPT !.kids = [i \in DOMAIN @ |-> FoldExpr(@[i])]])
FoldConstants(t) == MapOutsideFors(FoldExpr, t)

-----------------------------------------------------------------------------
(* Lists.  A statement may become none or many; the bodies of a for stay.  *)
Spliced(F(_), t) == FlattenSeq([i \in DOMAIN t |-> F(t[i])])
Inside(F(_), s) == IF s.k = "For" THEN <<s>> ELSE <<[s EXCEPT !.bodies = [j \in DOMAIN @ |-> F(@[j])]]>>

IsConstantFalse(e) == IsZeroExpr(e) \/ e = Bool("false")
IsConstantTrue(e)  == (IsSigned(e) /\ NumOf(e) # 0) \/ e = Bool("true")
RECURSIVE FoldConditions(_)
FoldConditions(t) ==
    Spliced(LAMBDA s : CASE s.k = "If" /\ IsConstantFalse(s.es[1]) -> FoldConditions(s.bodies[2])
                         [] s.k = "If" /\ IsConstantTrue(s.es[1])  -> FoldConditions(s.bodies[1])
                         [] OTHER -> Inside(FoldConditions, s), t)

(* Patterns: <<"lit", digits>>, <<type, variant, ..>>, <<>>.  A lost        *)
(* selector reads as the i32 zero; among variants it is left alone.        *)
IsVariant(pat) == pat # <<>> /\ pat[1] # "lit"
Sentinel(e) == IsInt(e) /\ NumOf(e) = 0 /\ TypeOf(e) = "i32"
ArmOf(s) ==
    LET dispatch == \E i \in DOMAIN s.pats : IsVariant(s.pats[i])
        v == IF dispatch THEN AsLiteral(s.es[1]) ELSE ConstEval(s.es[1])
        lit == SelectInSeq(s.pats, LAMBDA p : p # <<>> /\ p[1] = "lit" /\ <<Digits[p[2]]>> = v)
    IN  IF v = <<>> \/ (dispatch /\ Sentinel(s.es[1])) THEN 0
        ELSE IF lit # 0 THEN lit ELSE SelectInSeq(s.pats, LAMBDA p : p = <<>>)
RECURSIVE FoldConstantMatches(_)
FoldConstantMatches(t) ==
    Spliced(LAMBDA s : IF s.k = "Match" /\ ArmOf(s) # 0 THEN FoldConstantMatches(s.bodies[ArmOf(s)])
                       ELSE Inside(FoldConstantMatches, s), t)
=============================================================================
