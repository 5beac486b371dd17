---------------------------- MODULE DescentProofs ----------------------------
(***************************************************************************)
(* For every depth limit: of any bytes, the descent stays in bounds and    *)
(* uses up what is left at every step; of a well nested body, its          *)
(* activations are the blocks around the cursor.                           *)
(***************************************************************************)
EXTENDS Descent, WasmBlocksProofs

Arms == {"fn", "block", "loop", "then", "else"}
ActivationSet(B) == [op: Arms, then: Seq(B), body: Seq(B)]
Typed(s) == \E B : s \in Seq(ActivationSet(B))
Agree(p, s, n) == \A i \in 1 .. n : p[i].op = s[i].op

(* Inductive, of any bytes. *)
StackInv ==
    /\ Typed(open) /\ Len(open) \in 1 .. (MaxNest + 1)
    /\ open[1].op = "fn" /\ \A i \in 2 .. Len(open) : open[i].op # "fn"
CodeInv ==
    /\ Len(Code) \in Nat /\ DOMAIN Code = 1 .. Len(Code)
    /\ \A i \in DOMAIN Code : Code[i].op # "eof"
    /\ cursor \in 1 .. (Len(Code) + 1)
DescentInv == StackInv /\ CodeInv

-----------------------------------------------------------------------------
(* A finite set of integers has a least element. *)
LEMMA MinIs ==
    ASSUME NEW S \in SUBSET Int, NEW e \in S, \A x \in S : e <= x
    PROVE  Min(S) = e
<1> DEFINE Least(m) == \A x \in S : m <= x
           m == CHOOSE m \in S : Least(m)
<1>1. \E x \in S : Least(x)
  OBVIOUS
<1>2. m \in S /\ Least(m)
  <2> HIDE DEF Least
  <2> QED BY <1>1
<1>3. Min(S) = m
  BY DEF Min
<1> HIDE DEF m
<1>4. m <= e /\ e <= m /\ m \in Int /\ e \in Int
  BY <1>2
<1> QED BY <1>3, <1>4

LEMMA LeastOf ==
    ASSUME NEW S \in SUBSET Int, IsFiniteSet(S), S # {}
    PROVE  \E e \in S : \A x \in S : e <= x
<1> DEFINE Below(x) == {y \in S : y < x}
           n == Cardinality(S)
<1>1. n \in Nat
  BY FS_CardinalityType
<1>2. ASSUME NEW x \in S
      PROVE  /\ IsFiniteSet(Below(x)) /\ Cardinality(Below(x)) \in Nat
             /\ Cardinality(Below(x)) < n
  <2>1. Below(x) \in SUBSET S /\ Below(x) # S
    <3>1. x \notin Below(x)
      OBVIOUS
    <3> QED BY <3>1
  <2> HIDE DEF Below
  <2>2. /\ IsFiniteSet(Below(x)) /\ Cardinality(Below(x)) <= Cardinality(S)
        /\ Cardinality(S) # Cardinality(Below(x))
    BY <2>1, FS_Subset
  <2>3. Cardinality(Below(x)) \in Nat
    BY <2>2, FS_CardinalityType
  <2> QED BY <1>1, <2>2, <2>3
<1>3. ASSUME NEW x \in S, NEW y \in S, x < y
      PROVE  Cardinality(Below(x)) # Cardinality(Below(y))
  <2>1. Below(x) \in SUBSET Below(y) /\ Below(x) # Below(y)
    <3>1. x \in Below(y) /\ x \notin Below(x)
      BY <1>3
    <3>2. \A z \in S : z < x => z < y
      BY <1>3
    <3> QED BY <3>1, <3>2
  <2>2. IsFiniteSet(Below(y))
    BY <1>2
  <2> HIDE DEF Below
  <2> QED BY <2>1, <2>2, FS_Subset
<1>4. ASSUME \A x \in S : Below(x) # {}
      PROVE  FALSE
  <2> DEFINE f == [x \in S |-> Cardinality(Below(x))]
  <2> HIDE DEF Below, n
  <2>1. \A x \in S : Cardinality(Below(x)) \in 1 .. (n - 1)
    <3>1. TAKE x \in S
    <3>2. Cardinality(Below(x)) # 0
      BY <1>2, <1>4, FS_EmptySet
    <3> QED BY <1>1, <1>2, <3>2
  <2>2. f \in [S -> 1 .. (n - 1)] /\ \A x \in S : f[x] = Cardinality(Below(x))
    BY <2>1
  <2>3. IsFiniteSet(1 .. (n - 1)) /\ Cardinality(1 .. (n - 1)) < n
    <3>1. PICK z \in S : TRUE
      OBVIOUS
    <3>2. n > 1 /\ n - 1 \in Int
      BY <1>1, <2>1, <3>1
    <3>3. /\ IsFiniteSet(1 .. (n - 1))
          /\ Cardinality(1 .. (n - 1)) = IF 1 > n - 1 THEN 0 ELSE (n - 1) - 1 + 1
      BY <3>2, FS_Interval
    <3> QED BY <1>1, <3>2, <3>3
  <2> HIDE DEF f
  <2>4. \E x, y \in S : x # y /\ f[x] = f[y]
    <3> DEFINE T == 1 .. (n - 1)
    <3>1. f \in [S -> T] /\ IsFiniteSet(T) /\ Cardinality(T) < Cardinality(S)
      BY <2>2, <2>3 DEF n
    <3> HIDE DEF T
    <3> QED BY <3>1, FS_PigeonHole
  <2>5. PICK x \in S, y \in S : x # y /\ f[x] = f[y]
    BY <2>4
  <2>6. Cardinality(Below(x)) = Cardinality(Below(y))
    BY <2>2, <2>5
  <2>7. x < y \/ y < x
    BY <2>5
  <2> QED BY <1>3, <2>6, <2>7
<1>5. PICK e \in S : Below(e) = {}
  BY <1>4
<1>6. \A x \in S : e <= x
  BY <1>5
<1> QED BY <1>6

(* skip_to_matching_end moves on, and not past the end of the code. *)
LEMMA SkipsOn ==
    ASSUME CodeInv, NEW from \in 1 .. (Len(Code) + 1)
    PROVE  PastMatchingEnd(from) \in from .. (Len(Code) + 1)
<1> DEFINE closing == {j \in from .. Len(Code) : Unclosed(Code, from, j) = -1}
<1>1. Len(Code) \in Nat /\ closing \in SUBSET (from .. Len(Code)) /\ closing \in SUBSET Int
  BY DEF CodeInv
<1>2. IsFiniteSet(closing)
  <2>1. IsFiniteSet(from .. Len(Code))
    BY <1>1, FS_Interval
  <2> QED BY <1>1, <2>1, FS_Subset
<1>3. PastMatchingEnd(from) = IF closing = {} THEN Len(Code) + 1 ELSE Min(closing) + 1
  BY DEF PastMatchingEnd
<1> HIDE DEF closing
<1>4. CASE closing = {}
  BY <1>1, <1>3, <1>4
<1>5. CASE closing # {}
  <2>1. PICK e \in closing : \A x \in closing : e <= x
    BY <1>1, <1>2, <1>5, LeastOf
  <2>2. Min(closing) = e
    BY <1>1, <2>1, MinIs
  <2> QED BY <1>1, <1>3, <1>5, <2>1, <2>2
<1> QED BY <1>4, <1>5

-----------------------------------------------------------------------------
(* The stack of activations.                                               *)
LEMMA Wider ==
    ASSUME NEW B, NEW C, B \subseteq C, NEW s \in Seq(ActivationSet(B))
    PROVE  s \in Seq(ActivationSet(C))
<1>1. Seq(B) \subseteq Seq(C)
  OBVIOUS
<1>2. ActivationSet(B) \subseteq ActivationSet(C)
  BY <1>1 DEF ActivationSet
<1>3. /\ Len(s) \in Nat /\ s = [i \in 1 .. Len(s) |-> s[i]]
      /\ \A i \in 1 .. Len(s) : s[i] \in ActivationSet(B)
  OBVIOUS
<1> HIDE DEF ActivationSet
<1> QED BY <1>2, <1>3

LEMMA TopTyped ==
    ASSUME NEW S, NEW s \in Seq(S), Len(s) >= 1
    PROVE  /\ Front(s) \in Seq(S) /\ Len(Front(s)) = Len(s) - 1 /\ Len(s) \in Nat
           /\ \A i \in 1 .. (Len(s) - 1) : Front(s)[i] = s[i]
           /\ Last(s) = s[Len(s)] /\ Last(s) \in S
<1>1. Len(s) \in Nat /\ \A i \in 1 .. Len(s) : s[i] \in S
  BY LenProperties, ElementOfSeq
<1>2. Front(s) = SubSeq(s, 1, Len(s) - 1) /\ Last(s) = s[Len(s)]
  BY DEF Front, Last
<1>3. \A i \in 1 .. (Len(s) - 1) : s[i] \in S
  BY <1>1
<1> DEFINE n == Len(s) - 1
<1>4. n \in Nat /\ n <= Len(s) /\ \A i \in 1 .. n : s[i] \in S
  BY <1>1, <1>3
<1> HIDE DEF n
<1>5. SubSeq(s, 1, n) = [i \in 1 .. n |-> s[i]]
  BY <1>1, <1>4
<1>6. SubSeq(s, 1, n) \in Seq(S) /\ Len(SubSeq(s, 1, n)) = n
  BY <1>4, <1>5
<1>7. \A i \in 1 .. n : SubSeq(s, 1, n)[i] = s[i]
  BY <1>5
<1>8. Front(s) = SubSeq(s, 1, n)
  BY <1>2 DEF n
<1> QED BY <1>1, <1>2, <1>6, <1>7, <1>8 DEF n

LEMMA Pushed ==
    ASSUME NEW B, NEW s \in Seq(ActivationSet(B)), NEW op \in Arms, NEW then \in Seq(B)
    PROVE  LET p == Append(s, Activation(op, then))
           IN  /\ p \in Seq(ActivationSet(B)) /\ Len(p) = Len(s) + 1 /\ Len(s) \in Nat
               /\ Agree(p, s, Len(s)) /\ p[Len(s) + 1].op = op
<1> DEFINE a == Activation(op, then)
<1>1. a \in ActivationSet(B) /\ a.op = op
  BY DEF Activation, ActivationSet
<1> HIDE DEF a
<1>2. /\ Append(s, a) \in Seq(ActivationSet(B)) /\ Len(Append(s, a)) = Len(s) + 1
      /\ \A i \in 1 .. Len(s) : Append(s, a)[i] = s[i]
      /\ Append(s, a)[Len(s) + 1] = a /\ Len(s) \in Nat
  BY <1>1, AppendProperties, LenProperties
<1> QED BY <1>1, <1>2 DEF a, Agree

LEMMA Attaches ==
    ASSUME NEW s, Typed(s), Len(s) >= 1, NEW node
    PROVE  /\ Typed(Attached(s, node)) /\ Len(Attached(s, node)) = Len(s)
           /\ Agree(Attached(s, node), s, Len(s))
<1>1. PICK B : s \in Seq(ActivationSet(B))
  BY DEF Typed
<1> DEFINE C == B \cup {node}
           n == Len(s)
           top == [s[n] EXCEPT !.body = Append(@, node)]
           p == [s EXCEPT ![n] = top]
<1>2. s \in Seq(ActivationSet(C)) /\ n \in Nat /\ n \in 1 .. Len(s)
  BY <1>1, Wider, LenProperties
<1>3. s[n] \in ActivationSet(C)
  BY <1>2, ElementOfSeq
<1>4. Append(s[n].body, node) \in Seq(C)
  BY <1>3, AppendProperties DEF ActivationSet
<1>5. top \in ActivationSet(C) /\ top.op = s[n].op
  BY <1>3, <1>4 DEF ActivationSet
<1>6. Attached(s, node) = p
  BY DEF Attached
<1> HIDE DEF C, n, top
<1>7. p \in Seq(ActivationSet(C)) /\ Len(p) = Len(s) /\ \A i \in 1 .. Len(s) : p[i].op = s[i].op
  BY <1>2, <1>5, ExceptSeq
<1> QED BY <1>6, <1>7 DEF Typed, Agree, n

-----------------------------------------------------------------------------
(* What the end of an activation does: it is the function's, its If has an *)
(* Else to parse, or its node goes to the caller.                          *)
Ended(at) ==
    /\ Last(open).op = "fn" /\ Len(open) = 1
    /\ status' = "parsed" /\ cursor' = at /\ entry' = entry /\ open' = open
Continued(n) ==
    /\ Last(open).op # "fn" /\ Len(open) >= 2
    /\ Typed(open') /\ Len(open') = n /\ Agree(open', open, Len(open) - 1)
    /\ entry' = entry /\ status' = status
ElseTaken(at) ==
    /\ Continued(Len(open)) /\ Last(open).op = "then" /\ Op(at) = "else"
    /\ open'[Len(open)].op = "else" /\ cursor' = at + 1
HandedUp(at) ==
    /\ Continued(Len(open) - 1) /\ ~(Last(open).op = "then" /\ Op(at) = "else")
    /\ cursor' = at

LEMMA Returns ==
    ASSUME StackInv, NEW at, ReturnAt(at)
    PROVE  Ended(at) \/ ElseTaken(at) \/ HandedUp(at)
<1> DEFINE a == Last(open)
           callers == Front(open)
<1>1. PICK B : open \in Seq(ActivationSet(B))
  BY DEF StackInv, Typed
<1>2. /\ Len(open) \in Nat /\ Len(open) >= 1 /\ a = open[Len(open)] /\ a \in ActivationSet(B)
      /\ callers \in Seq(ActivationSet(B)) /\ Len(callers) = Len(open) - 1
      /\ Agree(callers, open, Len(open) - 1)
  <2>1. Len(open) >= 1
    BY DEF StackInv
  <2> QED BY <1>1, <2>1, TopTyped DEF Agree
<1>3. IF a.op = "fn" THEN Len(open) = 1 ELSE Len(open) >= 2
  BY <1>2 DEF StackInv
<1>4. CASE a.op = "fn"
  BY <1>3, <1>4 DEF ReturnAt, Ended
<1>5. CASE a.op # "fn" /\ a.op = "then" /\ Op(at) = "else"
  <2>1. /\ open' = Append(callers, Activation("else", a.body)) /\ cursor' = at + 1
        /\ entry' = entry /\ status' = status
    BY <1>5 DEF ReturnAt
  <2>2. "else" \in Arms /\ a.body \in Seq(B)
    BY <1>2 DEF Arms, ActivationSet
  <2> HIDE DEF callers, a
  <2>3. /\ open' \in Seq(ActivationSet(B)) /\ Len(open') = Len(callers) + 1
        /\ Agree(open', callers, Len(callers)) /\ open'[Len(callers) + 1].op = "else"
    BY <1>2, <2>1, <2>2, Pushed
  <2>4. Len(callers) + 1 = Len(open)
    BY <1>2
  <2>5. Typed(open') /\ Len(open') = Len(open) /\ open'[Len(open)].op = "else"
    BY <2>3, <2>4 DEF Typed
  <2>6. Agree(open', open, Len(open) - 1)
    BY <1>2, <2>3 DEF Agree
  <2> QED BY <1>3, <1>5, <2>1, <2>5, <2>6 DEF a, ElseTaken, Continued
<1>6. CASE a.op # "fn" /\ ~(a.op = "then" /\ Op(at) = "else")
  <2>1. /\ open' = Attached(callers, Node(a)) /\ cursor' = at
        /\ entry' = entry /\ status' = status
    BY <1>6 DEF ReturnAt
  <2> DEFINE node == Node(a)
  <2> HIDE DEF callers, a, node
  <2>2. Typed(callers) /\ Len(callers) >= 1
    BY <1>2, <1>3, <1>6 DEF Typed
  <2>3. /\ Typed(Attached(callers, node)) /\ Len(Attached(callers, node)) = Len(callers)
        /\ Agree(Attached(callers, node), callers, Len(callers))
    BY <2>2, Attaches
  <2>4. Typed(open') /\ Len(open') = Len(callers) /\ Agree(open', callers, Len(callers))
    BY <2>1, <2>3 DEF node
  <2>5. Agree(open', open, Len(open) - 1)
    BY <1>2, <2>4 DEF Agree
  <2> QED BY <1>2, <1>3, <1>6, <2>1, <2>4, <2>5 DEF a, HandedUp, Continued
<1> QED BY <1>4, <1>5, <1>6

(* The three ways the stack changes keep what is said of it. *)
LEMMA StackKept ==
    ASSUME StackInv, Typed(open'), Len(open') \in 1 .. (MaxNest + 1),
           NEW n \in 1 .. Len(open), n <= Len(open'), Agree(open', open, n),
           \A i \in (n + 1) .. Len(open') : open'[i].op # "fn"
    PROVE  StackInv'
<1>1. Len(open) \in Nat /\ Len(open') \in Nat
  BY StructurizeAssumption DEF StackInv
<1>2. open'[1].op = open[1].op /\ \A i \in 2 .. n : open'[i].op = open[i].op
  BY <1>1 DEF Agree
<1>3. ASSUME NEW i \in 2 .. Len(open') PROVE open'[i].op # "fn"
  <2>1. CASE i <= n
    BY <1>1, <1>2, <2>1 DEF StackInv
  <2>2. CASE i > n
    BY <1>1, <2>2
  <2> QED BY <1>1, <2>1, <2>2
<1> QED BY <1>2, <1>3 DEF StackInv

LEMMA CodeKept ==
    ASSUME CodeInv, entry' = entry, cursor' \in 1 .. (Len(Code) + 1)
    PROVE  CodeInv'
BY DEF CodeInv, Code

(* An activation that ends, at the cursor or past the End there. *)
LEMMA ReturnKeeps ==
    ASSUME DescentInv, status = "parse", NEW at \in {cursor, cursor + 1}, ReturnAt(at),
           at = cursor + 1 => Last(open).op # "fn" /\ cursor \in 1 .. Len(Code)
    PROVE  DescentInv' /\ (status' # "parse" \/ Left' < Left)
<1>1. /\ Len(open) \in Nat /\ Len(open) >= 1 /\ Len(open) <= MaxNest + 1 /\ MaxNest \in Nat
      /\ Len(Code) \in Nat /\ cursor \in 1 .. (Len(Code) + 1) /\ at \in 1 .. (Len(Code) + 1)
      /\ DOMAIN Code = 1 .. Len(Code) /\ cursor <= at
  BY StructurizeAssumption DEF DescentInv, StackInv, CodeInv
<1>2. CASE Ended(at)
  <2>1. StackInv'
    BY <1>2 DEF DescentInv, StackInv, Ended, Typed
  <2>2. CodeInv'
    BY <1>1, <1>2, CodeKept DEF DescentInv, Ended
  <2> QED BY <1>2, <2>1, <2>2 DEF DescentInv, Ended
<1>3. CASE ElseTaken(at)
  <2>1. at \in 1 .. Len(Code) /\ at + 1 \in 1 .. (Len(Code) + 1)
    BY <1>1, <1>3 DEF ElseTaken, Op
  <2>2. StackInv'
    <3> DEFINE n == Len(open) - 1
    <3>1. n \in 1 .. Len(open) /\ n <= Len(open') /\ Agree(open', open, n)
      BY <1>1, <1>3 DEF ElseTaken, Continued
    <3>2. \A i \in (n + 1) .. Len(open') : open'[i].op # "fn"
      BY <1>1, <1>3 DEF ElseTaken, Continued
    <3>3. Typed(open') /\ Len(open') \in 1 .. (MaxNest + 1)
      BY <1>1, <1>3 DEF ElseTaken, Continued
    <3> HIDE DEF n
    <3> QED BY <3>1, <3>2, <3>3, StackKept DEF DescentInv
  <2>3. CodeInv'
    BY <1>3, <2>1, CodeKept DEF DescentInv, ElseTaken, Continued
  <2>4. cursor' = at + 1 /\ Len(open') = Len(open) /\ Len(Code') = Len(Code)
    BY <1>3 DEF ElseTaken, Continued, Code
  <2>5. Left' < Left
    BY <1>1, <2>1, <2>4 DEF Left
  <2> QED BY <2>2, <2>3, <2>5 DEF DescentInv
<1>4. CASE HandedUp(at)
  <2>1. StackInv'
    <3> DEFINE n == Len(open) - 1
    <3>1. n \in 1 .. Len(open) /\ n <= Len(open') /\ Agree(open', open, n)
      BY <1>1, <1>4 DEF HandedUp, Continued
    <3>2. \A i \in (n + 1) .. Len(open') : open'[i].op # "fn"
      BY <1>1, <1>4 DEF HandedUp, Continued
    <3>3. Typed(open') /\ Len(open') \in 1 .. (MaxNest + 1)
      BY <1>1, <1>4 DEF HandedUp, Continued
    <3> HIDE DEF n
    <3> QED BY <3>1, <3>2, <3>3, StackKept DEF DescentInv
  <2>2. CodeInv'
    BY <1>1, <1>4, CodeKept DEF DescentInv, HandedUp, Continued
  <2>3. cursor' = at /\ Len(open') = Len(open) - 1 /\ Len(Code') = Len(Code)
    BY <1>4 DEF HandedUp, Continued, Code
  <2>4. Left' < Left
    BY <1>1, <2>3 DEF Left
  <2> QED BY <2>1, <2>2, <2>4 DEF DescentInv
<1>5. StackInv
  BY DEF DescentInv
<1> QED BY <1>2, <1>3, <1>4, <1>5, Returns

LEMMA PlainKeeps ==
    ASSUME DescentInv, Plain
    PROVE  DescentInv' /\ Left' < Left /\ Len(open') = Len(open) /\ Agree(open', open, Len(open))
<1>1. Typed(open) /\ Len(open) >= 1 /\ Len(open) \in 1 .. (MaxNest + 1) /\ MaxNest \in Nat
  BY StructurizeAssumption DEF DescentInv, StackInv
<1>2. Typed(open') /\ Len(open') = Len(open) /\ Agree(open', open, Len(open))
  BY <1>1, Attaches DEF Plain
<1>3. StackInv'
  <2> DEFINE n == Len(open)
  <2>1. /\ n \in 1 .. Len(open) /\ n <= Len(open') /\ Agree(open', open, n)
        /\ \A i \in (n + 1) .. Len(open') : open'[i].op # "fn"
        /\ Len(open') \in 1 .. (MaxNest + 1)
    BY <1>1, <1>2
  <2> HIDE DEF n
  <2> QED BY <1>2, <2>1, StackKept DEF DescentInv
<1>4. cursor \in 1 .. Len(Code) /\ Len(Code) \in Nat /\ cursor' = cursor + 1 /\ entry' = entry
  BY DEF DescentInv, CodeInv, Plain, Op
<1>5. CodeInv'
  BY <1>4, CodeKept DEF DescentInv
<1>6. Left' < Left
  <2>1. Len(Code') = Len(Code)
    BY <1>4 DEF Code
  <2> QED BY <1>1, <1>2, <1>4, <2>1 DEF Left
<1> QED BY <1>2, <1>3, <1>5, <1>6 DEF DescentInv

LEMMA EnterKeeps ==
    ASSUME DescentInv, Enter
    PROVE  /\ DescentInv' /\ Left' < Left /\ cursor \in Openers(Code)
           /\ Len(open') = Len(open) + 1 /\ Agree(open', open, Len(open))
           /\ open'[Len(open) + 1].op = IF Code[cursor].op = "if" THEN "then" ELSE Code[cursor].op
<1> DEFINE op == IF Op(cursor) = "if" THEN "then" ELSE Op(cursor)
<1>1. /\ cursor \in 1 .. Len(Code) /\ Len(Code) \in Nat /\ cursor' = cursor + 1 /\ entry' = entry
      /\ Code[cursor].op \in Opens /\ Op(cursor) = Code[cursor].op
  BY DEF DescentInv, CodeInv, Enter, Op, Opens
<1>2. op \in Arms /\ op # "fn"
  BY <1>1 DEF Arms, Opens
<1>3. PICK B : open \in Seq(ActivationSet(B))
  BY DEF DescentInv, StackInv, Typed
<1>4. open' = Append(open, Activation(op, <<>>))
  BY DEF Enter
<1>5. <<>> \in Seq(B)
  OBVIOUS
<1> HIDE DEF op
<1>6. /\ open' \in Seq(ActivationSet(B)) /\ Len(open') = Len(open) + 1 /\ Len(open) \in Nat
      /\ Agree(open', open, Len(open)) /\ open'[Len(open) + 1].op = op
  <2>1. LET p == Append(open, Activation(op, <<>>))
        IN  /\ p \in Seq(ActivationSet(B)) /\ Len(p) = Len(open) + 1 /\ Len(open) \in Nat
            /\ Agree(p, open, Len(open)) /\ p[Len(open) + 1].op = op
    BY <1>2, <1>3, <1>5, Pushed
  <2> QED BY <1>4, <2>1
<1>7. /\ Len(open') \in 1 .. (MaxNest + 1) /\ Len(open) >= 1
  BY <1>6, StructurizeAssumption DEF DescentInv, StackInv, Enter
<1>8. StackInv'
  <2> DEFINE n == Len(open)
  <2>1. /\ n \in 1 .. Len(open) /\ n <= Len(open') /\ Agree(open', open, n)
        /\ \A i \in (n + 1) .. Len(open') : open'[i].op # "fn"
    BY <1>2, <1>6, <1>7
  <2>2. Typed(open')
    BY <1>6 DEF Typed
  <2> HIDE DEF n
  <2> QED BY <1>7, <2>1, <2>2, StackKept DEF DescentInv
<1>9. CodeInv'
  BY <1>1, CodeKept DEF DescentInv
<1>10. Left' < Left
  <2>1. Len(Code') = Len(Code)
    BY <1>1 DEF Code
  <2> QED BY <1>1, <1>6, <2>1 DEF Left
<1> QED BY <1>1, <1>6, <1>8, <1>9, <1>10 DEF DescentInv, Openers, op

LEMMA TruncateKeeps ==
    ASSUME DescentInv, Truncate
    PROVE  /\ DescentInv' /\ Left' < Left /\ cursor \in Openers(Code)
           /\ Len(open') = Len(open) /\ Agree(open', open, Len(open))
<1>1. Typed(open) /\ Len(open) >= 1 /\ Len(open) \in 1 .. (MaxNest + 1) /\ MaxNest \in Nat
  BY StructurizeAssumption DEF DescentInv, StackInv
<1> DEFINE node == Node(Activation(IF Op(cursor) = "if" THEN "then" ELSE Op(cursor), <<>>))
<1>2. open' = Attached(open, node)
  BY DEF Truncate
<1> HIDE DEF node
<1>3. Typed(open') /\ Len(open') = Len(open) /\ Agree(open', open, Len(open))
  BY <1>1, <1>2, Attaches
<1>4. StackInv'
  <2> DEFINE n == Len(open)
  <2>1. /\ n \in 1 .. Len(open) /\ n <= Len(open') /\ Agree(open', open, n)
        /\ \A i \in (n + 1) .. Len(open') : open'[i].op # "fn"
        /\ Len(open') \in 1 .. (MaxNest + 1)
    BY <1>1, <1>3
  <2> HIDE DEF n
  <2> QED BY <1>3, <2>1, StackKept DEF DescentInv
<1>5. /\ cursor \in 1 .. Len(Code) /\ Len(Code) \in Nat /\ entry' = entry
      /\ Code[cursor].op \in Opens
  BY DEF DescentInv, CodeInv, Truncate, Op, Opens
<1>6. cursor' \in (cursor + 1) .. (Len(Code) + 1)
  <2>1. cursor + 1 \in 1 .. (Len(Code) + 1) /\ CodeInv
    BY <1>5 DEF DescentInv
  <2>2. PastMatchingEnd(cursor + 1) \in (cursor + 1) .. (Len(Code) + 1)
    BY <2>1, SkipsOn
  <2> QED BY <2>2 DEF Truncate
<1>7. CodeInv'
  BY <1>5, <1>6, CodeKept DEF DescentInv
<1>8. Left' < Left
  <2>1. Len(Code') = Len(Code)
    BY <1>5 DEF Code
  <2> QED BY <1>1, <1>3, <1>5, <1>6, <2>1 DEF Left
<1> QED BY <1>3, <1>4, <1>5, <1>7, <1>8 DEF DescentInv, Openers

(* At an Else, an End or past the end of the code the activation ends. *)
LEMMA ReturnsKeep ==
    ASSUME DescentInv, AtElse \/ AtEnd \/ AtEof
    PROVE  DescentInv' /\ (status' # "parse" \/ Left' < Left)
<1>1. CASE AtElse
  BY <1>1, ReturnKeeps DEF AtElse, DescentInv, CodeInv
<1>2. CASE AtEof
  BY <1>2, ReturnKeeps DEF AtEof, DescentInv, CodeInv
<1>3. CASE AtEnd
  <2> DEFINE at == IF Last(open).op = "fn" THEN cursor ELSE cursor + 1
  <2>1. /\ status = "parse" /\ ReturnAt(at) /\ at \in {cursor, cursor + 1}
        /\ cursor \in 1 .. Len(Code) /\ cursor \in Int
    BY <1>3 DEF AtEnd, Op, DescentInv, CodeInv
  <2>2. at = cursor + 1 => Last(open).op # "fn"
    BY <2>1
  <2> HIDE DEF at
  <2> QED BY <2>1, <2>2, ReturnKeeps
<1> QED BY <1>1, <1>2, <1>3

LEMMA DescentInvInit ==
    ASSUME Init
    PROVE  DescentInv
<1>1. PICK batch \in Entries : entry \in batch
  BY DEF Init
<1>2. CodeInv
  BY <1>1, StructurizeAssumption DEF Init, CodeInv, Code
<1>3. open = <<Activation("fn", <<>>)>>
  BY DEF Init
<1>4. Activation("fn", <<>>) \in ActivationSet({}) /\ Activation("fn", <<>>).op = "fn"
  BY DEF Activation, ActivationSet, Arms
<1>5. open \in Seq(ActivationSet({})) /\ Len(open) = 1 /\ open[1].op = "fn"
  BY <1>3, <1>4
<1> QED BY <1>2, <1>5, StructurizeAssumption DEF DescentInv, StackInv, Typed

LEMMA DescentStep ==
    ASSUME DescentInv, [Parse \/ LaterPass]_vars
    PROVE  DescentInv' /\ (Parse => status' # "parse" \/ Left' < Left)
<1>1. CASE Plain
  BY <1>1, PlainKeeps
<1>2. CASE Enter
  BY <1>2, EnterKeeps
<1>3. CASE Truncate
  BY <1>3, TruncateKeeps
<1>4. CASE AtElse \/ AtEnd \/ AtEof
  BY <1>4, ReturnsKeep
<1>5. CASE (LaterPass \/ UNCHANGED vars) /\ ~ Parse
  BY <1>5 DEF LaterPass, vars, DescentInv, StackInv, CodeInv, Code, Typed
<1> QED BY <1>1, <1>2, <1>3, <1>4, <1>5 DEF Parse

(* However deep the code nests, parse_sequence recurses MaxNest times at   *)
(* most, and the cursor stays in the code or just past its end.            *)
THEOREM StaysInBounds == DescentSpec => []InBounds
<1>1. DescentInv => InBounds
  BY DEF DescentInv, StackInv, CodeInv, InBounds
<1> QED BY <1>1, DescentInvInit, DescentStep, PTL DEF DescentSpec

(* Of any bytes each step of the parse leaves less to do, and what is left *)
(* is never negative: the safety half of its termination.                  *)
THEOREM AlwaysProgresses == DescentSpec => [](Left \in Nat) /\ Progress
<1>1. DescentInv => Left \in Nat
  <2>1. MaxNest \in Nat
    BY StructurizeAssumption
  <2>2. ASSUME DescentInv PROVE Left \in Nat
    <3>1. Len(open) \in Nat /\ Len(Code) \in Nat /\ cursor \in Int /\ cursor <= Len(Code) + 1
      BY <2>1, <2>2 DEF DescentInv, StackInv, CodeInv
    <3> QED BY <3>1 DEF Left
  <2> QED BY <2>2
<1>2. ASSUME DescentInv, [Parse \/ LaterPass]_vars
      PROVE  [status = "parse" => status' # "parse" \/ Left' < Left]_vars
  BY <1>2, DescentStep DEF LaterPass
<1> QED BY <1>1, <1>2, DescentInvInit, DescentStep, PTL DEF DescentSpec, Progress

-----------------------------------------------------------------------------
(* The activations of stack s against the blocks around x.                 *)
FollowAt(code, x, s, st) ==
    /\ st \in [1 .. (Len(s) - 1) -> Around(code, x)]
    /\ \A i, j \in 1 .. (Len(s) - 1) : i < j => st[i] < st[j]
    /\ \A t \in Around(code, x) : \E i \in 1 .. (Len(s) - 1) : st[i] = t
    /\ \A i \in 1 .. (Len(s) - 1) : s[i + 1].op = ArmAt(code, st[i], x)
Follows(code, x, s) == \E st : FollowAt(code, x, s, st)

LEMMA FollowsIs ==
    (\E blocks \in [1 .. (Len(open) - 1) -> Around(Code, cursor)] : Follow(blocks))
        <=> Follows(Code, cursor, open)
BY DEF Follow, Follows, FollowAt

(* Another arm begins only at the block's Else. *)
LEMMA ArmKept ==
    ASSUME NEW code, Len(code) \in Nat, Paired(code), NEW s \in Openers(code),
           NEW x \in Int, NEW y \in Int, x <= y,
           \A i \in x .. (y - 1) : i # ElseOf(code, s)
    PROVE  ArmAt(code, s, y) = ArmAt(code, s, x)
<1>1. CASE ElseOf(code, s) = 0
  BY <1>1 DEF ArmAt
<1>2. CASE ElseOf(code, s) # 0
  <2>1. ElseOf(code, s) \in Int /\ ElseOf(code, s) >= 1
    BY <1>2, ElseTyped
  <2>2. ElseOf(code, s) \in 1 .. (y - 1) <=> ElseOf(code, s) \in 1 .. (x - 1)
    BY <2>1
  <2> QED BY <2>2 DEF ArmAt
<1> QED BY <1>1, <1>2

(* The outer blocks stay, in whatever arms they are now. *)
LEMMA FollowsKeep ==
    ASSUME Len(open) \in Nat, NEW y, NEW p, NEW st, FollowAt(Code, cursor, open, st),
           NEW n \in 0 .. (Len(open) - 1), Len(p) = n + 1,
           \A t : t \in Around(Code, y) <=> t \in Around(Code, cursor) /\ \E i \in 1 .. n : st[i] = t,
           \A i \in 1 .. n : p[i + 1].op = ArmAt(Code, st[i], y)
    PROVE  Follows(Code, y, p)
<1> DEFINE st2 == [i \in 1 .. n |-> st[i]]
<1>1. Len(p) - 1 = n /\ \A i \in 1 .. n : i \in 1 .. (Len(open) - 1)
  OBVIOUS
<1>2. \A i \in 1 .. n : st2[i] = st[i] /\ st[i] \in Around(Code, cursor)
  BY <1>1 DEF FollowAt
<1>3. st2 \in [1 .. n -> Around(Code, y)]
  BY <1>2
<1> HIDE DEF st2
<1>4. \A i, j \in 1 .. n : i < j => st2[i] < st2[j]
  BY <1>1, <1>2 DEF FollowAt
<1>5. \A t \in Around(Code, y) : \E i \in 1 .. n : st2[i] = t
  BY <1>2
<1>6. \A i \in 1 .. n : p[i + 1].op = ArmAt(Code, st2[i], y)
  BY <1>2
<1>7. FollowAt(Code, y, p, st2)
  BY <1>1, <1>3, <1>4, <1>5, <1>6 DEF FollowAt
<1> QED BY <1>7 DEF Follows

LEMMA FollowsSame ==
    ASSUME NEW code, NEW x, NEW y, NEW s, Len(s) \in Nat, Len(s) >= 1, NEW p,
           NEW st, FollowAt(code, x, s, st),
           Len(p) = Len(s), Around(code, y) = Around(code, x),
           \A i \in 1 .. (Len(s) - 1) : p[i + 1].op = ArmAt(code, st[i], y)
    PROVE  Follows(code, y, p)
<1>1. FollowAt(code, y, p, st)
  BY DEF FollowAt
<1> QED BY <1>1 DEF Follows

LEMMA FollowsPush ==
    ASSUME NEW code, NEW x \in Openers(code), NEW y, NEW s, Len(s) \in Nat, Len(s) >= 1, NEW p,
           NEW st, FollowAt(code, x, s, st),
           Len(p) = Len(s) + 1, Around(code, y) = Around(code, x) \cup {x},
           \A i \in 1 .. (Len(s) - 1) : p[i + 1].op = ArmAt(code, st[i], y),
           p[Len(s) + 1].op = ArmAt(code, x, y)
    PROVE  Follows(code, y, p)
<1> DEFINE n == Len(s) - 1
           st2 == [i \in 1 .. (n + 1) |-> IF i = n + 1 THEN x ELSE st[i]]
<1>1. /\ n \in Nat /\ Len(p) - 1 = n + 1 /\ Len(s) = n + 1 /\ x \in Int
      /\ \A i \in 1 .. (n + 1) : i = n + 1 \/ i \in 1 .. n
  BY DEF Openers
<1>2. \A i \in 1 .. n : st[i] \in Around(code, x) /\ st[i] < x
  BY DEF FollowAt, Around
<1>3. FollowAt(code, x, s, st) /\ \A i \in 1 .. n : p[i + 1].op = ArmAt(code, st[i], y)
  OBVIOUS
<1>4. p[(n + 1) + 1].op = ArmAt(code, x, y)
  BY <1>1
<1> HIDE DEF n
<1>5. st2[n + 1] = x /\ \A i \in 1 .. n : st2[i] = st[i]
  BY <1>1
<1>6. st2 \in [1 .. (n + 1) -> Around(code, y)]
  BY <1>1, <1>2
<1> HIDE DEF st2
<1>7. \A i, j \in 1 .. (n + 1) : i < j => st2[i] < st2[j]
  <2>1. TAKE i, j \in 1 .. (n + 1)
  <2>2. HAVE i < j
  <2>3. i \in 1 .. n
    BY <1>1, <2>2
  <2>4. CASE j = n + 1
    BY <1>2, <1>5, <2>3, <2>4
  <2>5. CASE j \in 1 .. n
    <3>1. st[i] < st[j]
      BY <1>1, <1>3, <2>2, <2>3, <2>5 DEF FollowAt
    <3> QED BY <1>5, <2>3, <2>5, <3>1
  <2> QED BY <1>1, <2>4, <2>5
<1>8. \A t \in Around(code, y) : \E i \in 1 .. (n + 1) : st2[i] = t
  <2>1. TAKE t \in Around(code, y)
  <2>2. CASE t = x
    BY <1>1, <1>5, <2>2
  <2>3. CASE t \in Around(code, x)
    <3>1. PICK i \in 1 .. n : st[i] = t
      BY <1>1, <1>3, <2>3 DEF FollowAt
    <3> QED BY <1>1, <1>5, <3>1
  <2> QED BY <2>2, <2>3
<1>9. \A i \in 1 .. (n + 1) : p[i + 1].op = ArmAt(code, st2[i], y)
  <2>1. TAKE i \in 1 .. (n + 1)
  <2>2. CASE i = n + 1
    BY <1>4, <1>5, <2>2
  <2>3. CASE i \in 1 .. n
    BY <1>3, <1>5, <2>3
  <2> QED BY <1>1, <2>2, <2>3
<1>10. FollowAt(code, y, p, st2)
  BY <1>1, <1>6, <1>7, <1>8, <1>9 DEF FollowAt
<1> QED BY <1>10 DEF Follows

-----------------------------------------------------------------------------
(* Of well nested code, action by action.                                  *)
FollowInv == WellNested(Code) /\ Follows(Code, cursor, open)

LEMMA CodeTyped ==
    ASSUME DescentInv
    PROVE  /\ Len(Code) \in Nat /\ DOMAIN Code = 1 .. Len(Code)
           /\ cursor \in Int /\ 1 <= cursor /\ cursor <= Len(Code) + 1
           /\ Len(open) \in Nat /\ Len(open) >= 1
           /\ \A i \in 1 .. Len(Code) : Op(i) = Code[i].op /\ Code[i].op # "eof"
BY StructurizeAssumption DEF DescentInv, StackInv, CodeInv, Op

LEMMA ArmsAfter ==
    ASSUME DescentInv, Paired(Code), NEW st, FollowAt(Code, cursor, open, st),
           NEW y \in Int, cursor <= y, NEW i \in 1 .. (Len(open) - 1),
           NEW p, NEW n \in Int, i + 1 <= n, Agree(p, open, n),
           \A j \in cursor .. (y - 1) : j # ElseOf(Code, st[i])
    PROVE  p[i + 1].op = ArmAt(Code, st[i], y)
<1>1. Len(Code) \in Nat /\ cursor \in Int /\ Len(open) \in Nat
  BY CodeTyped
<1>2. st[i] \in Around(Code, cursor) /\ open[i + 1].op = ArmAt(Code, st[i], cursor)
  BY DEF FollowAt
<1>3. st[i] \in Openers(Code)
  BY <1>2 DEF Around
<1>4. ArmAt(Code, st[i], y) = ArmAt(Code, st[i], cursor)
  BY <1>1, <1>3, ArmKept
<1>5. p[i + 1].op = open[i + 1].op
  BY <1>1 DEF Agree
<1> QED BY <1>2, <1>4, <1>5

(* skip_to_matching_end comes out behind the block's own End. *)
LEMMA SkipsBlock ==
    ASSUME DescentInv, Paired(Code), cursor \in Openers(Code)
    PROVE  PastMatchingEnd(cursor + 1) = EndOf(Code, cursor) + 1
<1> DEFINE e == EndOf(Code, cursor)
           closing == {j \in (cursor + 1) .. Len(Code) : Unclosed(Code, cursor + 1, j) = -1}
<1>1. /\ Len(Code) \in Nat /\ cursor \in Int /\ e \in (cursor + 1) .. Len(Code)
      /\ Closes(Code, cursor, e) /\ Code[cursor].op \in Opens
  BY CodeTyped, EndsFound DEF Openers
<1>2. ASSUME NEW j \in cursor .. Len(Code)
      PROVE  /\ Unclosed(Code, cursor, j) = 1 + Unclosed(Code, cursor + 1, j)
             /\ Unclosed(Code, cursor + 1, j) \in Int
  <2>1. /\ j \in Int /\ cursor + 1 \in Int /\ cursor <= cursor + 1 /\ cursor + 1 <= j + 1
        /\ (cursor + 1) - 1 = cursor /\ cursor + 1 <= cursor + 1
    BY <1>1
  <2>2. Unclosed(Code, cursor, j)
        = Unclosed(Code, cursor, (cursor + 1) - 1) + Unclosed(Code, cursor + 1, j)
    BY <1>1, <2>1, UnclosedSplits
  <2>3. Unclosed(Code, cursor, cursor) = 1
    BY <1>1, UnclosedAt DEF Level
  <2>4. Unclosed(Code, cursor + 1, j) \in Int
    BY <2>1, UnclosedSplits
  <2> QED BY <2>1, <2>2, <2>3, <2>4
<1>3. e \in closing
  <2>1. e \in cursor .. Len(Code) /\ Unclosed(Code, cursor, e) = 0
    BY <1>1 DEF Closes
  <2>2. Unclosed(Code, cursor + 1, e) = -1
    BY <1>2, <2>1
  <2> QED BY <1>1, <2>2
<1>4. ASSUME NEW j \in closing PROVE e <= j
  <2> SUFFICES ASSUME j < e PROVE FALSE
    BY <1>1
  <2>1. j \in cursor .. (e - 1) /\ j \in cursor .. Len(Code) /\ Unclosed(Code, cursor + 1, j) = -1
    BY <1>1
  <2>2. Unclosed(Code, cursor, j) = 0
    BY <1>2, <2>1
  <2>3. Unclosed(Code, cursor, j) > 0
    BY <1>1, <2>1 DEF Closes
  <2> QED BY <2>2, <2>3
<1>5. PastMatchingEnd(cursor + 1) = IF closing = {} THEN Len(Code) + 1 ELSE Min(closing) + 1
  BY DEF PastMatchingEnd
<1>6. closing \in SUBSET Int
  BY <1>1
<1> HIDE DEF closing, e
<1>7. Min(closing) = e
  BY <1>3, <1>4, <1>6, MinIs
<1> QED BY <1>3, <1>5, <1>7 DEF e

LEMMA PlainFollows ==
    ASSUME DescentInv, FollowInv, Plain
    PROVE  Follows(Code, cursor', open')
<1>1. PICK st : FollowAt(Code, cursor, open, st)
  BY DEF FollowInv, Follows
<1>2. /\ Len(Code) \in Nat /\ Paired(Code) /\ cursor \in 1 .. Len(Code) /\ cursor' = cursor + 1
      /\ Code[cursor].op \notin Opens \cup {"else", "end"} /\ Len(open) \in Nat /\ Len(open) >= 1
      /\ cursor + 1 \in Int /\ cursor <= cursor + 1 /\ cursor \in Int
  BY CodeTyped DEF Plain, Op, FollowInv, WellNested
<1>3. Around(Code, cursor + 1) = Around(Code, cursor)
  BY <1>2, AroundNext
<1>4. Len(open') = Len(open) /\ Agree(open', open, Len(open))
  BY PlainKeeps
<1>5. ASSUME NEW i \in 1 .. (Len(open) - 1)
      PROVE  open'[i + 1].op = ArmAt(Code, st[i], cursor + 1)
  <2>1. st[i] \in Openers(Code)
    BY <1>1 DEF FollowAt, Around
  <2>2. cursor # ElseOf(Code, st[i])
    <3>1. ElseOf(Code, st[i]) # 0 => Code[ElseOf(Code, st[i])].op = "else"
      BY <1>2, <2>1, ElseTyped
    <3> QED BY <1>2, <3>1
  <2>3. \A j \in cursor .. ((cursor + 1) - 1) : j # ElseOf(Code, st[i])
    BY <1>2, <2>2
  <2>4. i + 1 <= Len(open) /\ Len(open) \in Int
    BY <1>2
  <2> QED BY <1>1, <1>2, <1>4, <2>3, <2>4, ArmsAfter
<1> QED BY <1>1, <1>2, <1>3, <1>4, <1>5, FollowsSame

LEMMA EnterFollows ==
    ASSUME DescentInv, FollowInv, Enter
    PROVE  Follows(Code, cursor', open')
<1>1. PICK st : FollowAt(Code, cursor, open, st)
  BY DEF FollowInv, Follows
<1>2. /\ Len(Code) \in Nat /\ Paired(Code) /\ cursor \in Openers(Code) /\ cursor' = cursor + 1
      /\ Code[cursor].op \in Opens /\ Len(open) \in Nat /\ Len(open) >= 1
      /\ cursor + 1 \in Int /\ cursor <= cursor + 1 /\ cursor \in Int
  BY CodeTyped, EnterKeeps DEF Enter, FollowInv, WellNested, Openers
<1>3. Around(Code, cursor + 1) = Around(Code, cursor) \cup {cursor}
  BY <1>2, AroundPast
<1>4. /\ Len(open') = Len(open) + 1 /\ Agree(open', open, Len(open))
      /\ open'[Len(open) + 1].op = IF Code[cursor].op = "if" THEN "then" ELSE Code[cursor].op
  BY EnterKeeps
<1>5. ASSUME NEW i \in 1 .. (Len(open) - 1)
      PROVE  open'[i + 1].op = ArmAt(Code, st[i], cursor + 1)
  <2>1. st[i] \in Openers(Code)
    BY <1>1 DEF FollowAt, Around
  <2>2. cursor # ElseOf(Code, st[i])
    <3>1. ElseOf(Code, st[i]) # 0 => Code[ElseOf(Code, st[i])].op = "else"
      BY <1>2, <2>1, ElseTyped
    <3>2. cursor # 0
      BY <1>2 DEF Openers
    <3> QED BY <1>2, <3>1, <3>2 DEF Opens
  <2>3. \A j \in cursor .. ((cursor + 1) - 1) : j # ElseOf(Code, st[i])
    BY <1>2, <2>2
  <2>4. i + 1 <= Len(open) /\ Len(open) \in Int
    BY <1>2
  <2> QED BY <1>1, <1>2, <1>4, <2>3, <2>4, ArmsAfter
<1>6. open'[Len(open) + 1].op = ArmAt(Code, cursor, cursor + 1)
  <2>1. ElseOf(Code, cursor) # 0 => ElseOf(Code, cursor) \in Int /\ cursor < ElseOf(Code, cursor)
    BY <1>2, ElseTyped
  <2>2. ElseOf(Code, cursor) \notin 1 .. ((cursor + 1) - 1)
    BY <1>2, <2>1
  <2> QED BY <1>4, <2>2 DEF ArmAt
<1> QED BY <1>1, <1>2, <1>3, <1>4, <1>5, <1>6, FollowsPush

LEMMA TruncateFollows ==
    ASSUME DescentInv, FollowInv, Truncate
    PROVE  Follows(Code, cursor', open')
<1> DEFINE e == EndOf(Code, cursor)
<1>1. PICK st : FollowAt(Code, cursor, open, st)
  BY DEF FollowInv, Follows
<1>2. /\ Len(Code) \in Nat /\ Paired(Code) /\ cursor \in Openers(Code)
      /\ Code[cursor].op \in Opens /\ Len(open) \in Nat /\ Len(open) >= 1 /\ cursor \in Int
  BY CodeTyped, TruncateKeeps DEF FollowInv, WellNested, Openers
<1>3. e \in (cursor + 1) .. Len(Code) /\ Code[e].op = "end" /\ e \in Int /\ cursor < e
  BY <1>2, EndsFound
<1>4. cursor' = e + 1
  BY <1>2, SkipsBlock DEF Truncate
<1>5. Around(Code, e + 1) = Around(Code, cursor)
  BY <1>2, AroundPast
<1>6. Len(open') = Len(open) /\ Agree(open', open, Len(open))
  BY TruncateKeeps
<1>7. ASSUME NEW i \in 1 .. (Len(open) - 1)
      PROVE  open'[i + 1].op = ArmAt(Code, st[i], e + 1)
  <2>1. st[i] \in Openers(Code) /\ st[i] < cursor /\ st[i] \in Int
    BY <1>1 DEF FollowAt, Around, Openers
  <2>2. ASSUME NEW j \in cursor .. ((e + 1) - 1), j = ElseOf(Code, st[i]) PROVE FALSE
    <3>1. j # 0 /\ j \in Int /\ cursor <= j /\ j <= e
      BY <1>2, <1>3, <2>2 DEF Openers
    <3>2. Code[j].op = "else"
      BY <1>2, <2>1, <2>2, <3>1, ElseTyped
    <3>3. e < j + 1
      <4>1. st[i] < cursor /\ cursor < j + 1
        BY <1>2, <2>1, <3>1
      <4> QED BY <1>2, <2>1, <2>2, <3>1, <4>1, ElseFound
    <3>4. j = e
      BY <1>3, <3>1, <3>3
    <3> QED BY <1>3, <3>2, <3>4
  <2>3. \A j \in cursor .. ((e + 1) - 1) : j # ElseOf(Code, st[i])
    BY <2>2
  <2>4. i + 1 <= Len(open) /\ Len(open) \in Int /\ e + 1 \in Int /\ cursor <= e + 1
    BY <1>2, <1>3
  <2> HIDE DEF e
  <2> QED BY <1>1, <1>2, <1>6, <2>3, <2>4, ArmsAfter
<1> HIDE DEF e
<1> QED BY <1>1, <1>2, <1>4, <1>5, <1>6, <1>7, FollowsSame

(* The innermost activation parses the innermost block. *)
LEMMA TopBlock ==
    ASSUME DescentInv, NEW st, FollowAt(Code, cursor, open, st)
    PROVE  IF Last(open).op = "fn" THEN Len(open) = 1 /\ Around(Code, cursor) = {}
           ELSE /\ Len(open) - 1 \in 1 .. (Len(open) - 1)
                /\ st[Len(open) - 1] \in Around(Code, cursor)
                /\ \A t \in Around(Code, cursor) : t <= st[Len(open) - 1]
                /\ Last(open).op = ArmAt(Code, st[Len(open) - 1], cursor)
<1> DEFINE n == Len(open) - 1
<1>1. Len(open) \in Nat /\ Len(open) >= 1 /\ Last(open) = open[Len(open)]
  BY CodeTyped DEF Last
<1>2. open[1].op = "fn" /\ \A i \in 2 .. Len(open) : open[i].op # "fn"
  BY DEF DescentInv, StackInv
<1>3. CASE Last(open).op = "fn"
  <2>1. ~(Len(open) >= 2)
    <3>1. Len(open) >= 2 => Len(open) \in 2 .. Len(open)
      BY <1>1
    <3>2. ~(Len(open) \in 2 .. Len(open))
      BY <1>1, <1>2, <1>3
    <3> QED BY <3>1, <3>2
  <2>2. Len(open) = 1
    <3>1. \A m \in Nat : m >= 1 /\ ~(m >= 2) => m = 1
      OBVIOUS
    <3> QED BY <1>1, <2>1, <3>1
  <2>3. \A i \in 1 .. (Len(open) - 1) : FALSE
    <3>1. Len(open) - 1 = 0
      BY <2>2
    <3>2. \A i \in 1 .. 0 : FALSE
      OBVIOUS
    <3> QED BY <3>1, <3>2
  <2>4. \A t \in Around(Code, cursor) : \E i \in 1 .. (Len(open) - 1) : st[i] = t
    BY DEF FollowAt
  <2>5. Around(Code, cursor) = {}
    BY <2>3, <2>4
  <2> QED BY <1>3, <2>2, <2>5
<1>4. CASE Last(open).op # "fn"
  <2>1. n \in 1 .. n /\ n + 1 = Len(open)
    BY <1>1, <1>2, <1>4
  <2>2. /\ st[n] \in Around(Code, cursor)
        /\ open[n + 1].op = ArmAt(Code, st[n], cursor)
    BY <2>1 DEF FollowAt
  <2>3. ASSUME NEW t \in Around(Code, cursor) PROVE t <= st[n]
    <3>1. PICK i \in 1 .. n : st[i] = t
      BY DEF FollowAt
    <3>2. i = n \/ st[i] < st[n]
      <4>1. i = n \/ i < n
        BY <1>1
      <4> QED BY <2>1, <4>1 DEF FollowAt
    <3>3. st[i] \in Int /\ st[n] \in Int
      BY <2>2, <3>1 DEF Around, Openers
    <3> QED BY <3>1, <3>2, <3>3
  <2> QED BY <1>1, <1>4, <2>1, <2>2, <2>3
<1> QED BY <1>3, <1>4

LEMMA ElseFollows ==
    ASSUME DescentInv, FollowInv, AtElse
    PROVE  status' = "parse" /\ Follows(Code, cursor', open')
<1> DEFINE n == Len(open) - 1
<1>1. PICK st : FollowAt(Code, cursor, open, st)
  BY DEF FollowInv, Follows
<1>2. /\ Len(Code) \in Nat /\ Paired(Code) /\ cursor \in 1 .. Len(Code) /\ cursor \in Int
      /\ Code[cursor].op = "else" /\ Op(cursor) = "else" /\ Len(open) \in Nat /\ Len(open) >= 1
  BY CodeTyped DEF AtElse, Op, FollowInv, WellNested
<1>3. PICK s \in Openers(Code) : Code[s].op = "if" /\ ElseOf(Code, s) = cursor
  BY <1>2 DEF FollowInv, WellNested
<1>4. s \in Around(Code, cursor) /\ \A t \in Around(Code, cursor) : t <= s
  <2>1. ElseOf(Code, s) # 0
    BY <1>2, <1>3
  <2> QED BY <1>2, <1>3, <2>1, ElseInnermost
<1>5. Last(open).op # "fn" /\ n \in 1 .. n /\ st[n] = s /\ Last(open).op = ArmAt(Code, s, cursor)
  <2>1. Last(open).op # "fn"
    BY <1>1, <1>4, TopBlock
  <2>2. /\ n \in 1 .. n /\ st[n] \in Around(Code, cursor)
        /\ \A t \in Around(Code, cursor) : t <= st[n]
        /\ Last(open).op = ArmAt(Code, st[n], cursor)
    BY <1>1, <2>1, TopBlock
  <2>3. st[n] <= s /\ s <= st[n] /\ s \in Int /\ st[n] \in Int
    BY <1>4, <2>2 DEF Around, Openers
  <2> QED BY <2>1, <2>2, <2>3
<1>6. Last(open).op = "then"
  <2>1. cursor \notin 1 .. (cursor - 1)
    BY <1>2
  <2> QED BY <1>3, <1>5, <2>1 DEF ArmAt
<1>7. ElseTaken(cursor)
  <2>1. StackInv /\ ReturnAt(cursor)
    BY DEF DescentInv, AtElse
  <2> QED BY <1>2, <1>6, <2>1, Returns DEF Ended, HandedUp
<1>8. /\ cursor' = cursor + 1 /\ Len(open') = Len(open) /\ Agree(open', open, n)
      /\ open'[Len(open)].op = "else" /\ status' = status
  BY <1>7 DEF ElseTaken, Continued
<1>9. Around(Code, cursor + 1) = Around(Code, cursor)
  BY <1>2, AroundNext DEF Opens
<1>10. ASSUME NEW i \in 1 .. n
       PROVE  open'[i + 1].op = ArmAt(Code, st[i], cursor + 1)
  <2>1. CASE i = n
    <3>1. ArmAt(Code, s, cursor + 1) = "else"
      <4>1. cursor \in 1 .. ((cursor + 1) - 1)
        BY <1>2
      <4> QED BY <1>3, <4>1 DEF ArmAt
    <3>2. i + 1 = Len(open)
      BY <1>2, <2>1
    <3> QED BY <1>5, <1>8, <2>1, <3>1, <3>2
  <2>2. CASE i # n
    <3>1. i < n /\ i + 1 <= n /\ n \in Int /\ cursor <= cursor + 1 /\ cursor + 1 \in Int
      BY <1>2, <2>2
    <3>2. st[i] < s
      BY <1>1, <1>5, <3>1 DEF FollowAt
    <3>3. cursor # ElseOf(Code, st[i])
      <4>1. st[i] \in Openers(Code) /\ st[i] \in Int /\ s \in Int
        <5>1. st[i] \in Around(Code, cursor)
          BY <1>1 DEF FollowAt
        <5> QED BY <5>1 DEF Around, Openers
      <4>2. ElseOf(Code, st[i]) = cursor => s <= st[i]
        <5>1. cursor # 0
          BY <1>2
        <5> QED BY <1>2, <1>4, <4>1, <5>1, ElseInnermost
      <4> QED BY <3>2, <4>1, <4>2
    <3>4. \A j \in cursor .. ((cursor + 1) - 1) : j # ElseOf(Code, st[i])
      BY <1>2, <3>3
    <3> QED BY <1>1, <1>2, <1>8, <3>1, <3>4, ArmsAfter
  <2> QED BY <2>1, <2>2
<1>11. status' = "parse"
  BY <1>8 DEF AtElse
<1>12. Follows(Code, cursor + 1, open')
  BY <1>1, <1>2, <1>8, <1>9, <1>10, FollowsSame
<1> QED BY <1>8, <1>11, <1>12

LEMMA EndFollows ==
    ASSUME DescentInv, FollowInv, AtEnd
    PROVE  IF status' = "parse" THEN Follows(Code, cursor', open') ELSE cursor' >= Len(Code)
<1> DEFINE n == Len(open) - 1
<1>1. PICK st : FollowAt(Code, cursor, open, st)
  BY DEF FollowInv, Follows
<1>2. /\ Len(Code) \in Nat /\ Paired(Code) /\ cursor \in 1 .. Len(Code) /\ cursor \in Int
      /\ Code[cursor].op = "end" /\ Len(open) \in Nat /\ Len(open) >= 1 /\ status = "parse"
  BY CodeTyped DEF AtEnd, Op, FollowInv, WellNested
<1>3. CASE Last(open).op = "fn"
  <2>1. Around(Code, cursor) = {}
    BY <1>1, <1>3, TopBlock
  <2>2. ASSUME cursor < Len(Code) PROVE FALSE
    <3>1. cursor \in 1 .. (Len(Code) - 1)
      BY <1>2, <2>2
    <3>2. PICK i \in 1 .. (cursor - 1) : Closes(Code, i, cursor)
      BY <1>2, <3>1 DEF Paired
    <3>3. i \in Openers(Code) /\ cursor \in (i + 1) .. Len(Code) /\ i < cursor
      BY <1>2, <3>2 DEF Closes, Openers
    <3>4. EndOf(Code, i) = cursor
      BY <1>2, <3>2, <3>3, EndIsOne
    <3>5. i \in Around(Code, cursor)
      BY <1>2, <3>3, <3>4 DEF Around
    <3> QED BY <2>1, <3>5
  <2>3. ReturnAt(cursor)
    BY <1>3 DEF AtEnd
  <2>4. status' = "parsed" /\ cursor' = cursor
    BY <1>3, <2>3 DEF ReturnAt
  <2> QED BY <1>2, <2>2, <2>4
<1>4. CASE Last(open).op # "fn"
  <2> DEFINE m == st[n]
  <2>1. /\ n \in 1 .. n /\ m \in Around(Code, cursor)
        /\ \A t \in Around(Code, cursor) : t <= m
        /\ Last(open).op = ArmAt(Code, m, cursor)
    BY <1>1, <1>4, TopBlock
  <2>2. /\ EndOf(Code, m) = cursor /\ m \in Openers(Code) /\ m \in Int
    <3>1. EndOf(Code, m) = cursor
      BY <1>2, <2>1, EndOfInnermost
    <3> QED BY <2>1, <3>1 DEF Around, Openers
  <2>3. ~(Last(open).op = "then" /\ Op(cursor + 1) = "else")
    <3> SUFFICES ASSUME Last(open).op = "then", Op(cursor + 1) = "else" PROVE FALSE
      OBVIOUS
    <3>1. Code[m].op = "if" /\ ElseOf(Code, m) \notin 1 .. (cursor - 1)
      BY <2>1, <2>2 DEF ArmAt, Openers, Opens
    <3>2. ElseOf(Code, m) = 0
      <4>1. ElseOf(Code, m) # 0 => /\ ElseOf(Code, m) \in Int /\ m < ElseOf(Code, m) /\ m >= 1
                                    /\ ElseOf(Code, m) < EndOf(Code, m)
        BY <1>2, <2>2, ElseTyped
      <4> QED BY <1>2, <2>2, <3>1, <4>1
    <3>3. cursor + 1 \in 1 .. Len(Code) /\ Code[cursor + 1].op = "else"
      BY <1>2, CodeTyped DEF Op
    <3>4. TakesElse(Code, m)
      BY <1>2, <2>2, <3>1, <3>2, <3>3 DEF TakesElse
    <3> QED BY <2>2, <3>4 DEF FollowInv, WellNested
  <2>4. HandedUp(cursor + 1)
    <3>1. StackInv /\ ReturnAt(cursor + 1)
      BY <1>4 DEF DescentInv, AtEnd
    <3> QED BY <1>4, <2>3, <3>1, Returns DEF Ended, ElseTaken
  <2>5. /\ cursor' = cursor + 1 /\ Len(open') = n /\ Agree(open', open, n) /\ status' = "parse"
    BY <1>2, <2>4 DEF HandedUp, Continued
  <2>6. Around(Code, cursor + 1) = {t \in Around(Code, cursor) : t < m}
    BY <1>2, <2>1, <2>2, AroundOutside
  <2> DEFINE k == n - 1
  <2>7. ASSUME NEW t \in Around(Code, cursor)
        PROVE  t < m <=> \E i \in 1 .. k : st[i] = t
    <3>1. PICK i \in 1 .. n : st[i] = t
      BY <1>1 DEF FollowAt
    <3>2. t < m => i \in 1 .. k
      BY <1>2, <2>1, <2>2, <3>1
    <3>3. ASSUME NEW j \in 1 .. k, st[j] = t PROVE t < m
      <4>1. j \in 1 .. n /\ j < n
        BY <1>2
      <4> QED BY <1>1, <2>1, <3>3, <4>1 DEF FollowAt
    <3> QED BY <3>1, <3>2, <3>3
  <2>8. \A t : t \in Around(Code, cursor + 1)
               <=> t \in Around(Code, cursor) /\ \E i \in 1 .. k : st[i] = t
    BY <2>6, <2>7
  <2>9. ASSUME NEW i \in 1 .. k
        PROVE  open'[i + 1].op = ArmAt(Code, st[i], cursor + 1)
    <3>1. /\ i \in 1 .. n /\ i + 1 <= n /\ n \in Int /\ cursor + 1 \in Int /\ cursor <= cursor + 1
      BY <1>2
    <3>2. st[i] \in Openers(Code)
      BY <1>1, <3>1 DEF FollowAt, Around
    <3>3. cursor # ElseOf(Code, st[i])
      <4>1. ElseOf(Code, st[i]) # 0 => Code[ElseOf(Code, st[i])].op = "else"
        BY <1>2, <3>2, ElseTyped
      <4> QED BY <1>2, <4>1
    <3>4. \A j \in cursor .. ((cursor + 1) - 1) : j # ElseOf(Code, st[i])
      BY <1>2, <3>3
    <3> QED BY <1>1, <1>2, <2>5, <3>1, <3>4, ArmsAfter
  <2>10. k \in 0 .. (Len(open) - 1) /\ Len(open') = k + 1
    BY <1>2, <2>1, <2>5
  <2> DEFINE y == cursor + 1
  <2>11. /\ \A t : t \in Around(Code, y) <=> t \in Around(Code, cursor) /\ \E i \in 1 .. k : st[i] = t
         /\ \A i \in 1 .. k : open'[i + 1].op = ArmAt(Code, st[i], y)
    BY <2>8, <2>9
  <2> HIDE DEF k, n, m, y
  <2>12. Follows(Code, y, open')
    BY <1>1, <1>2, <2>10, <2>11, FollowsKeep
  <2> QED BY <2>5, <2>12 DEF y
<1> QED BY <1>3, <1>4

LEMMA EofFollows ==
    ASSUME DescentInv, FollowInv, AtEof
    PROVE  status' # "parse" /\ cursor' >= Len(Code)
<1>1. PICK st : FollowAt(Code, cursor, open, st)
  BY DEF FollowInv, Follows
<1>2. /\ Len(Code) \in Nat /\ Paired(Code) /\ cursor = Len(Code) + 1
  <2>1. Len(Code) \in Nat /\ Paired(Code) /\ cursor \notin 1 .. Len(Code)
    BY CodeTyped DEF AtEof, Op, FollowInv, WellNested
  <2> QED BY <2>1, CodeTyped
<1>3. Around(Code, cursor) = {}
  <2>1. ASSUME NEW s \in Openers(Code), cursor <= EndOf(Code, s) PROVE FALSE
    <3>1. EndOf(Code, s) \in (s + 1) .. Len(Code) /\ s \in Int
      BY <1>2, EndsFound DEF Openers
    <3> QED BY <1>2, <2>1, <3>1
  <2> QED BY <2>1 DEF Around
<1>4. Last(open).op = "fn"
  BY <1>1, <1>3, TopBlock
<1>5. status' = "parsed" /\ cursor' = cursor
  BY <1>4 DEF AtEof, ReturnAt
<1> QED BY <1>2, <1>5

LEMMA FollowInit ==
    ASSUME Init, WellNested(Code)
    PROVE  Follows(Code, cursor, open)
<1>1. open = <<Activation("fn", <<>>)>> /\ cursor = 1
  BY DEF Init
<1>2. Len(open) = 1
  BY <1>1
<1>3. Around(Code, 1) = {}
  BY DEF Around, Openers
<1> DEFINE st == [i \in 1 .. 0 |-> 0]
<1>4. FollowAt(Code, 1, open, st)
  BY <1>2, <1>3 DEF FollowAt
<1> QED BY <1>1, <1>4 DEF Follows

LEMMA FollowStep ==
    ASSUME DescentInv, OpenFollowBlocks, [Parse \/ LaterPass]_vars
    PROVE  OpenFollowBlocks'
<1>1. OpenFollowBlocks <=> (WellNested(Code) => IF status = "parse" THEN Follows(Code, cursor, open)
                                                ELSE cursor >= Len(Code))
  BY FollowsIs DEF OpenFollowBlocks
<1>2. ASSUME WellNested(Code') => IF status' = "parse" THEN Follows(Code', cursor', open')
                                  ELSE cursor' >= Len(Code')
      PROVE  OpenFollowBlocks'
  <2>1. Follows(Code', cursor', open')
        => \E blocks \in [1 .. (Len(open') - 1) -> Around(Code', cursor')] : Follow(blocks)'
    BY DEF Follows, FollowAt, Follow
  <2> QED BY <1>2, <2>1 DEF OpenFollowBlocks
<1> SUFFICES ASSUME WellNested(Code')
             PROVE  IF status' = "parse" THEN Follows(Code', cursor', open') ELSE cursor' >= Len(Code')
  BY <1>2
<1>3. CASE LaterPass \/ UNCHANGED vars
  BY <1>1, <1>3 DEF LaterPass, vars, Code
<1>4. CASE Parse
  <2>1. Code' = Code /\ status = "parse"
    BY <1>4 DEF Parse, Plain, Enter, Truncate, AtElse, AtEnd, AtEof, ReturnAt, Code
  <2>2. FollowInv
    BY <1>1, <2>1 DEF FollowInv
  <2>3. CASE Plain
    BY <2>1, <2>2, <2>3, PlainFollows DEF Plain
  <2>4. CASE Enter
    BY <2>1, <2>2, <2>4, EnterFollows DEF Enter
  <2>5. CASE Truncate
    BY <2>1, <2>2, <2>5, TruncateFollows DEF Truncate
  <2>6. CASE AtElse
    BY <2>1, <2>2, <2>6, ElseFollows
  <2>7. CASE AtEnd
    BY <2>1, <2>2, <2>7, EndFollows
  <2>8. CASE AtEof
    BY <2>1, <2>2, <2>8, EofFollows
  <2> QED BY <1>4, <2>3, <2>4, <2>5, <2>6, <2>7, <2>8 DEF Parse
<1> QED BY <1>3, <1>4

(* The activations are the blocks around the cursor, whatever well nested  *)
(* body is parsed and however deep it nests.                               *)
THEOREM OpenAreTheBlocks == DescentSpec => []OpenFollowBlocks
<1>1. ASSUME Init PROVE OpenFollowBlocks
  <2>1. WellNested(Code) => Follows(Code, cursor, open)
    BY <1>1, FollowInit
  <2> QED BY <1>1, <2>1, FollowsIs DEF OpenFollowBlocks, Init
<1>2. ASSUME DescentInv, OpenFollowBlocks, [Parse \/ LaterPass]_vars PROVE OpenFollowBlocks'
  BY <1>2, FollowStep
<1> QED BY <1>1, <1>2, DescentInvInit, DescentStep, PTL DEF DescentSpec
=============================================================================
