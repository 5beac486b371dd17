-------------------------- MODULE WasmBlocksProofs --------------------------
(***************************************************************************)
(* For every body whose blocks are paired: each opener has one End, the    *)
(* blocks are nested, the blocks around a place change only at an opener   *)
(* and at the End of the innermost, and an Else is the innermost block's.  *)
(***************************************************************************)
EXTENDS WasmBlocks, TLAPS, FiniteSetTheorems, SequenceTheorems

-----------------------------------------------------------------------------
(* Unclosed counts openers less Ends, position by position.                *)
Level(ins) == IF ins.op \in Opens THEN 1 ELSE IF ins.op = "end" THEN -1 ELSE 0

LEMMA UnclosedSplits ==
    ASSUME NEW body, NEW i \in Int, NEW k \in Int, NEW j \in Int, i <= k, k <= j + 1
    PROVE  /\ Unclosed(body, i, j) \in Int
           /\ Unclosed(body, i, j) = Unclosed(body, i, k - 1) + Unclosed(body, k, j)
<1> DEFINE A(x, y) == {n \in x .. y : body[n].op \in Opens}
           E(x, y) == {n \in x .. y : body[n].op = "end"}
<1>1. ASSUME NEW x \in Int, NEW y \in Int
      PROVE  /\ IsFiniteSet(A(x, y)) /\ Cardinality(A(x, y)) \in Nat
             /\ IsFiniteSet(E(x, y)) /\ Cardinality(E(x, y)) \in Nat
             /\ Unclosed(body, x, y) = Cardinality(A(x, y)) - Cardinality(E(x, y))
  <2>1. IsFiniteSet(x .. y) /\ A(x, y) \in SUBSET (x .. y) /\ E(x, y) \in SUBSET (x .. y)
    BY FS_Interval
  <2>2. IsFiniteSet(A(x, y)) /\ IsFiniteSet(E(x, y))
    BY <2>1, FS_Subset
  <2>3. Unclosed(body, x, y) = Cardinality(A(x, y)) - Cardinality(E(x, y))
    BY DEF Unclosed
  <2> QED BY <2>2, <2>3, FS_CardinalityType
<1>2. /\ A(i, j) = A(i, k - 1) \cup A(k, j) /\ A(i, k - 1) \cap A(k, j) = {}
      /\ E(i, j) = E(i, k - 1) \cup E(k, j) /\ E(i, k - 1) \cap E(k, j) = {}
  <2>1. (i .. j) = (i .. (k - 1)) \cup (k .. j) /\ (i .. (k - 1)) \cap (k .. j) = {}
    OBVIOUS
  <2> QED BY <2>1
<1>3. k - 1 \in Int
  OBVIOUS
<1> HIDE DEF A, E
<1>4. /\ Cardinality(A(i, j)) = Cardinality(A(i, k - 1)) + Cardinality(A(k, j))
      /\ Cardinality(E(i, j)) = Cardinality(E(i, k - 1)) + Cardinality(E(k, j))
  <2>1. /\ IsFiniteSet(A(i, k - 1)) /\ IsFiniteSet(A(k, j))
        /\ IsFiniteSet(E(i, k - 1)) /\ IsFiniteSet(E(k, j))
        /\ Cardinality(A(i, k - 1)) \in Nat /\ Cardinality(A(k, j)) \in Nat
        /\ Cardinality(E(i, k - 1)) \in Nat /\ Cardinality(E(k, j)) \in Nat
    BY <1>1, <1>3
  <2>2. Cardinality({}) = 0
    BY FS_EmptySet
  <2>3. Cardinality(A(i, j)) = Cardinality(A(i, k - 1)) + Cardinality(A(k, j)) - Cardinality({})
    BY <1>2, <2>1, FS_Union
  <2>4. Cardinality(E(i, j)) = Cardinality(E(i, k - 1)) + Cardinality(E(k, j)) - Cardinality({})
    BY <1>2, <2>1, FS_Union
  <2> QED BY <2>1, <2>2, <2>3, <2>4
<1>5. /\ Unclosed(body, i, j) = Cardinality(A(i, j)) - Cardinality(E(i, j))
      /\ Unclosed(body, i, k - 1) = Cardinality(A(i, k - 1)) - Cardinality(E(i, k - 1))
      /\ Unclosed(body, k, j) = Cardinality(A(k, j)) - Cardinality(E(k, j))
      /\ Cardinality(A(i, k - 1)) \in Nat /\ Cardinality(A(k, j)) \in Nat
      /\ Cardinality(E(i, k - 1)) \in Nat /\ Cardinality(E(k, j)) \in Nat
  BY <1>1, <1>3
<1> QED BY <1>4, <1>5

LEMMA UnclosedAt ==
    ASSUME NEW body, NEW j \in Int
    PROVE  Unclosed(body, j, j) = Level(body[j])
<1> DEFINE A == {n \in j .. j : body[n].op \in Opens}
           E == {n \in j .. j : body[n].op = "end"}
<1>1. (j .. j) = {j}
  OBVIOUS
<1>2. A = (IF body[j].op \in Opens THEN {j} ELSE {}) /\ E = (IF body[j].op = "end" THEN {j} ELSE {})
  BY <1>1
<1>3. Unclosed(body, j, j) = Cardinality(A) - Cardinality(E)
  BY DEF Unclosed
<1>4. Cardinality({j}) = 1 /\ Cardinality({}) = 0
  BY FS_Singleton, FS_EmptySet
<1>5. "end" \notin Opens
  BY DEF Opens
<1> HIDE DEF A, E
<1> QED BY <1>2, <1>3, <1>4, <1>5 DEF Level

-----------------------------------------------------------------------------
(* dk_scan_blocks finds each opener's End, and the extents are nested.     *)
LEMMA EndsFound ==
    ASSUME NEW body, Len(body) \in Nat, Paired(body), NEW s \in Openers(body)
    PROVE  /\ EndOf(body, s) \in (s + 1) .. Len(body)
           /\ Closes(body, s, EndOf(body, s))
           /\ body[EndOf(body, s)].op = "end"
<1>1. s \in 1 .. Len(body) /\ body[s].op \in Opens
  BY DEF Openers
<1> DEFINE P(j) == Unclosed(body, s, j) = 0 /\ \A k \in s .. (j - 1) : Unclosed(body, s, k) > 0
           e == CHOOSE j \in (s + 1) .. Len(body) : P(j)
<1>2. \E j \in (s + 1) .. Len(body) : P(j)
  BY <1>1 DEF Paired, Closes
<1>3. e \in (s + 1) .. Len(body) /\ P(e)
  <2> HIDE DEF P
  <2> QED BY <1>2
<1>4. EndOf(body, s) = e
  BY DEF EndOf
<1> HIDE DEF e
<1>5. Unclosed(body, s, e) = Unclosed(body, s, e - 1) + Level(body[e])
  <2>1. s \in Int /\ e \in Int /\ s <= e /\ e <= e + 1
    BY <1>1, <1>3
  <2>2. Unclosed(body, s, e) = Unclosed(body, s, e - 1) + Unclosed(body, e, e)
    BY <2>1, UnclosedSplits
  <2>3. Unclosed(body, e, e) = Level(body[e])
    BY <2>1, UnclosedAt
  <2> QED BY <2>2, <2>3
<1>6. Unclosed(body, s, e - 1) > 0 /\ Unclosed(body, s, e - 1) \in Int
  <2>1. e - 1 \in s .. (e - 1) /\ s \in Int /\ e - 1 \in Int
    BY <1>1, <1>3
  <2>2. s <= s /\ s <= (e - 1) + 1
    BY <1>1, <1>3
  <2> QED BY <1>3, <2>1, <2>2, UnclosedSplits
<1>7. body[e].op = "end"
  BY <1>3, <1>5, <1>6 DEF Level
<1> QED BY <1>1, <1>3, <1>4, <1>7 DEF Closes

(* An opener has one End. *)
LEMMA EndIsOne ==
    ASSUME NEW body, Len(body) \in Nat, Paired(body), NEW s \in Openers(body),
           NEW j \in (s + 1) .. Len(body), Closes(body, s, j)
    PROVE  EndOf(body, s) = j
<1>1. s \in Int /\ EndOf(body, s) \in (s + 1) .. Len(body) /\ Closes(body, s, EndOf(body, s))
  BY EndsFound DEF Openers
<1>2. CASE EndOf(body, s) < j
  <2>1. EndOf(body, s) \in s .. (j - 1)
    BY <1>1, <1>2
  <2> QED BY <1>1, <2>1 DEF Closes
<1>3. CASE j < EndOf(body, s)
  <2>1. j \in s .. (EndOf(body, s) - 1)
    BY <1>1, <1>3
  <2> QED BY <1>1, <2>1 DEF Closes
<1> QED BY <1>1, <1>2, <1>3

LEMMA Laminar ==
    ASSUME NEW body, Len(body) \in Nat, Paired(body), NEW s \in Openers(body), NEW t \in Openers(body),
           s < t, t <= EndOf(body, s)
    PROVE  EndOf(body, t) < EndOf(body, s)
<1> DEFINE e == EndOf(body, s)
           f == EndOf(body, t)
<1>1. /\ s \in Int /\ t \in Int /\ e \in (s + 1) .. Len(body) /\ f \in (t + 1) .. Len(body)
      /\ Closes(body, s, e) /\ Closes(body, t, f) /\ body[e].op = "end" /\ body[t].op \in Opens
  BY EndsFound DEF Openers
<1> HIDE DEF e, f
<1>2. t # e /\ t < e
  <2>1. t # e
    BY <1>1 DEF Opens
  <2> QED BY <1>1, <2>1 DEF e
<1>3. Unclosed(body, s, e) = 0 /\ Unclosed(body, s, t - 1) > 0
  <2>1. t - 1 \in s .. (e - 1)
    BY <1>1, <1>2
  <2> QED BY <1>1, <2>1 DEF Closes
<1>4. /\ Unclosed(body, s, e) = Unclosed(body, s, t - 1) + Unclosed(body, t, e)
      /\ Unclosed(body, t, e) \in Int /\ Unclosed(body, s, t - 1) \in Int
  <2>1. s <= t /\ t <= e + 1 /\ t <= t /\ s <= s /\ s <= (t - 1) + 1 /\ e \in Int /\ t - 1 \in Int
    BY <1>1, <1>2
  <2>2. Unclosed(body, s, e) = Unclosed(body, s, t - 1) + Unclosed(body, t, e)
    BY <1>1, <2>1, UnclosedSplits
  <2>3. Unclosed(body, t, e) \in Int
    BY <1>1, <2>1, UnclosedSplits
  <2>4. Unclosed(body, s, t - 1) \in Int
    BY <1>1, <2>1, UnclosedSplits
  <2> QED BY <2>2, <2>3, <2>4
<1>5. Unclosed(body, t, e) < 0
  BY <1>3, <1>4
<1>6. ASSUME e <= f PROVE FALSE
  <2>1. CASE e = f
    BY <1>1, <1>5, <2>1 DEF Closes
  <2>2. CASE e < f
    <3>1. e \in t .. (f - 1)
      BY <1>1, <1>2, <2>2
    <3>2. Unclosed(body, t, e) > 0
      BY <1>1, <3>1 DEF Closes
    <3> QED BY <1>4, <1>5, <3>2
  <2> QED BY <1>1, <1>6, <2>1, <2>2
<1> QED BY <1>1, <1>6 DEF e, f
-----------------------------------------------------------------------------
(* The blocks around the ip, as it moves.                                  *)
LEMMA AroundTyped ==
    ASSUME NEW body, Len(body) \in Nat, Paired(body), NEW x \in Int, NEW s \in Around(body, x)
    PROVE  /\ s \in Openers(body) /\ s \in Int /\ s < x /\ x <= EndOf(body, s)
           /\ EndOf(body, s) \in (s + 1) .. Len(body) /\ EndOf(body, s) \in Int
           /\ body[EndOf(body, s)].op = "end" /\ body[s].op \in Opens
BY EndsFound DEF Around, Openers

(* Past an instruction that opens and closes nothing. *)
LEMMA AroundNext ==
    ASSUME NEW body, Len(body) \in Nat, Paired(body), NEW ip \in 1 .. Len(body),
           body[ip].op \notin Opens \cup {"end"}
    PROVE  Around(body, ip + 1) = Around(body, ip)
<1>1. ASSUME NEW s \in Openers(body)
      PROVE  s < ip + 1 /\ ip + 1 <= EndOf(body, s) <=> s < ip /\ ip <= EndOf(body, s)
  <2>1. /\ s \in Int /\ s # ip /\ EndOf(body, s) \in Int /\ EndOf(body, s) # ip
    BY EndsFound DEF Openers
  <2> QED BY <2>1
<1> QED BY <1>1 DEF Around

(* Into a block, before any block inside it. *)
LEMMA AroundInside ==
    ASSUME NEW body, Len(body) \in Nat, Paired(body), NEW ip \in Openers(body),
           NEW x \in (ip + 1) .. EndOf(body, ip),
           \A t \in Openers(body) : ip < t /\ t < x => EndOf(body, t) < x
    PROVE  Around(body, x) = Around(body, ip) \cup {ip}
<1>1. /\ ip \in Int /\ EndOf(body, ip) \in Int /\ x \in Int /\ ip < x /\ x <= EndOf(body, ip)
      /\ body[ip].op \in Opens
  BY EndsFound DEF Openers
<1>2. ASSUME NEW s \in Openers(body)
      PROVE  s < x /\ x <= EndOf(body, s) <=> (s < ip /\ ip <= EndOf(body, s)) \/ s = ip
  <2>1. s \in Int /\ EndOf(body, s) \in Int /\ body[EndOf(body, s)].op = "end"
    BY EndsFound DEF Openers
  <2>2. CASE s < ip
    <3>1. ip <= EndOf(body, s) => EndOf(body, ip) < EndOf(body, s)
      BY <2>2, Laminar
    <3> QED BY <1>1, <2>1, <2>2, <3>1
  <2>3. CASE s = ip
    BY <1>1, <2>3
  <2>4. CASE ip < s
    BY <1>1, <2>1, <2>4
  <2> QED BY <1>1, <2>1, <2>2, <2>3, <2>4
<1> QED BY <1>2 DEF Around

(* Out of block m, past its End. *)
LEMMA AroundOutside ==
    ASSUME NEW body, Len(body) \in Nat, Paired(body), NEW x \in Int, NEW m \in Around(body, x)
    PROVE  Around(body, EndOf(body, m) + 1) = {s \in Around(body, x) : s < m}
<1>1. /\ m \in Openers(body) /\ m \in Int /\ EndOf(body, m) \in Int /\ m < x /\ x <= EndOf(body, m)
  BY AroundTyped
<1>2. ASSUME NEW s \in Openers(body)
      PROVE  s < EndOf(body, m) + 1 /\ EndOf(body, m) + 1 <= EndOf(body, s)
             <=> s < x /\ x <= EndOf(body, s) /\ s < m
  <2>1. s \in Int /\ EndOf(body, s) \in Int
    BY EndsFound DEF Openers
  <2>2. CASE s < m
    <3>1. m <= EndOf(body, s) => EndOf(body, m) < EndOf(body, s)
      BY <1>1, <2>2, Laminar
    <3> QED BY <1>1, <2>1, <2>2, <3>1
  <2>3. CASE s = m
    BY <1>1, <2>1, <2>3
  <2>4. CASE m < s
    <3>1. s <= EndOf(body, m) => EndOf(body, s) < EndOf(body, m)
      BY <1>1, <2>4, Laminar
    <3> QED BY <1>1, <2>1, <2>4, <3>1
  <2> QED BY <1>1, <2>1, <2>2, <2>3, <2>4
<1> QED BY <1>2 DEF Around

(* Back to the start of block m. *)
LEMMA AroundAgain ==
    ASSUME NEW body, Len(body) \in Nat, Paired(body), NEW x \in Int, NEW m \in Around(body, x)
    PROVE  Around(body, m + 1) = {s \in Around(body, x) : s <= m}
<1>1. /\ m \in Openers(body) /\ m \in Int /\ EndOf(body, m) \in (m + 1) .. Len(body)
      /\ m < x /\ x <= EndOf(body, m)
  BY AroundTyped
<1>2. ASSUME NEW s \in Openers(body)
      PROVE  s < m + 1 /\ m + 1 <= EndOf(body, s) <=> s < x /\ x <= EndOf(body, s) /\ s <= m
  <2>1. s \in Int /\ EndOf(body, s) \in Int
    BY EndsFound DEF Openers
  <2>2. CASE s < m
    <3>1. m <= EndOf(body, s) => EndOf(body, m) < EndOf(body, s)
      BY <1>1, <2>2, Laminar
    <3> QED BY <1>1, <2>1, <2>2, <3>1
  <2>3. CASE s = m
    BY <1>1, <2>1, <2>3
  <2> QED BY <1>1, <2>1, <2>2, <2>3
<1> QED BY <1>2 DEF Around

(* An End inside a block is the innermost block's own. *)
LEMMA EndOfInnermost ==
    ASSUME NEW body, Len(body) \in Nat, Paired(body), NEW ip \in 1 .. Len(body), body[ip].op = "end",
           NEW m \in Around(body, ip), \A s \in Around(body, ip) : s <= m
    PROVE  EndOf(body, m) = ip
<1>1. /\ m \in Openers(body) /\ m \in Int /\ EndOf(body, m) \in (m + 1) .. Len(body)
      /\ m < ip /\ ip <= EndOf(body, m)
  BY AroundTyped
<1>2. CASE ip = Len(body)
  BY <1>1, <1>2
<1>3. CASE ip # Len(body)
  <2>1. PICK i \in 1 .. (ip - 1) : Closes(body, i, ip)
    <3>1. ip \in 1 .. (Len(body) - 1)
      BY <1>3
    <3> QED BY <3>1 DEF Paired
  <2>2. i \in Openers(body) /\ ip \in (i + 1) .. Len(body) /\ i \in Int /\ i < ip
    BY <2>1 DEF Closes, Openers
  <2>3. EndOf(body, i) = ip
    BY <2>1, <2>2, EndIsOne
  <2>4. i \in Around(body, ip)
    BY <2>2, <2>3 DEF Around
  <2>5. i < m => EndOf(body, m) < ip
    BY <1>1, <2>2, <2>3, Laminar
  <2> QED BY <1>1, <2>2, <2>3, <2>4, <2>5
<1> QED BY <1>2, <1>3

(* The Else of an If, and what lies before it. *)
LEMMA ElseFound ==
    ASSUME NEW body, Len(body) \in Nat, Paired(body), NEW ip \in Openers(body), ElseOf(body, ip) # 0
    PROVE  /\ ElseOf(body, ip) + 1 \in (ip + 1) .. EndOf(body, ip)
           /\ \A t \in Openers(body) :
                  ip < t /\ t < ElseOf(body, ip) + 1 => EndOf(body, t) < ElseOf(body, ip) + 1
<1> DEFINE elses == {j \in ip .. EndOf(body, ip) : body[j].op = "else" /\ Unclosed(body, ip, j) = 1}
           els == ElseOf(body, ip)
<1>1. els \in elses
  BY DEF ElseOf
<1>2. /\ ip \in Int /\ EndOf(body, ip) \in (ip + 1) .. Len(body) /\ Closes(body, ip, EndOf(body, ip))
      /\ body[EndOf(body, ip)].op = "end" /\ body[ip].op \in Opens
  BY EndsFound DEF Openers
<1>3. els \in ip .. EndOf(body, ip) /\ body[els].op = "else" /\ Unclosed(body, ip, els) = 1
  BY <1>1
<1> HIDE DEF els, elses
<1>4. els \in Int /\ ip < els /\ els < EndOf(body, ip)
  <2>1. els # ip /\ els # EndOf(body, ip)
    BY <1>2, <1>3 DEF Opens
  <2> QED BY <1>2, <1>3, <2>1
<1>5. ASSUME NEW t \in Openers(body), ip < t, t < els + 1, els + 1 <= EndOf(body, t) PROVE FALSE
  <2>1. /\ t \in Int /\ EndOf(body, t) \in (t + 1) .. Len(body) /\ Closes(body, t, EndOf(body, t))
    BY EndsFound DEF Openers
  <2>2. Unclosed(body, t, els) > 0
    <3>1. els \in t .. (EndOf(body, t) - 1)
      BY <1>4, <1>5, <2>1
    <3> QED BY <2>1, <3>1 DEF Closes
  <2>3. Unclosed(body, ip, t - 1) > 0
    <3>1. t - 1 \in ip .. (EndOf(body, ip) - 1)
      BY <1>2, <1>4, <1>5, <2>1
    <3> QED BY <1>2, <3>1 DEF Closes
  <2>4. Unclosed(body, ip, els) = Unclosed(body, ip, t - 1) + Unclosed(body, t, els)
    BY <1>2, <1>4, <1>5, <2>1, UnclosedSplits
  <2>5. Unclosed(body, ip, t - 1) \in Int /\ Unclosed(body, t, els) \in Int
    <3>1. t - 1 \in Int /\ ip <= ip /\ ip <= (t - 1) + 1 /\ t <= t /\ t <= els + 1
      BY <1>2, <1>4, <1>5, <2>1
    <3>2. Unclosed(body, ip, t - 1) \in Int
      BY <1>2, <3>1, UnclosedSplits
    <3>3. Unclosed(body, t, els) \in Int
      BY <1>4, <2>1, <3>1, UnclosedSplits
    <3> QED BY <3>2, <3>3
  <2> QED BY <1>3, <2>2, <2>3, <2>4, <2>5
<1>6. \A t \in Openers(body) : EndOf(body, t) \in Int
  BY EndsFound
<1>7. \A t \in Openers(body) : ip < t /\ t < els + 1 => EndOf(body, t) < els + 1
  BY <1>4, <1>5, <1>6
<1> QED BY <1>2, <1>4, <1>7 DEF els

LEMMA ElseTyped ==
    ASSUME NEW body, Len(body) \in Nat, Paired(body), NEW s \in Openers(body), ElseOf(body, s) # 0
    PROVE  /\ ElseOf(body, s) \in Int /\ s < ElseOf(body, s) /\ ElseOf(body, s) < EndOf(body, s)
           /\ body[ElseOf(body, s)].op = "else"
           /\ s \in Int /\ s >= 1 /\ EndOf(body, s) \in Int /\ EndOf(body, s) <= Len(body)
<1> DEFINE elses == {j \in s .. EndOf(body, s) : body[j].op = "else" /\ Unclosed(body, s, j) = 1}
           els == ElseOf(body, s)
<1>1. els \in elses
  BY DEF ElseOf
<1>2. s \in Int /\ s >= 1 /\ EndOf(body, s) \in Int /\ EndOf(body, s) <= Len(body)
  BY EndsFound DEF Openers
<1>3. els \in s .. EndOf(body, s) /\ body[els].op = "else"
  BY <1>1
<1>4. els + 1 \in (s + 1) .. EndOf(body, s)
  BY ElseFound
<1> HIDE DEF els, elses
<1>5. els # s
  BY <1>3 DEF Openers, Opens
<1> QED BY <1>2, <1>3, <1>4, <1>5 DEF els

(* A block around an Else is the Else's own or around that one. *)
LEMMA ElseInnermost ==
    ASSUME NEW body, Len(body) \in Nat, Paired(body), NEW s \in Openers(body), ElseOf(body, s) # 0
    PROVE  /\ s \in Around(body, ElseOf(body, s))
           /\ \A t \in Around(body, ElseOf(body, s)) : t <= s
<1> DEFINE els == ElseOf(body, s)
<1>1. /\ els \in Int /\ s < els /\ els < EndOf(body, s) /\ body[els].op = "else"
      /\ s \in Int /\ EndOf(body, s) \in Int
  BY ElseTyped
<1>2. ASSUME NEW t \in Around(body, els), s < t PROVE FALSE
  <2>1. /\ t \in Openers(body) /\ t \in Int /\ t < els /\ els <= EndOf(body, t)
        /\ EndOf(body, t) \in Int /\ body[EndOf(body, t)].op = "end"
    BY <1>1, AroundTyped
  <2>2. EndOf(body, t) < els + 1
    <3>1. t < els + 1
      BY <1>1, <2>1
    <3> QED BY <1>2, <2>1, <3>1, ElseFound
  <2>3. EndOf(body, t) = els
    BY <1>1, <2>1, <2>2
  <2> QED BY <1>1, <2>1, <2>3
<1>3. \A t \in Around(body, els) : t \in Int
  BY <1>1, AroundTyped
<1>4. s \in Around(body, els)
  BY <1>1 DEF Around
<1> QED BY <1>1, <1>2, <1>3, <1>4

(* Past a block that is not entered. *)
LEMMA AroundPast ==
    ASSUME NEW body, Len(body) \in Nat, Paired(body), NEW ip \in Openers(body)
    PROVE  /\ Around(body, EndOf(body, ip) + 1) = Around(body, ip)
           /\ Around(body, ip + 1) = Around(body, ip) \cup {ip}
<1> DEFINE y == ip + 1
<1>1. ip \in Int /\ EndOf(body, ip) \in (ip + 1) .. Len(body)
  BY EndsFound DEF Openers
<1>2. y \in (ip + 1) .. EndOf(body, ip) /\ y \in Int
  BY <1>1
<1>3. \A t \in Openers(body) : ~(ip < t /\ t < y)
  BY <1>1 DEF Openers
<1> HIDE DEF y
<1>4. Around(body, y) = Around(body, ip) \cup {ip}
  BY <1>2, <1>3, AroundInside
<1>5. Around(body, EndOf(body, ip) + 1) = {s \in Around(body, y) : s < ip}
  BY <1>2, <1>4, AroundOutside
<1>6. ~(ip < ip) /\ \A s \in Around(body, ip) : s < ip
  BY <1>1 DEF Around
<1> QED BY <1>4, <1>5, <1>6 DEF y
=============================================================================
