--------------------------- MODULE DkControlProofs ---------------------------
(***************************************************************************)
(* For every validated code, step budget and call depth: the control       *)
(* machine stays within its budget, its depth and the bodies it runs, its  *)
(* frames are the blocks around the ip, whatever branches led there, and   *)
(* no block takes the operands of the blocks around it.                    *)
(***************************************************************************)
EXTENDS DkControl, WasmBlocksProofs

-----------------------------------------------------------------------------
(* An activation, and what its frames say of the blocks around its ip.     *)
FrameSet == [end: Int, arity: Nat, height: Nat, loop_start: Int]
ActSet == [fn: Nat, ip: Int, stack: Seq(Int), frames: Seq(FrameSet), locals: Seq(Int)]

NestedAt(body, ip, frames, st) ==
    /\ st \in [1 .. Len(frames) -> Around(body, ip)]
    /\ \A i, j \in 1 .. Len(frames) : i < j => st[i] < st[j]
    /\ \A s \in Around(body, ip) : \E i \in 1 .. Len(frames) : st[i] = s
    /\ \A i \in 1 .. Len(frames) :
           /\ frames[i].end = EndOf(body, st[i])
           /\ frames[i].loop_start = IF body[st[i]].op = "loop" THEN st[i] ELSE 0
Nests(body, ip, frames) == \E st : NestedAt(body, ip, frames, st)

ActOK(code, a) ==
    /\ a \in ActSet /\ a.fn \in 1 .. Len(code)
    /\ a.ip \in 1 .. (Len(code[a.fn].body) + 1)
    /\ Nests(code[a.fn].body, a.ip, a.frames)
Calling(code, a) ==
    a.ip <= Len(code[a.fn].body) /\ code[a.fn].body[a.ip].op = "call"

CtlInv ==
    /\ Validated(entry)
    /\ steps \in Nat /\ steps <= MaxSteps + 1 /\ (status = "run" => steps <= MaxSteps)
    /\ status \in {"run", "done", "bail"}
    /\ acts \in Seq(ActSet) /\ Len(acts) \in 1 .. (MaxDepth + 1)
    /\ \A k \in 1 .. Len(acts) : ActOK(entry.code, acts[k])
    /\ \A k \in 1 .. (Len(acts) - 1) : Calling(entry.code, acts[k])

-----------------------------------------------------------------------------
(* The parts of a sequence that the machine keeps, moves and drops.        *)
LEMMA KeepTyped ==
    ASSUME NEW S, NEW s \in Seq(S), NEW n \in 0 .. Len(s)
    PROVE  /\ Keep(s, n) \in Seq(S) /\ Len(Keep(s, n)) = n
           /\ \A i \in 1 .. n : Keep(s, n)[i] = s[i]
<1>1. Len(s) \in Nat /\ \A i \in 1 .. Len(s) : s[i] \in S
  BY LenProperties, ElementOfSeq
<1>2. 1 \in Int /\ n \in Int /\ \A i \in 1 .. n : s[i] \in S
  BY <1>1
<1>3. /\ SubSeq(s, 1, n) \in Seq(S)
      /\ Len(SubSeq(s, 1, n)) = IF 1 <= n THEN n - 1 + 1 ELSE 0
      /\ \A i \in 1 .. n - 1 + 1 : SubSeq(s, 1, n)[i] = s[1 + i - 1]
  BY <1>2, SubSeqProperties
<1>4. \A i \in 1 .. n : i \in 1 .. n - 1 + 1 /\ 1 + i - 1 = i
  BY <1>2
<1>5. \A i \in 1 .. n : SubSeq(s, 1, n)[i] = s[i]
  BY <1>3, <1>4
<1>6. Len(SubSeq(s, 1, n)) = n
  BY <1>1, <1>3
<1> QED BY <1>3, <1>5, <1>6 DEF Keep

LEMMA ResultsTyped ==
    ASSUME NEW S, NEW s \in Seq(S), NEW n \in 0 .. Len(s)
    PROVE  Results(s, n) \in Seq(S) /\ Len(Results(s, n)) = n
<1>1. Len(s) \in Nat /\ \A i \in 1 .. Len(s) : s[i] \in S
  BY LenProperties, ElementOfSeq
<1>2. /\ Len(s) - n + 1 \in Int /\ Len(s) \in Int
      /\ \A i \in (Len(s) - n + 1) .. Len(s) : s[i] \in S
  BY <1>1
<1>3. /\ SubSeq(s, Len(s) - n + 1, Len(s)) \in Seq(S)
      /\ Len(SubSeq(s, Len(s) - n + 1, Len(s)))
         = IF Len(s) - n + 1 <= Len(s) THEN Len(s) - (Len(s) - n + 1) + 1 ELSE 0
  BY <1>2, SubSeqProperties
<1>4. Len(SubSeq(s, Len(s) - n + 1, Len(s))) = n
  BY <1>1, <1>3
<1> QED BY <1>3, <1>4 DEF Results

LEMMA FrontTyped ==
    ASSUME NEW S, NEW s \in Seq(S), Len(s) >= 1
    PROVE  /\ FrontOf(s) \in Seq(S) /\ Len(FrontOf(s)) = Len(s) - 1
           /\ \A i \in 1 .. (Len(s) - 1) : FrontOf(s)[i] = s[i]
           /\ LastOf(s) \in S /\ Len(s) \in Nat
<1>1. Len(s) \in Nat /\ \A i \in 1 .. Len(s) : s[i] \in S
  BY LenProperties, ElementOfSeq
<1>2. Len(s) - 1 \in 0 .. Len(s) /\ FrontOf(s) = Keep(s, Len(s) - 1) /\ Len(s) \in 1 .. Len(s)
  BY <1>1 DEF FrontOf, Keep
<1> QED BY <1>1, <1>2, KeepTyped DEF LastOf

LEMMA AppendTyped ==
    ASSUME NEW S, NEW s \in Seq(S), NEW e \in S
    PROVE  /\ Append(s, e) \in Seq(S) /\ Len(Append(s, e)) = Len(s) + 1 /\ Len(s) \in Nat
           /\ \A i \in 1 .. Len(s) : Append(s, e)[i] = s[i]
           /\ Append(s, e)[Len(s) + 1] = e
BY AppendProperties, LenProperties

(* What dk_exit_block and dk_branch leave on the stack. *)
LEMMA KeptTyped ==
    ASSUME NEW s \in Seq(Int), NEW h \in Nat, NEW n \in Nat, h + n <= Len(s)
    PROVE  /\ Keep(s, h) \o Results(s, n) \in Seq(Int) /\ Keep(s, h) \in Seq(Int)
           /\ Len(Keep(s, h) \o Results(s, n)) = h + n
<1>1. Len(s) \in Nat
  BY LenProperties
<1>2. h \in 0 .. Len(s) /\ n \in 0 .. Len(s)
  BY <1>1
<1>3. /\ Keep(s, h) \in Seq(Int) /\ Results(s, n) \in Seq(Int)
      /\ Len(Keep(s, h)) = h /\ Len(Results(s, n)) = n
  BY <1>2, KeepTyped, ResultsTyped
<1> DEFINE k == Keep(s, h)
           r == Results(s, n)
<1>4. k \in Seq(Int) /\ r \in Seq(Int) /\ Len(k) = h /\ Len(r) = n
  BY <1>3
<1> HIDE DEF k, r
<1>5. k \o r \in Seq(Int) /\ Len(k \o r) = h + n
  BY <1>4, ConcatProperties
<1> QED BY <1>3, <1>5 DEF k, r

(* The Rust call stack with its top replaced. *)
LEMMA Replaced ==
    ASSUME NEW S, NEW s \in Seq(S), Len(s) >= 1, NEW e \in S
    PROVE  LET r == Append(FrontOf(s), e)
           IN  /\ r \in Seq(S) /\ Len(r) = Len(s) /\ r[Len(s)] = e
               /\ \A i \in 1 .. (Len(s) - 1) : r[i] = s[i]
<1>1. /\ FrontOf(s) \in Seq(S) /\ Len(FrontOf(s)) = Len(s) - 1 /\ Len(s) \in Nat
      /\ \A i \in 1 .. (Len(s) - 1) : FrontOf(s)[i] = s[i]
  BY FrontTyped
<1> DEFINE r == Append(FrontOf(s), e)
<1>2. /\ r \in Seq(S) /\ Len(r) = Len(FrontOf(s)) + 1
      /\ \A i \in 1 .. Len(FrontOf(s)) : r[i] = FrontOf(s)[i]
      /\ r[Len(FrontOf(s)) + 1] = e
  BY <1>1, AppendTyped
<1> HIDE DEF r
<1>3. Len(s) - 1 + 1 = Len(s)
  BY <1>1
<1>4. r \in Seq(S) /\ Len(r) = Len(s) /\ r[Len(s)] = e
  BY <1>1, <1>2, <1>3
<1>5. \A i \in 1 .. (Len(s) - 1) : r[i] = s[i]
  BY <1>1, <1>2
<1> QED BY <1>4, <1>5 DEF r
-----------------------------------------------------------------------------
(* How the frames follow the ip: some innermost ones are dropped, or one   *)
(* is pushed.                                                              *)
LEMMA NestedTyped ==
    ASSUME NEW body, Len(body) \in Nat, Paired(body), NEW x \in Int,
           NEW frames \in Seq(FrameSet), NEW st, NestedAt(body, x, frames, st),
           NEW i \in 1 .. Len(frames)
    PROVE  /\ st[i] \in Around(body, x) /\ st[i] \in Openers(body) /\ st[i] \in 1 .. Len(body)
           /\ frames[i].end = EndOf(body, st[i]) /\ frames[i].end \in (st[i] + 1) .. Len(body)
           /\ frames[i].loop_start = IF body[st[i]].op = "loop" THEN st[i] ELSE 0
<1>1. st[i] \in Around(body, x)
  BY DEF NestedAt
<1>2. st[i] \in Openers(body) /\ EndOf(body, st[i]) \in (st[i] + 1) .. Len(body)
  BY <1>1, AroundTyped
<1> QED BY <1>1, <1>2 DEF NestedAt, Openers

LEMMA NestsKeep ==
    ASSUME NEW body, NEW x, NEW y, NEW frames \in Seq(FrameSet), NEW st, NestedAt(body, x, frames, st),
           NEW n \in 0 .. Len(frames),
           Around(body, y) = {s \in Around(body, x) : \E i \in 1 .. n : st[i] = s}
    PROVE  Nests(body, y, Keep(frames, n))
<1> DEFINE st2 == [i \in 1 .. n |-> st[i]]
<1>1. /\ Len(frames) \in Nat /\ Len(Keep(frames, n)) = n
      /\ \A i \in 1 .. n : Keep(frames, n)[i] = frames[i] /\ i \in 1 .. Len(frames)
  <2>1. Len(frames) \in Nat
    BY LenProperties
  <2>2. Len(Keep(frames, n)) = n /\ \A i \in 1 .. n : Keep(frames, n)[i] = frames[i]
    BY KeepTyped
  <2> QED BY <2>1, <2>2
<1>2. \A i \in 1 .. n : st2[i] = st[i] /\ st[i] \in Around(body, x)
  BY <1>1 DEF NestedAt
<1>3. st2 \in [1 .. n -> Around(body, y)]
  BY <1>2
<1> HIDE DEF st2
<1>4. \A i, j \in 1 .. n : i < j => st2[i] < st2[j]
  BY <1>1, <1>2 DEF NestedAt
<1>5. \A s \in Around(body, y) : \E i \in 1 .. n : st2[i] = s
  BY <1>2
<1>6. \A i \in 1 .. n :
          /\ Keep(frames, n)[i].end = EndOf(body, st2[i])
          /\ Keep(frames, n)[i].loop_start = IF body[st2[i]].op = "loop" THEN st2[i] ELSE 0
  BY <1>1, <1>2 DEF NestedAt
<1>7. NestedAt(body, y, Keep(frames, n), st2)
  BY <1>1, <1>3, <1>4, <1>5, <1>6 DEF NestedAt
<1> QED BY <1>7 DEF Nests

(* Out of the block of frame n + 1, past its End. *)
LEMMA NestsOut ==
    ASSUME NEW body, Len(body) \in Nat, Paired(body), NEW x \in Int,
           NEW frames \in Seq(FrameSet), NEW st, NestedAt(body, x, frames, st),
           NEW n \in 1 .. Len(frames)
    PROVE  Nests(body, frames[n].end + 1, Keep(frames, n - 1))
<1>1. Len(frames) \in Nat
  BY LenProperties
<1>2. st[n] \in Around(body, x) /\ frames[n].end = EndOf(body, st[n])
  BY NestedTyped
<1>3. Around(body, frames[n].end + 1) = {s \in Around(body, x) : s < st[n]}
  BY <1>2, AroundOutside
<1>4. ASSUME NEW s \in Around(body, x)
      PROVE  s < st[n] <=> \E i \in 1 .. (n - 1) : st[i] = s
  <2>1. PICK i \in 1 .. Len(frames) : st[i] = s
    BY DEF NestedAt
  <2>2. \A j \in 1 .. Len(frames) : st[j] \in Int
    BY NestedTyped
  <2>3. s < st[n] => i \in 1 .. (n - 1)
    <3>1. n < i => st[n] < st[i]
      BY DEF NestedAt
    <3> QED BY <1>1, <2>1, <2>2, <3>1
  <2>4. ASSUME NEW j \in 1 .. (n - 1), st[j] = s PROVE s < st[n]
    <3>1. j \in 1 .. Len(frames) /\ j < n
      BY <1>1
    <3> QED BY <2>4, <3>1 DEF NestedAt
  <2> QED BY <2>1, <2>3, <2>4
<1> DEFINE m == n - 1
<1>5. Around(body, frames[n].end + 1) = {s \in Around(body, x) : \E i \in 1 .. m : st[i] = s}
  BY <1>3, <1>4
<1>6. m \in 0 .. Len(frames)
  BY <1>1
<1> HIDE DEF m
<1>7. Nests(body, frames[n].end + 1, Keep(frames, m))
  <2> DEFINE y == frames[n].end + 1
  <2>1. Around(body, y) = {s \in Around(body, x) : \E i \in 1 .. m : st[i] = s}
    BY <1>5
  <2> HIDE DEF y
  <2>2. Nests(body, y, Keep(frames, m))
    BY <1>6, <2>1, NestsKeep
  <2> QED BY <2>2 DEF y
<1> QED BY <1>7 DEF m

(* Back to the first instruction of the block of frame n. *)
LEMMA NestsAgain ==
    ASSUME NEW body, Len(body) \in Nat, Paired(body), NEW x \in Int,
           NEW frames \in Seq(FrameSet), NEW st, NestedAt(body, x, frames, st),
           NEW n \in 1 .. Len(frames)
    PROVE  Nests(body, st[n] + 1, Keep(frames, n))
<1>1. Len(frames) \in Nat
  BY LenProperties
<1>2. st[n] \in Around(body, x)
  BY NestedTyped
<1>3. Around(body, st[n] + 1) = {s \in Around(body, x) : s <= st[n]}
  BY <1>2, AroundAgain
<1>4. ASSUME NEW s \in Around(body, x)
      PROVE  s <= st[n] <=> \E i \in 1 .. n : st[i] = s
  <2>1. PICK i \in 1 .. Len(frames) : st[i] = s
    BY DEF NestedAt
  <2>2. \A j \in 1 .. Len(frames) : st[j] \in Int
    BY NestedTyped
  <2>3. s <= st[n] => i \in 1 .. n
    <3>1. n < i => st[n] < st[i]
      BY DEF NestedAt
    <3> QED BY <1>1, <2>1, <2>2, <3>1
  <2>4. ASSUME NEW j \in 1 .. n, st[j] = s PROVE s <= st[n]
    <3>1. j \in 1 .. Len(frames) /\ (j < n \/ j = n)
      BY <1>1
    <3>2. j < n => st[j] < st[n]
      BY <3>1 DEF NestedAt
    <3> QED BY <2>2, <2>4, <3>1, <3>2
  <2> QED BY <2>1, <2>3, <2>4
<1>5. Around(body, st[n] + 1) = {s \in Around(body, x) : \E i \in 1 .. n : st[i] = s}
  BY <1>3, <1>4
<1>6. n \in 0 .. Len(frames)
  BY <1>1
<1> DEFINE y == st[n] + 1
<1>7. Around(body, y) = {s \in Around(body, x) : \E i \in 1 .. n : st[i] = s}
  BY <1>5
<1> HIDE DEF y
<1>8. Nests(body, y, Keep(frames, n))
  BY <1>6, <1>7, NestsKeep
<1> QED BY <1>8 DEF y

LEMMA NestsPush ==
    ASSUME NEW body, Len(body) \in Nat, Paired(body), NEW ip \in Openers(body), NEW y,
           NEW frames \in Seq(FrameSet), NEW st, NestedAt(body, ip, frames, st),
           NEW fr \in FrameSet, fr.end = EndOf(body, ip),
           fr.loop_start = IF body[ip].op = "loop" THEN ip ELSE 0,
           Around(body, y) = Around(body, ip) \cup {ip}
    PROVE  Nests(body, y, Append(frames, fr))
<1> DEFINE n == Len(frames)
           st2 == [i \in 1 .. (n + 1) |-> IF i = n + 1 THEN ip ELSE st[i]]
           f2 == Append(frames, fr)
<1>1. /\ n \in Nat /\ Len(f2) = n + 1 /\ f2[n + 1] = fr
      /\ \A i \in 1 .. n : f2[i] = frames[i]
  BY AppendTyped
<1>2. ip \in Int /\ \A i \in 1 .. n : st[i] \in Around(body, ip) /\ st[i] \in Int /\ st[i] < ip
  <2>1. ip \in Int
    BY DEF Openers
  <2>2. \A i \in 1 .. n : st[i] \in Around(body, ip)
    BY DEF NestedAt
  <2> QED BY <2>1, <2>2, AroundTyped
<1>3. st2[n + 1] = ip /\ \A i \in 1 .. n : st2[i] = st[i]
  BY <1>1
<1>4. st2 \in [1 .. (n + 1) -> Around(body, y)]
  BY <1>1, <1>2
<1>5. \A i \in 1 .. (n + 1) : i = n + 1 \/ i \in 1 .. n
  BY <1>1
<1> HIDE DEF st2, f2
<1>6. \A i, j \in 1 .. (n + 1) : i < j => st2[i] < st2[j]
  <2>1. TAKE i, j \in 1 .. (n + 1)
  <2>2. HAVE i < j
  <2>3. i \in 1 .. n
    BY <1>1, <2>2
  <2>4. CASE j = n + 1
    BY <1>2, <1>3, <2>3, <2>4
  <2>5. CASE j \in 1 .. n
    BY <1>3, <2>2, <2>3, <2>5 DEF NestedAt
  <2> QED BY <1>5, <2>4, <2>5
<1>7. \A s \in Around(body, y) : \E i \in 1 .. (n + 1) : st2[i] = s
  <2>1. TAKE s \in Around(body, y)
  <2>2. CASE s = ip
    BY <1>1, <1>3, <2>2
  <2>3. CASE s \in Around(body, ip)
    <3>1. PICK i \in 1 .. n : st[i] = s
      BY <2>3 DEF NestedAt
    <3>2. i \in 1 .. (n + 1) /\ st2[i] = s
      BY <1>1, <1>3, <3>1
    <3> QED BY <3>2
  <2> QED BY <2>2, <2>3
<1>8. ASSUME NEW i \in 1 .. (n + 1)
      PROVE  /\ f2[i].end = EndOf(body, st2[i])
             /\ f2[i].loop_start = IF body[st2[i]].op = "loop" THEN st2[i] ELSE 0
  <2>1. CASE i = n + 1
    BY <1>1, <1>3, <2>1
  <2>2. CASE i \in 1 .. n
    BY <1>1, <1>3, <2>2 DEF NestedAt
  <2> QED BY <1>5, <2>1, <2>2
<1>9. NestedAt(body, y, f2, st2)
  BY <1>1, <1>4, <1>6, <1>7, <1>8 DEF NestedAt
<1> QED BY <1>9 DEF Nests, f2
LEMMA NestsSame ==
    ASSUME NEW body, NEW x, NEW y, NEW frames, Nests(body, x, frames), Around(body, y) = Around(body, x)
    PROVE  Nests(body, y, frames)
BY DEF Nests, NestedAt

(* Past a block that was never entered. *)
LEMMA NestsPast ==
    ASSUME NEW body, Len(body) \in Nat, Paired(body), NEW ip \in Openers(body), NEW frames,
           Nests(body, ip, frames)
    PROVE  Nests(body, EndOf(body, ip) + 1, frames)
BY AroundPast, NestsSame

-----------------------------------------------------------------------------
(* The running activation.                                                 *)
LEMMA Top ==
    ASSUME CtlInv
    PROVE  /\ acts \in Seq(ActSet) /\ Len(acts) \in Nat /\ Len(acts) >= 1 /\ Act = acts[Len(acts)]
           /\ ActOK(entry.code, Act) /\ Act \in ActSet /\ Act.fn \in 1 .. Len(entry.code)
           /\ Body = entry.code[Act.fn].body /\ Len(Body) \in Nat /\ Paired(Body)
           /\ Act.ip \in 1 .. (Len(Body) + 1) /\ Nests(Body, Act.ip, Act.frames)
           /\ Act.stack \in Seq(Int) /\ Act.frames \in Seq(FrameSet) /\ Act.locals \in Seq(Int)
<1>1. acts \in Seq(ActSet) /\ Len(acts) \in Nat /\ Len(acts) >= 1 /\ Act = acts[Len(acts)]
  BY LenProperties DEF CtlInv, Act, LastOf
<1>2. ActOK(entry.code, Act)
  <2>1. Len(acts) \in 1 .. Len(acts)
    BY <1>1
  <2> QED BY <1>1, <2>1 DEF CtlInv
<1>3. Body = entry.code[Act.fn].body
  BY DEF Body, Code
<1>4. Act.fn \in 1 .. Len(entry.code) /\ Act \in ActSet /\ Validated(entry)
  BY <1>2 DEF ActOK, CtlInv
<1>5. Len(Body) \in Nat /\ Paired(Body)
  BY <1>3, <1>4 DEF Validated, Function
<1>6. Act.stack \in Seq(Int) /\ Act.frames \in Seq(FrameSet) /\ Act.locals \in Seq(Int)
  BY <1>4 DEF ActSet
<1> QED BY <1>1, <1>2, <1>3, <1>4, <1>5, <1>6 DEF ActOK

LEMMA TopInstruction ==
    ASSUME CtlInv, InBody
    PROVE  Act.ip \in 1 .. Len(Body) /\ Ins = Body[Act.ip] /\ Immediate(Ins, Len(entry.code))
<1>1. Act.ip \in 1 .. Len(Body) /\ Ins = Body[Act.ip]
  BY DEF InBody, Ins
<1>2. Body = entry.code[Act.fn].body /\ Act.fn \in 1 .. Len(entry.code)
  BY Top
<1>3. Validated(entry)
  BY DEF CtlInv
<1> QED BY <1>1, <1>2, <1>3 DEF Validated, Function

LEMMA Continues ==
    ASSUME CtlInv, status = "run", InBudget, Tick, NEW a, ActOK(entry.code, a), Continue(a)
    PROVE  CtlInv'
<1>1. /\ entry' = entry /\ status' = status /\ steps' = steps + 1 /\ steps + 1 <= MaxSteps
      /\ acts' = Append(FrontOf(acts), a)
  BY DEF Continue, Tick, InBudget
<1>2. acts \in Seq(ActSet) /\ Len(acts) \in Nat /\ Len(acts) >= 1 /\ a \in ActSet
  BY Top DEF ActOK
<1>3. /\ acts' \in Seq(ActSet) /\ Len(acts') = Len(acts) /\ acts'[Len(acts)] = a
      /\ \A i \in 1 .. (Len(acts) - 1) : acts'[i] = acts[i]
  BY <1>1, <1>2, Replaced
<1>4. \A k \in 1 .. Len(acts') : ActOK(entry'.code, acts'[k])
  <2>1. TAKE k \in 1 .. Len(acts')
  <2>2. CASE k = Len(acts)
    BY <1>1, <1>3, <2>2
  <2>3. CASE k # Len(acts)
    <3>1. k \in 1 .. (Len(acts) - 1) /\ k \in 1 .. Len(acts)
      BY <1>2, <1>3, <2>3
    <3> QED BY <1>1, <1>3, <3>1 DEF CtlInv
  <2> QED BY <2>2, <2>3
<1>5. \A k \in 1 .. (Len(acts') - 1) : Calling(entry'.code, acts'[k])
  BY <1>1, <1>3 DEF CtlInv
<1>6. /\ Validated(entry') /\ steps' \in Nat /\ steps' <= MaxSteps + 1 /\ steps' <= MaxSteps
      /\ status' \in {"run", "done", "bail"} /\ Len(acts') \in 1 .. (MaxDepth + 1)
  BY <1>1, <1>3, ControlAssumption DEF CtlInv
<1> QED BY <1>3, <1>4, <1>5, <1>6 DEF CtlInv

LEMMA Bails ==
    ASSUME CtlInv, status = "run", Tick, Bail
    PROVE  CtlInv'
BY ControlAssumption DEF CtlInv, Tick, Bail

LEMMA Resumes ==
    ASSUME CtlInv, status = "run", InBudget, Tick, NEW outcomes, Resume(outcomes),
           \A a \in outcomes : ActOK(entry.code, a)
    PROVE  CtlInv'
<1>1. CASE outcomes = {}
  BY <1>1, Bails DEF Resume
<1>2. CASE outcomes # {}
  <2>1. PICK a \in outcomes : Continue(a)
    BY <1>2 DEF Resume
  <2> QED BY <2>1, Continues
<1> QED BY <1>1, <1>2

(* A function about to run. *)
LEMMA Activated ==
    ASSUME NEW e, Validated(e), NEW fn \in 1 .. Len(e.code), NEW locals \in Seq(Int)
    PROVE  ActOK(e.code, Activation(fn, locals))
<1> DEFINE a == Activation(fn, locals)
           body == e.code[fn].body
<1>1. Len(body) \in Nat /\ Paired(body) /\ fn \in Nat
  BY DEF Validated, Function
<1>2. a \in ActSet /\ a.fn = fn /\ a.ip = 1 /\ a.frames = <<>>
  <2>1. <<>> \in Seq(Int) /\ <<>> \in Seq(FrameSet)
    OBVIOUS
  <2> QED BY <1>1, <2>1 DEF ActSet, Activation
<1> HIDE DEF body
<1>3. Around(body, 1) = {}
  BY <1>1 DEF Around, Openers
<1>4. NestedAt(body, 1, <<>>, <<>>)
  <2>1. Len(<<>>) = 0 /\ 1 .. 0 = {}
    OBVIOUS
  <2>2. <<>> \in [1 .. Len(<<>>) -> Around(body, 1)]
    BY <1>3, <2>1
  <2> QED BY <1>3, <2>1, <2>2 DEF NestedAt
<1> HIDE DEF a
<1>5. 1 \in 1 .. (Len(body) + 1) /\ Nests(body, 1, <<>>)
  BY <1>1, <1>4 DEF Nests
<1>6. ActOK(e.code, a)
  BY <1>2, <1>5 DEF ActOK, body
<1> QED BY <1>6 DEF a

LEMMA CtlInvInit ==
    ASSUME Init
    PROVE  CtlInv
<1> DEFINE locals == entry.locals \o Zeros(entry.code[1].extra)
           a == Activation(1, locals)
<1>1. Validated(entry)
  BY EntriesAssumption DEF Init
<1>2. acts = <<a>> /\ steps = 0 /\ status \in {"run", "done", "bail"}
  BY DEF Init
<1>3. 1 \in 1 .. Len(entry.code) /\ Function(entry.code[1], entry.code)
  BY <1>1 DEF Validated
<1>4. locals \in Seq(Int)
  <2>1. Zeros(entry.code[1].extra) \in Seq(Int)
    BY <1>3 DEF Zeros, Function
  <2> QED BY <1>1, <2>1, ConcatProperties DEF Validated
<1> HIDE DEF locals
<1>5. ActOK(entry.code, a)
  BY <1>1, <1>3, <1>4, Activated
<1> HIDE DEF a
<1>6. acts \in Seq(ActSet) /\ Len(acts) = 1 /\ acts[1] = a
  BY <1>2, <1>5 DEF ActOK
<1>7. \A k \in 1 .. Len(acts) : ActOK(entry.code, acts[k])
  BY <1>5, <1>6
<1>8. 1 .. (Len(acts) - 1) = {}
  BY <1>6
<1> QED BY <1>1, <1>2, <1>6, <1>7, <1>8, ControlAssumption DEF CtlInv

-----------------------------------------------------------------------------
(* The actions, one by one.                                                *)
LEMMA OutOfBudgetKeeps ==
    ASSUME CtlInv, OutOfBudget
    PROVE  CtlInv'
BY Bails DEF OutOfBudget

(* Moving to ip + 1 past an instruction that opens and closes nothing. *)
LEMMA MovesPast ==
    ASSUME NEW e, Validated(e), NEW c, ActOK(e.code, c), c.ip <= Len(e.code[c.fn].body),
           e.code[c.fn].body[c.ip].op \notin Opens \cup {"end"},
           NEW a \in ActSet, a.fn = c.fn, a.ip = c.ip + 1, a.frames = c.frames
    PROVE  ActOK(e.code, a)
<1> DEFINE body == e.code[c.fn].body
<1>1. /\ c.fn \in 1 .. Len(e.code) /\ c.ip \in 1 .. (Len(body) + 1)
      /\ Nests(body, c.ip, c.frames)
  BY DEF ActOK
<1>2. Len(body) \in Nat /\ Paired(body)
  BY <1>1 DEF Validated, Function
<1> HIDE DEF body
<1>3. c.ip \in 1 .. Len(body) /\ body[c.ip].op \notin Opens \cup {"end"} /\ a.ip = c.ip + 1
  <2>1. c.ip <= Len(body) /\ body[c.ip].op \notin Opens \cup {"end"}
    BY DEF body
  <2> QED BY <1>1, <1>2, <2>1
<1>4. Around(body, c.ip + 1) = Around(body, c.ip)
  BY <1>2, <1>3, AroundNext
<1>5. Nests(body, a.ip, a.frames)
  <2> DEFINE x == c.ip
             y == c.ip + 1
             f == c.frames
  <2>1. Nests(body, x, f) /\ Around(body, y) = Around(body, x)
    BY <1>1, <1>4
  <2>2. a.ip = y /\ a.frames = f
    OBVIOUS
  <2> HIDE DEF x, y, f
  <2> QED BY <2>1, <2>2, NestsSame
<1>6. a.ip \in 1 .. (Len(body) + 1)
  BY <1>2, <1>3
<1> QED BY <1>1, <1>5, <1>6 DEF ActOK, body

LEMMA StepsPast ==
    ASSUME CtlInv, InBody, Ins.op \notin Opens \cup {"end"}, NEW a \in ActSet,
           a.fn = Act.fn, a.ip = Act.ip + 1, a.frames = Act.frames
    PROVE  ActOK(entry.code, a)
<1>1. Act.ip <= Len(Body) /\ Ins = Body[Act.ip]
  BY Top, TopInstruction
<1>2. Body = entry.code[Act.fn].body /\ ActOK(entry.code, Act) /\ Validated(entry)
  BY Top DEF CtlInv
<1> QED BY <1>1, <1>2, MovesPast

(* An activation past its instruction. *)
LEMMA Moved ==
    ASSUME NEW a \in ActSet, NEW s \in Seq(Int)
    PROVE  /\ Next1(a, s) \in ActSet /\ Next1(a, s).fn = a.fn /\ Next1(a, s).ip = a.ip + 1
           /\ Next1(a, s).frames = a.frames /\ Next1(a, s).locals = a.locals
           /\ Next1(a, s).stack = s
<1> DEFINE n == a.ip + 1
           b == Next1(a, s)
<1>1. n \in Int
  BY DEF ActSet
<1>2. b = [a EXCEPT !.ip = n, !.stack = s]
  BY DEF Next1
<1> HIDE DEF n, b
<1>3. /\ b \in ActSet /\ b.fn = a.fn /\ b.ip = n /\ b.frames = a.frames /\ b.locals = a.locals
      /\ b.stack = s
  BY <1>1, <1>2 DEF ActSet
<1> QED BY <1>3 DEF n, b

(* A straight-line instruction moves past itself, with the operands it takes *)
(* and gives.                                                                *)
LEMMA StraightOutcomes ==
    ASSUME CtlInv, StraightLine, NEW a \in Straight(Act, Ins)
    PROVE  /\ a \in ActSet /\ a.fn = Act.fn /\ a.ip = Act.ip + 1 /\ a.frames = Act.frames
           /\ Len(a.stack) = Len(Act.stack) - Takes(Ins, entry.code) + Gives(Ins, entry.code)
<1>1. InBody /\ Ins.op \in {"const", "get", "set", "drop", "select", "add", "eqz", "unreachable", "call_indirect"}
  BY DEF StraightLine
<1>2. Act \in ActSet /\ Act.stack \in Seq(Int) /\ Act.locals \in Seq(Int) /\ Act.ip \in Int
  BY Top DEF ActSet
<1>3. Immediate(Ins, Len(entry.code))
  BY <1>1, TopInstruction
<1> DEFINE s == Act.stack
           h == Len(s)
           Good(b, n) == /\ b \in ActSet /\ b.fn = Act.fn /\ b.ip = Act.ip + 1
                         /\ b.frames = Act.frames /\ Len(b.stack) = n
<1>4. h \in Nat /\ \A i \in 1 .. h : s[i] \in Int
  BY <1>2, LenProperties, ElementOfSeq
<1>5. ASSUME NEW s2 \in Seq(Int)
      PROVE  Good(Next1(Act, s2), Len(s2)) /\ Next1(Act, s2).locals = Act.locals
  BY <1>2, Moved
<1>6. ASSUME NEW n \in 0 .. h, NEW v \in Int
      PROVE  Append(Keep(s, n), v) \in Seq(Int) /\ Len(Append(Keep(s, n), v)) = n + 1
  <2>1. Keep(s, n) \in Seq(Int) /\ Len(Keep(s, n)) = n
    BY <1>2, KeepTyped
  <2> QED BY <2>1, AppendTyped
<1>7. ASSUME h >= 1
      PROVE  /\ FrontOf(s) \in Seq(Int) /\ Len(FrontOf(s)) = h - 1
             /\ \A v \in Int : Append(FrontOf(s), v) \in Seq(Int) /\ Len(Append(FrontOf(s), v)) = h - 1 + 1
  <2>1. FrontOf(s) \in Seq(Int) /\ Len(FrontOf(s)) = h - 1
    BY <1>2, <1>7, FrontTyped
  <2> QED BY <2>1, AppendTyped
<1>8. ASSUME NEW v \in Int PROVE Append(s, v) \in Seq(Int) /\ Len(Append(s, v)) = h + 1
  BY <1>2, AppendTyped
<1> DEFINE takes == Takes(Ins, entry.code)
           gives == Gives(Ins, entry.code)
<1>9. Good(a, h - takes + gives)
  <2>1. CASE Ins.op = "const"
    <3>1. a = Next1(Act, Append(s, Ins.n)) /\ Ins.n \in Int
      BY <1>3, <2>1 DEF Straight, Immediate
    <3>2. takes = 0 /\ gives = 1
      BY <2>1 DEF Takes, Gives
    <3> DEFINE s2 == Append(s, Ins.n)
    <3>3. s2 \in Seq(Int) /\ Len(s2) = h - 0 + 1
      BY <1>4, <1>8, <3>1
    <3>4. a = Next1(Act, s2)
      BY <3>1
    <3> HIDE DEF s2
    <3>5. Good(a, Len(s2))
      BY <1>5, <3>3, <3>4
    <3> QED BY <3>2, <3>3, <3>5
  <2>2. CASE Ins.op = "get"
    <3>1. a = Next1(Act, Append(s, Act.locals[Ins.n + 1])) /\ Ins.n + 1 \in DOMAIN Act.locals
      BY <2>2 DEF Straight
    <3>2. Act.locals[Ins.n + 1] \in Int
      BY <1>2, <3>1, LenProperties
    <3>3. takes = 0 /\ gives = 1
      BY <2>2 DEF Takes, Gives
    <3> DEFINE s2 == Append(s, Act.locals[Ins.n + 1])
    <3>4. s2 \in Seq(Int) /\ Len(s2) = h - 0 + 1
      BY <1>4, <1>8, <3>2
    <3>5. a = Next1(Act, s2)
      BY <3>1
    <3> HIDE DEF s2
    <3>6. Good(a, Len(s2))
      BY <1>5, <3>4, <3>5
    <3> QED BY <3>3, <3>4, <3>6
  <2>3. CASE Ins.op = "set"
    <3>1. /\ a = [Next1(Act, FrontOf(s)) EXCEPT !.locals[Ins.n + 1] = s[h]]
          /\ Ins.n + 1 \in DOMAIN Act.locals /\ h >= 1
      BY <2>3 DEF Straight
    <3>2. s[h] \in Int
      BY <1>4, <3>1
    <3> DEFINE b == Next1(Act, FrontOf(s))
    <3>3. Good(b, h - 1) /\ b.locals = Act.locals
      BY <1>5, <1>7, <3>1
    <3>4. [Act.locals EXCEPT ![Ins.n + 1] = s[h]] \in Seq(Int)
      <4>1. Act.locals \in [1 .. Len(Act.locals) -> Int] /\ Len(Act.locals) \in Nat
        BY <1>2, LenProperties
      <4>2. [Act.locals EXCEPT ![Ins.n + 1] = s[h]] \in [1 .. Len(Act.locals) -> Int]
        BY <3>2, <4>1
      <4> QED BY <4>1, <4>2
    <3> HIDE DEF b
    <3>5. a = [b EXCEPT !.locals = [Act.locals EXCEPT ![Ins.n + 1] = s[h]]]
      BY <3>1, <3>3 DEF b, ActSet
    <3>6. takes = 1 /\ gives = 0
      BY <2>3 DEF Takes, Gives
    <3>7. Good(a, h - 1)
      <4> HIDE DEF s, h
      <4> QED BY <3>3, <3>4, <3>5 DEF ActSet
    <3>8. h - 1 + 0 = h - 1
      BY <1>4
    <3> HIDE DEF Good
    <3> QED BY <3>6, <3>7, <3>8
  <2>4. CASE Ins.op = "drop"
    <3>1. a = Next1(Act, FrontOf(s)) /\ h >= 1
      BY <2>4 DEF Straight
    <3>2. takes = 1 /\ gives = 0
      BY <2>4 DEF Takes, Gives
    <3>3. Good(a, h - 1) /\ h - 1 + 0 = h - 1
      BY <1>4, <1>5, <1>7, <3>1
    <3> QED BY <3>2, <3>3
  <2>5. CASE Ins.op = "select"
    <3>1. /\ a = Next1(Act, Append(Keep(s, h - 3), IF s[h] # 0 THEN s[h - 2] ELSE s[h - 1]))
          /\ h >= 3
      BY <2>5 DEF Straight
    <3>2. (IF s[h] # 0 THEN s[h - 2] ELSE s[h - 1]) \in Int /\ h - 3 \in 0 .. h
      <4>1. h - 2 \in 1 .. h /\ h - 1 \in 1 .. h /\ h - 3 \in 0 .. h
        BY <1>4, <3>1
      <4> HIDE DEF s, h
      <4>2. s[h - 2] \in Int /\ s[h - 1] \in Int
        BY <1>4, <4>1
      <4> QED BY <4>1, <4>2
    <3>3. takes = 3 /\ gives = 1
      BY <2>5 DEF Takes, Gives
    <3> DEFINE v == IF s[h] # 0 THEN s[h - 2] ELSE s[h - 1]
               s2 == Append(Keep(s, h - 3), v)
    <3>4. s2 \in Seq(Int) /\ Len(s2) = h - 3 + 1
      <4>1. v \in Int
        BY <3>2
      <4> HIDE DEF s, h, v
      <4> QED BY <1>6, <3>2, <4>1
    <3>5. a = Next1(Act, s2)
      BY <3>1
    <3> HIDE DEF s2
    <3>6. Good(a, Len(s2))
      BY <1>5, <3>4, <3>5
    <3> QED BY <3>3, <3>4, <3>6
  <2>6. CASE Ins.op = "add"
    <3>1. /\ a = Next1(Act, Append(Keep(s, h - 2), (s[h - 1] + s[h]) % Modulus))
          /\ h >= 2
      BY <2>6 DEF Straight
    <3>2. (s[h - 1] + s[h]) % Modulus \in Int /\ h - 2 \in 0 .. h
      <4>1. h - 1 \in 1 .. h /\ h \in 1 .. h /\ h - 2 \in 0 .. h
        BY <1>4, <3>1
      <4> HIDE DEF s, h
      <4>2. s[h - 1] \in Int /\ s[h] \in Int
        BY <1>4, <4>1
      <4>3. \A x, y \in Int : (x + y) % Modulus \in Int
        BY ControlAssumption
      <4> QED BY <4>1, <4>2, <4>3
    <3>3. takes = 2 /\ gives = 1
      BY <2>6 DEF Takes, Gives
    <3>4. Good(a, h - 2 + 1)
      BY <1>5, <1>6, <3>1, <3>2
    <3> QED BY <3>3, <3>4
  <2>7. CASE Ins.op = "eqz"
    <3> DEFINE v == IF s[h] = 0 THEN 1 ELSE 0
    <3>1. a = Next1(Act, Append(FrontOf(s), v)) /\ h >= 1
      BY <2>7 DEF Straight
    <3>2. v \in Int
      OBVIOUS
    <3> HIDE DEF v
    <3>3. takes = 1 /\ gives = 1
      BY <2>7 DEF Takes, Gives
    <3>4. Good(a, h - 1 + 1)
      BY <1>5, <1>7, <3>1, <3>2
    <3> QED BY <3>3, <3>4
  <2>8. CASE Ins.op \in {"unreachable", "call_indirect"}
    BY <2>8 DEF Straight
  <2> QED BY <1>1, <2>1, <2>2, <2>3, <2>4, <2>5, <2>6, <2>7, <2>8
<1> QED BY <1>9

LEMMA StraightLineKeeps ==
    ASSUME CtlInv, StraightLine
    PROVE  CtlInv'
<1>1. /\ InBody /\ InBudget /\ Tick /\ status = "run" /\ Resume(Straight(Act, Ins))
      /\ Ins.op \in {"const", "get", "set", "drop", "select", "add", "eqz", "unreachable", "call_indirect"}
  BY DEF StraightLine, InBody
<1>2. Ins.op \notin Opens \cup {"end"}
  BY <1>1 DEF Opens
<1>3. \A a \in Straight(Act, Ins) :
          a \in ActSet /\ a.fn = Act.fn /\ a.ip = Act.ip + 1 /\ a.frames = Act.frames
  BY StraightOutcomes
<1>4. \A a \in Straight(Act, Ins) : ActOK(entry.code, a)
  BY <1>1, <1>2, <1>3, StepsPast
<1> QED BY <1>1, <1>4, Resumes

(* Into a block, onto its first instruction or past its Else. *)
LEMMA FrameTyped ==
    ASSUME CtlInv, InBody, Ins.op \in Opens, NEW b, b.stack \in Seq(Int)
    PROVE  LET fr == Frame(b, Act.ip)
           IN  /\ fr \in FrameSet /\ fr.end = EndOf(Body, Act.ip)
               /\ fr.loop_start = IF Body[Act.ip].op = "loop" THEN Act.ip ELSE 0
<1>1. Act.ip \in 1 .. Len(Body) /\ Ins = Body[Act.ip] /\ Ins.n \in Nat
  BY TopInstruction DEF Immediate
<1>2. Len(Body) \in Nat /\ Paired(Body) /\ Act.ip \in Openers(Body)
  BY <1>1, Top DEF Openers
<1>3. EndOf(Body, Act.ip) \in Int
  BY <1>2, EndsFound
<1>4. Len(b.stack) \in Nat
  BY LenProperties
<1> QED BY <1>1, <1>3, <1>4 DEF Frame, FrameSet

LEMMA Enters ==
    ASSUME CtlInv, InBody, Ins.op \in Opens, NEW fr \in FrameSet, fr.end = EndOf(Body, Act.ip),
           fr.loop_start = IF Body[Act.ip].op = "loop" THEN Act.ip ELSE 0,
           NEW a \in ActSet, a.fn = Act.fn, a.frames = Append(Act.frames, fr),
           a.ip \in (Act.ip + 1) .. EndOf(Body, Act.ip),
           \A t \in Openers(Body) : Act.ip < t /\ t < a.ip => EndOf(Body, t) < a.ip
    PROVE  ActOK(entry.code, a)
<1>1. Act.ip \in 1 .. Len(Body) /\ Ins = Body[Act.ip]
  BY TopInstruction
<1>2. /\ Len(Body) \in Nat /\ Paired(Body) /\ Body = entry.code[Act.fn].body
      /\ Act.fn \in 1 .. Len(entry.code) /\ Nests(Body, Act.ip, Act.frames)
      /\ Act.frames \in Seq(FrameSet)
  BY Top
<1>3. Act.ip \in Openers(Body)
  BY <1>1 DEF Openers
<1>4. Around(Body, a.ip) = Around(Body, Act.ip) \cup {Act.ip}
  <2> DEFINE x == a.ip
             body == Body
             ip == Act.ip
  <2>1. /\ x \in (ip + 1) .. EndOf(body, ip) /\ ip \in Openers(body)
        /\ \A t \in Openers(body) : ip < t /\ t < x => EndOf(body, t) < x
        /\ Len(body) \in Nat /\ Paired(body)
    BY <1>2, <1>3
  <2> HIDE DEF x, body, ip
  <2>2. Around(body, x) = Around(body, ip) \cup {ip}
    BY <2>1, AroundInside
  <2> QED BY <2>2 DEF x, body, ip
<1>5. PICK st : NestedAt(Body, Act.ip, Act.frames, st)
  BY <1>2 DEF Nests
<1>6. Nests(Body, a.ip, a.frames)
  BY <1>2, <1>3, <1>4, <1>5, NestsPush
<1>7. EndOf(Body, Act.ip) \in (Act.ip + 1) .. Len(Body)
  BY <1>2, <1>3, EndsFound
<1>8. a.ip \in 1 .. (Len(Body) + 1)
  <2> DEFINE i == Act.ip
             e == EndOf(Body, Act.ip)
             x == a.ip
             l == Len(Body)
  <2>1. i \in 1 .. l /\ l \in Nat /\ e \in (i + 1) .. l /\ x \in (i + 1) .. e
    BY <1>1, <1>2, <1>7
  <2> HIDE DEF i, e, x, l
  <2>2. x \in 1 .. (l + 1)
    BY <2>1
  <2> QED BY <2>2 DEF x, l
<1> QED BY <1>2, <1>6, <1>8 DEF ActOK

(* Out of a block, past its End. *)
LEMMA Leaves ==
    ASSUME CtlInv, NEW n \in 1 .. Len(Act.frames), NEW a \in ActSet, a.fn = Act.fn,
           a.frames = Keep(Act.frames, n - 1), a.ip = Act.frames[n].end + 1
    PROVE  ActOK(entry.code, a)
<1>1. /\ Len(Body) \in Nat /\ Paired(Body) /\ Body = entry.code[Act.fn].body
      /\ Act.fn \in 1 .. Len(entry.code) /\ Nests(Body, Act.ip, Act.frames)
      /\ Act.frames \in Seq(FrameSet) /\ Act.ip \in Int
  BY Top
<1>2. PICK st : NestedAt(Body, Act.ip, Act.frames, st)
  BY <1>1 DEF Nests
<1>3. Nests(Body, a.ip, a.frames)
  BY <1>1, <1>2, NestsOut
<1>4. st[n] \in 1 .. Len(Body) /\ Act.frames[n].end \in (st[n] + 1) .. Len(Body)
  BY <1>1, <1>2, NestedTyped
<1>5. a.ip \in 1 .. (Len(Body) + 1)
  <2> DEFINE e == Act.frames[n].end
             l == Len(Body)
  <2>1. e \in 1 .. l /\ l \in Nat
    BY <1>1, <1>4
  <2>2. a.ip = e + 1
    OBVIOUS
  <2> HIDE DEF e, l
  <2>3. e + 1 \in 1 .. (l + 1)
    BY <2>1
  <2> QED BY <2>2, <2>3 DEF l
<1> QED BY <1>1, <1>3, <1>5 DEF ActOK

(* Where a branch or the end of a block leads, and what it leaves.         *)
Lands(a) ==
    \E n \in 1 .. Len(Act.frames) :
        LET fr == Act.frames[n]
        IN  \/ /\ fr.loop_start # 0 /\ a.ip = fr.loop_start + 1
               /\ a.frames = Keep(Act.frames, n) /\ Len(a.stack) = fr.height
            \/ /\ a.ip = fr.end + 1
               /\ a.frames = Keep(Act.frames, n - 1) /\ Len(a.stack) = fr.height + fr.arity

Settled(a) == ActOK(entry.code, a) /\ a \in ActSet /\ a.fn = Act.fn /\ Lands(a)
Settles == Bail \/ \E a : Settled(a) /\ Continue(a)

LEMMA ResumeSettles ==
    ASSUME NEW outcomes, Resume(outcomes), \A a \in outcomes : Settled(a)
    PROVE  Settles
BY DEF Resume, Settles

LEMMA SettlesKeeps ==
    ASSUME CtlInv, status = "run", InBudget, Tick, Settles
    PROVE  CtlInv'
BY Continues, Bails DEF Settles, Settled

(* dk_branch, from the activation after any operand was popped. *)
LEMMA BranchLands ==
    ASSUME CtlInv, NEW b \in ActSet, b.fn = Act.fn, b.frames = Act.frames, NEW depth \in Nat,
           NEW a \in BranchTo(b, depth)
    PROVE  Settled(a)
<1>1. /\ Len(Body) \in Nat /\ Paired(Body) /\ Body = entry.code[Act.fn].body
      /\ Act.fn \in 1 .. Len(entry.code) /\ Nests(Body, Act.ip, Act.frames)
      /\ Act.frames \in Seq(FrameSet) /\ Act.ip \in Int
  BY Top
<1>2. PICK st : NestedAt(Body, Act.ip, Act.frames, st)
  BY <1>1 DEF Nests
<1>3. b.stack \in Seq(Int) /\ Len(Act.frames) \in Nat /\ Len(b.stack) \in Nat
  BY <1>1, LenProperties DEF ActSet
<1> DEFINE at == Len(b.frames) - depth
           fr == Act.frames[at]
           onward == [b EXCEPT !.stack = Keep(@, fr.height) \o Results(@, fr.arity),
                               !.frames = Keep(@, at - 1), !.ip = fr.end + 1]
           again == [b EXCEPT !.stack = Keep(@, fr.height), !.frames = Keep(@, at),
                              !.ip = fr.loop_start + 1]
<1>4. at \in Int /\ at <= Len(Act.frames)
  BY <1>3
<1>5. /\ ~(at < 1)
      /\ \/ fr.loop_start # 0 /\ ~(Len(b.stack) < fr.height) /\ a = again
         \/ fr.loop_start = 0 /\ ~(Len(b.stack) < fr.height + fr.arity) /\ a = onward
  BY DEF BranchTo
<1> HIDE DEF at
<1>6. at \in 1 .. Len(Act.frames) /\ at \in 0 .. Len(Act.frames) /\ at - 1 \in 0 .. Len(Act.frames)
  BY <1>3, <1>4, <1>5
<1>7. /\ fr \in FrameSet /\ fr.arity \in Nat /\ fr.height \in Nat /\ fr.end \in Int
      /\ fr.loop_start \in Int
  <2>1. fr \in FrameSet
    BY <1>1, <1>6, ElementOfSeq
  <2> QED BY <2>1 DEF FrameSet
<1>8. st[at] \in 1 .. Len(Body) /\ fr.loop_start = IF Body[st[at]].op = "loop" THEN st[at] ELSE 0
  <2>1. st[at] \in 1 .. Len(Body)
    BY <1>1, <1>2, <1>6, NestedTyped
  <2> QED BY <1>2, <1>6, <2>1 DEF NestedAt
<1>9. Keep(Act.frames, at) \in Seq(FrameSet) /\ Keep(Act.frames, at - 1) \in Seq(FrameSet)
  BY <1>1, <1>6, KeepTyped
<1>10. CASE fr.loop_start # 0
  <2> DEFINE s2 == Keep(b.stack, fr.height)
             f2 == Keep(b.frames, at)
             ip2 == fr.loop_start + 1
  <2>1. a = [b EXCEPT !.stack = s2, !.frames = f2, !.ip = ip2]
    BY <1>5, <1>10
  <2>2. s2 \in Seq(Int) /\ Len(s2) = fr.height
    <3>1. fr.height \in 0 .. Len(b.stack) /\ b.stack \in Seq(Int)
      <4> HIDE DEF onward, again, s2, f2, ip2
      <4> QED BY <1>3, <1>5, <1>7, <1>10
    <3> HIDE DEF onward, again
    <3> QED BY <3>1, KeepTyped
  <2>3. f2 \in Seq(FrameSet) /\ f2 = Keep(Act.frames, at)
    BY <1>9
  <2>4. ip2 = st[at] + 1 /\ ip2 \in 1 .. (Len(Body) + 1)
    <3>1. fr.loop_start = st[at]
      BY <1>8, <1>10
    <3>2. ip2 = st[at] + 1
      BY <3>1
    <3>3. st[at] \in 1 .. Len(Body) /\ Len(Body) \in Nat
      BY <1>1, <1>8
    <3>4. st[at] + 1 \in 1 .. (Len(Body) + 1)
      BY <3>3
    <3> HIDE DEF ip2
    <3> QED BY <3>2, <3>4
  <2> HIDE DEF s2, f2, ip2
  <2>5. ip2 \in Int
    BY <1>1, <2>4
  <2>6. a \in ActSet /\ a.fn = Act.fn /\ a.ip = ip2 /\ a.frames = f2 /\ a.stack = s2
    BY <2>1, <2>2, <2>3, <2>5 DEF ActSet
  <2>7. Nests(Body, st[at] + 1, Keep(Act.frames, at))
    BY <1>1, <1>2, <1>6, NestsAgain
  <2>8. ip2 = fr.loop_start + 1
    BY DEF ip2
  <2>9. Lands(a)
    BY <1>6, <1>10, <2>2, <2>3, <2>6, <2>8 DEF Lands
  <2> QED BY <1>1, <2>3, <2>4, <2>6, <2>7, <2>9 DEF ActOK, Settled
<1>11. CASE fr.loop_start = 0
  <2> DEFINE s2 == Keep(b.stack, fr.height) \o Results(b.stack, fr.arity)
             f2 == Keep(b.frames, at - 1)
             ip2 == fr.end + 1
  <2>1. a = [b EXCEPT !.stack = s2, !.frames = f2, !.ip = ip2]
    BY <1>5, <1>11
  <2>2. s2 \in Seq(Int) /\ Len(s2) = fr.height + fr.arity
    <3>1. fr.height + fr.arity <= Len(b.stack)
      <4> DEFINE l == Len(b.stack)
                 x == fr.height
                 y == fr.arity
      <4>1. l \in Nat /\ x \in Nat /\ y \in Nat /\ ~ (l < x + y)
        <5> HIDE DEF onward, again, s2, f2, ip2
        <5> QED BY <1>3, <1>5, <1>7, <1>11
      <4> HIDE DEF l, x, y
      <4>2. x + y <= l
        BY <4>1
      <4> QED BY <4>2 DEF l, x, y
    <3> DEFINE x == b.stack
               height == fr.height
               arity == fr.arity
    <3>2. x \in Seq(Int) /\ height \in Nat /\ arity \in Nat /\ height + arity <= Len(x)
      BY <1>3, <1>7, <3>1
    <3> HIDE DEF x, height, arity
    <3>3. /\ Keep(x, height) \o Results(x, arity) \in Seq(Int)
          /\ Len(Keep(x, height) \o Results(x, arity)) = height + arity
      BY <3>2, KeptTyped
    <3> QED BY <3>3 DEF x, height, arity
  <2>3. f2 \in Seq(FrameSet) /\ f2 = Keep(Act.frames, at - 1)
    BY <1>9
  <2>4. ip2 \in Int /\ ip2 = Act.frames[at].end + 1
    BY <1>7
  <2> HIDE DEF s2, f2, ip2
  <2>5. a \in ActSet /\ a.fn = Act.fn /\ a.ip = ip2 /\ a.frames = f2 /\ a.stack = s2
    BY <2>1, <2>2, <2>3, <2>4 DEF ActSet
  <2>6. Lands(a)
    BY <1>6, <2>2, <2>3, <2>4, <2>5 DEF Lands
  <2> QED BY <1>6, <2>3, <2>4, <2>5, <2>6, Leaves DEF Settled
<1> QED BY <1>5, <1>10, <1>11

(* dk_exit_block, then past the End. *)
LEMMA ExitLands ==
    ASSUME CtlInv, Len(Act.frames) >= 1, NEW b \in ExitBlock(Act, LastOf(Act.frames)), NEW ip \in Int,
           ip = LastOf(Act.frames).end + 1
    PROVE  Settled([b EXCEPT !.ip = ip])
<1> DEFINE n == Len(Act.frames)
           fr == LastOf(Act.frames)
           s2 == Keep(Act.stack, fr.height) \o Results(Act.stack, fr.arity)
           f2 == FrontOf(Act.frames)
           a == [b EXCEPT !.ip = ip]
<1>1. Act \in ActSet /\ Act.stack \in Seq(Int) /\ Act.frames \in Seq(FrameSet)
  BY Top
<1>2. n \in Nat /\ n \in 1 .. n /\ fr = Act.frames[n] /\ fr \in FrameSet /\ f2 \in Seq(FrameSet)
  BY <1>1, FrontTyped DEF LastOf
<1>3. fr.height \in Nat /\ fr.arity \in Nat /\ f2 = Keep(Act.frames, n - 1)
  BY <1>2 DEF FrameSet, FrontOf, Keep
<1>4. Len(Act.stack) \in Nat
  BY <1>1, LenProperties
<1>5. Len(Act.stack) >= fr.height + fr.arity /\ b = [Act EXCEPT !.stack = s2, !.frames = f2]
  BY <1>3, <1>4 DEF ExitBlock
<1>6. s2 \in Seq(Int) /\ Len(s2) = fr.height + fr.arity
  BY <1>1, <1>3, <1>4, <1>5, KeptTyped
<1>7. a = [Act EXCEPT !.stack = s2, !.frames = f2, !.ip = ip]
  BY <1>5
<1> HIDE DEF s2, f2, a
<1>8. a \in ActSet /\ a.fn = Act.fn /\ a.ip = ip /\ a.frames = f2 /\ a.stack = s2
  BY <1>1, <1>2, <1>6, <1>7 DEF ActSet
<1>9. a.ip = Act.frames[n].end + 1 /\ a.frames = Keep(Act.frames, n - 1)
  BY <1>2, <1>3, <1>8
<1>10. ActOK(entry.code, a)
  BY <1>2, <1>8, <1>9, Leaves
<1>11. Lands(a)
  BY <1>2, <1>6, <1>8, <1>9 DEF Lands
<1>12. Settled(a)
  BY <1>8, <1>10, <1>11 DEF Settled
<1> QED BY <1>12 DEF a

LEMMA EnterBlockKeeps ==
    ASSUME CtlInv, EnterBlock
    PROVE  CtlInv'
<1> DEFINE fr == Frame(Act, Act.ip)
           f2 == Append(Act.frames, fr)
           ip2 == Act.ip + 1
           a == [Act EXCEPT !.ip = ip2, !.frames = f2]
<1>1. /\ InBody /\ InBudget /\ Tick /\ status = "run" /\ Ins.op \in Opens
      /\ Bail \/ Continue(a)
  BY DEF EnterBlock, InBody, Opens
<1>2. Act \in ActSet /\ Act.stack \in Seq(Int) /\ Act.frames \in Seq(FrameSet) /\ Act.ip \in Int
  BY Top
<1>3. /\ fr \in FrameSet /\ fr.end = EndOf(Body, Act.ip)
      /\ fr.loop_start = IF Body[Act.ip].op = "loop" THEN Act.ip ELSE 0
  BY <1>1, <1>2, FrameTyped
<1> HIDE DEF fr
<1>4. f2 \in Seq(FrameSet) /\ ip2 \in Int
  BY <1>2, <1>3, AppendTyped
<1>5. ip2 \in (Act.ip + 1) .. EndOf(Body, Act.ip)
  <2>1. Len(Body) \in Nat /\ Paired(Body) /\ Act.ip \in Openers(Body)
    BY <1>1, Top, TopInstruction DEF Openers
  <2>2. EndOf(Body, Act.ip) \in (Act.ip + 1) .. Len(Body)
    BY <2>1, EndsFound
  <2> QED BY <1>2, <2>2
<1>6. \A t \in Openers(Body) : Act.ip < t /\ t < ip2 => EndOf(Body, t) < ip2
  <2>1. \A t \in Openers(Body) : ~(Act.ip < t /\ t < Act.ip + 1)
    BY <1>2 DEF Openers
  <2> QED BY <2>1
<1> HIDE DEF ip2
<1>7. a \in ActSet /\ a.fn = Act.fn /\ a.frames = Append(Act.frames, fr) /\ a.ip = ip2
  <2>1. f2 = Append(Act.frames, fr)
    OBVIOUS
  <2> HIDE DEF f2
  <2> QED BY <1>2, <1>4, <2>1 DEF ActSet
<1> HIDE DEF a
<1>8. ActOK(entry.code, a)
  BY <1>1, <1>3, <1>5, <1>6, <1>7, Enters
<1> QED BY <1>1, <1>8, Continues, Bails

LEMMA EnterIfKeeps ==
    ASSUME CtlInv, EnterIf
    PROVE  CtlInv'
<1> DEFINE s2 == FrontOf(Act.stack)
           b == [Act EXCEPT !.stack = s2]
           els == ElseOf(Body, Act.ip)
           end == EndOf(Body, Act.ip)
           fr == Frame(b, Act.ip)
           framed(ip) == [b EXCEPT !.ip = ip, !.frames = Append(b.frames, fr)]
           skipped == [b EXCEPT !.ip = end + 1]
<1>1. InBody /\ InBudget /\ Tick /\ status = "run" /\ Ins.op \in Opens /\ Ins.op = "if"
  BY DEF EnterIf, InBody, Opens
<1>2. \/ Bail
      \/ /\ Act.stack # <<>>
         /\ \/ Continue(framed(Act.ip + 1))
            \/ els # 0 /\ Continue(framed(els + 1))
            \/ Continue(skipped)
  BY DEF EnterIf
<1>3. /\ Act \in ActSet /\ Act.stack \in Seq(Int) /\ Act.frames \in Seq(FrameSet) /\ Act.ip \in Int
      /\ Len(Body) \in Nat /\ Paired(Body) /\ Body = entry.code[Act.fn].body
      /\ Act.fn \in 1 .. Len(entry.code) /\ Nests(Body, Act.ip, Act.frames)
  BY Top
<1>4. Act.ip \in 1 .. Len(Body) /\ Act.ip \in Openers(Body)
  BY <1>1, TopInstruction DEF Openers
<1>5. end \in (Act.ip + 1) .. Len(Body) /\ end \in Int
  BY <1>3, <1>4, EndsFound
<1>6. CASE Bail
  BY <1>1, <1>6, Bails
<1> SUFFICES ASSUME Act.stack # <<>> PROVE CtlInv'
  BY <1>2, <1>6
<1>7. /\ b \in ActSet /\ b.fn = Act.fn /\ b.ip = Act.ip /\ b.frames = Act.frames
      /\ b.stack \in Seq(Int)
  <2>1. Len(Act.stack) >= 1
    BY <1>3, EmptySeq
  <2>2. s2 \in Seq(Int)
    BY <1>3, <2>1, FrontTyped
  <2> HIDE DEF s2
  <2> QED BY <1>3, <2>2 DEF ActSet
<1> HIDE DEF b
<1>8. /\ fr \in FrameSet /\ fr.end = end
      /\ fr.loop_start = IF Body[Act.ip].op = "loop" THEN Act.ip ELSE 0
  BY <1>1, <1>7, FrameTyped
<1> HIDE DEF fr
<1>9. ASSUME NEW ip \in (Act.ip + 1) .. end,
             \A t \in Openers(Body) : Act.ip < t /\ t < ip => EndOf(Body, t) < ip
      PROVE  ActOK(entry.code, framed(ip))
  <2> DEFINE f2 == Append(b.frames, fr)
             a == framed(ip)
  <2>1. f2 \in Seq(FrameSet) /\ f2 = Append(Act.frames, fr)
    BY <1>3, <1>7, <1>8, AppendTyped
  <2>2. a = [b EXCEPT !.ip = ip, !.frames = f2] /\ ip \in Int
    BY <1>3, <1>5
  <2> HIDE DEF a, f2
  <2>3. a \in ActSet /\ a.fn = Act.fn /\ a.frames = f2 /\ a.ip = ip
    BY <1>7, <2>1, <2>2 DEF ActSet
  <2>4. ActOK(entry.code, a)
    BY <1>1, <1>8, <1>9, <2>1, <2>3, Enters
  <2> QED BY <2>4 DEF a
<1>10. ActOK(entry.code, framed(Act.ip + 1))
  <2> DEFINE ip2 == Act.ip + 1
  <2>1. ip2 \in (Act.ip + 1) .. end
    BY <1>3, <1>5
  <2>2. \A t \in Openers(Body) : ~(Act.ip < t /\ t < ip2)
    BY <1>3 DEF Openers
  <2> HIDE DEF ip2, framed
  <2>3. ActOK(entry.code, framed(ip2))
    BY <1>9, <2>1, <2>2
  <2> QED BY <2>3 DEF ip2
<1>11. ASSUME els # 0 PROVE ActOK(entry.code, framed(els + 1))
  <2> DEFINE ip2 == els + 1
  <2>1. /\ ip2 \in (Act.ip + 1) .. end
        /\ \A t \in Openers(Body) : Act.ip < t /\ t < ip2 => EndOf(Body, t) < ip2
    BY <1>3, <1>4, <1>11, ElseFound
  <2> HIDE DEF ip2, framed
  <2>2. ActOK(entry.code, framed(ip2))
    BY <1>9, <2>1
  <2> QED BY <2>2 DEF ip2
<1>12. ActOK(entry.code, skipped)
  <2> DEFINE a == skipped
             ip2 == end + 1
  <2>1. ip2 \in Int /\ ip2 \in 1 .. (Len(Body) + 1)
    <3> DEFINE l == Len(Body)
               ip == Act.ip
    <3>1. l \in Nat /\ ip \in 1 .. l /\ end \in (ip + 1) .. l
      BY <1>3, <1>4, <1>5
    <3> HIDE DEF l, ip, end
    <3>2. end + 1 \in Int /\ end + 1 \in 1 .. (l + 1)
      BY <3>1
    <3> QED BY <3>2 DEF l
  <2>2. Nests(Body, ip2, Act.frames)
    BY <1>3, <1>4, NestsPast
  <2>3. a = [b EXCEPT !.ip = ip2]
    OBVIOUS
  <2> HIDE DEF ip2, a
  <2>4. a \in ActSet /\ a.fn = Act.fn /\ a.frames = Act.frames /\ a.ip = ip2
    BY <1>7, <2>1, <2>3 DEF ActSet
  <2>5. ActOK(entry.code, a)
    BY <1>3, <2>1, <2>2, <2>4 DEF ActOK
  <2> QED BY <2>5 DEF a
<1> HIDE DEF framed, skipped, els
<1> QED BY <1>1, <1>2, <1>6, <1>10, <1>11, <1>12, Continues

LEMMA LeaveThenSettles ==
    ASSUME CtlInv, LeaveThen
    PROVE  Settles
<1> DEFINE fr == LastOf(Act.frames)
           outcomes == {[b EXCEPT !.ip = fr.end + 1] : b \in ExitBlock(Act, fr)}
<1>1. Bail \/ (Act.frames # <<>> /\ Resume(outcomes))
  BY DEF LeaveThen
<1>2. CASE Bail
  BY <1>2 DEF Settles
<1>3. CASE Act.frames # <<>> /\ Resume(outcomes)
  <2>1. Act.frames \in Seq(FrameSet) /\ Len(Act.frames) >= 1
    BY <1>3, Top, EmptySeq
  <2>2. fr.end + 1 \in Int
    <3>1. fr \in FrameSet
      BY <2>1, FrontTyped
    <3> QED BY <3>1 DEF FrameSet
  <2>3. \A b \in ExitBlock(Act, fr) : Settled([b EXCEPT !.ip = fr.end + 1])
    BY <2>1, <2>2, ExitLands
  <2>4. \A a \in outcomes : Settled(a)
    BY <2>3
  <2> HIDE DEF outcomes
  <2> QED BY <1>3, <2>4, ResumeSettles
<1> QED BY <1>1, <1>2, <1>3

LEMMA LeaveBlockSettles ==
    ASSUME CtlInv, LeaveBlock
    PROVE  Settles
<1> DEFINE fr == LastOf(Act.frames)
           outcomes == {[b EXCEPT !.ip = @ + 1] : b \in ExitBlock(Act, fr)}
           n == Len(Act.frames)
<1>1. InBody /\ Act.frames # <<>> /\ Ins.op = "end" /\ Resume(outcomes)
  BY DEF LeaveBlock
<1>2. /\ Act.frames \in Seq(FrameSet) /\ Len(Body) \in Nat /\ Paired(Body) /\ Act.ip \in Int
      /\ Nests(Body, Act.ip, Act.frames) /\ Act \in ActSet
  BY Top
<1>3. Act.ip \in 1 .. Len(Body) /\ Body[Act.ip].op = "end"
  BY <1>1, TopInstruction
<1>4. n \in Nat /\ n >= 1 /\ n \in 1 .. n
  BY <1>1, <1>2, EmptySeq
<1>5. PICK st : NestedAt(Body, Act.ip, Act.frames, st)
  BY <1>2 DEF Nests
<1>6. \A i \in 1 .. n : st[i] \in Around(Body, Act.ip) /\ st[i] \in Int
  BY <1>2, <1>5, NestedTyped
<1>7. \A s \in Around(Body, Act.ip) : s <= st[n]
  <2>1. TAKE s \in Around(Body, Act.ip)
  <2>2. PICK i \in 1 .. n : st[i] = s
    BY <1>5 DEF NestedAt
  <2>3. i < n => st[i] < st[n]
    BY <1>4, <1>5 DEF NestedAt
  <2> QED BY <1>4, <1>6, <2>2, <2>3
<1>8. EndOf(Body, st[n]) = Act.ip
  BY <1>2, <1>3, <1>4, <1>6, <1>7, EndOfInnermost
<1>9. fr.end = Act.ip
  <2>1. Act.frames[n].end = EndOf(Body, st[n])
    BY <1>4, <1>5 DEF NestedAt
  <2> QED BY <1>8, <2>1 DEF LastOf
<1>10. ASSUME NEW b \in ExitBlock(Act, fr) PROVE b.ip = Act.ip
  <2>1. b = [Act EXCEPT !.stack = Keep(@, fr.height) \o Results(@, fr.arity), !.frames = FrontOf(@)]
    BY <1>10 DEF ExitBlock
  <2> QED BY <1>2, <2>1 DEF ActSet
<1>11. fr.end + 1 \in Int /\ Act.ip + 1 = fr.end + 1
  BY <1>2, <1>9
<1>12. \A b \in ExitBlock(Act, fr) : Settled([b EXCEPT !.ip = fr.end + 1])
  BY <1>4, <1>11, ExitLands
<1>13. \A a \in outcomes : Settled(a)
  <2>1. TAKE a \in outcomes
  <2>2. PICK b \in ExitBlock(Act, fr) : a = [b EXCEPT !.ip = b.ip + 1]
    OBVIOUS
  <2>3. a = [b EXCEPT !.ip = fr.end + 1]
    BY <1>10, <1>11, <2>2
  <2> QED BY <1>12, <2>3
<1> HIDE DEF outcomes
<1> QED BY <1>1, <1>13, ResumeSettles

LEMMA BranchSettles ==
    ASSUME CtlInv, Branch
    PROVE  Settles
<1>1. InBody /\ Ins.op = "br" /\ Resume(BranchTo(Act, Ins.n))
  BY DEF Branch
<1>2. Ins.n \in Nat
  BY <1>1, TopInstruction DEF Immediate
<1>3. Act \in ActSet
  BY Top
<1>4. \A a \in BranchTo(Act, Ins.n) : Settled(a)
  BY <1>2, <1>3, BranchLands
<1> QED BY <1>1, <1>4, ResumeSettles

(* The activation once br_if or br_table has popped its operand. *)
LEMMA Popped ==
    ASSUME CtlInv, Act.stack # <<>>
    PROVE  LET b == [Act EXCEPT !.stack = FrontOf(Act.stack)]
           IN  /\ b \in ActSet /\ b.fn = Act.fn /\ b.ip = Act.ip /\ b.frames = Act.frames
               /\ Len(b.stack) = Len(Act.stack) - 1
<1> DEFINE s2 == FrontOf(Act.stack)
<1>1. Act \in ActSet /\ Act.stack \in Seq(Int) /\ Len(Act.stack) >= 1
  BY Top, EmptySeq
<1>2. s2 \in Seq(Int) /\ Len(s2) = Len(Act.stack) - 1
  BY <1>1, FrontTyped
<1> HIDE DEF s2
<1>3. LET b == [Act EXCEPT !.stack = s2]
      IN  /\ b \in ActSet /\ b.fn = Act.fn /\ b.ip = Act.ip /\ b.frames = Act.frames
          /\ Len(b.stack) = Len(Act.stack) - 1
  BY <1>1, <1>2 DEF ActSet
<1> QED BY <1>3 DEF s2

(* A br_if not taken moves past itself. *)
Untaken(a) ==
    /\ ActOK(entry.code, a) /\ a \in ActSet /\ a.fn = Act.fn /\ a.ip = Act.ip + 1
    /\ a.frames = Act.frames /\ Len(a.stack) = Len(Act.stack) - 1

LEMMA BranchIfSettles ==
    ASSUME CtlInv, BranchIf
    PROVE  Settles \/ \E a : Untaken(a) /\ Continue(a)
<1> DEFINE b == [Act EXCEPT !.stack = FrontOf(Act.stack)]
           a == [b EXCEPT !.ip = b.ip + 1]
<1>1. /\ InBody /\ Ins.op = "br_if"
      /\ Bail \/ (Act.stack # <<>> /\ (Resume(BranchTo(b, Ins.n)) \/ Continue(a)))
  BY DEF BranchIf
<1>2. CASE Bail
  BY <1>2 DEF Settles
<1> SUFFICES ASSUME Act.stack # <<>> PROVE Settles \/ \E c : Untaken(c) /\ Continue(c)
  BY <1>1, <1>2
<1>3. /\ b \in ActSet /\ b.fn = Act.fn /\ b.ip = Act.ip /\ b.frames = Act.frames
      /\ Len(b.stack) = Len(Act.stack) - 1
  BY Popped
<1> HIDE DEF b
<1>4. Ins.n \in Nat /\ Ins.op \notin Opens \cup {"end"}
  BY <1>1, TopInstruction DEF Immediate, Opens
<1>5. \A c \in BranchTo(b, Ins.n) : Settled(c)
  BY <1>3, <1>4, BranchLands
<1>6. /\ a \in ActSet /\ a.fn = Act.fn /\ a.ip = Act.ip + 1 /\ a.frames = Act.frames
      /\ Len(a.stack) = Len(Act.stack) - 1
  <2> DEFINE ip2 == b.ip + 1
  <2>1. ip2 \in Int /\ a = [b EXCEPT !.ip = ip2] /\ ip2 = Act.ip + 1
    BY <1>3 DEF ActSet
  <2> HIDE DEF ip2, a
  <2> QED BY <1>3, <2>1 DEF ActSet
<1> HIDE DEF a
<1>7. ActOK(entry.code, a)
  BY <1>1, <1>4, <1>6, StepsPast
<1>8. Untaken(a)
  BY <1>6, <1>7 DEF Untaken
<1> QED BY <1>1, <1>2, <1>5, <1>8, ResumeSettles

LEMMA BranchTableSettles ==
    ASSUME CtlInv, BranchTable
    PROVE  Settles
<1> DEFINE b == [Act EXCEPT !.stack = FrontOf(Act.stack)]
           idx == LastOf(Act.stack) + 1
           depth == IF idx \in DOMAIN Ins.n[1] THEN Ins.n[1][idx] ELSE Ins.n[2]
<1>1. /\ InBody /\ Ins.op = "br_table"
      /\ Bail \/ (Act.stack # <<>> /\ Resume(BranchTo(b, depth)))
  BY DEF BranchTable
<1>2. CASE Bail
  BY <1>2 DEF Settles
<1> SUFFICES ASSUME Act.stack # <<>> PROVE Settles
  BY <1>1, <1>2
<1>3. b \in ActSet /\ b.fn = Act.fn /\ b.ip = Act.ip /\ b.frames = Act.frames
  BY Popped
<1>4. depth \in Nat
  BY <1>1, TopInstruction DEF Immediate
<1> HIDE DEF b, depth
<1>5. \A c \in BranchTo(b, depth) : Settled(c)
  BY <1>3, <1>4, BranchLands
<1> QED BY <1>1, <1>2, <1>5, ResumeSettles

LEMMA JumpsKeep ==
    ASSUME CtlInv, LeaveThen \/ LeaveBlock \/ Branch \/ BranchIf \/ BranchTable
    PROVE  CtlInv'
<1>1. status = "run" /\ InBudget /\ Tick
  BY DEF LeaveThen, LeaveBlock, Branch, BranchIf, BranchTable, InBody
<1>2. Settles \/ \E a : Untaken(a) /\ Continue(a)
  BY LeaveThenSettles, LeaveBlockSettles, BranchSettles, BranchIfSettles, BranchTableSettles
<1> QED BY <1>1, <1>2, SettlesKeeps, Continues DEF Untaken

LEMMA CallKeeps ==
    ASSUME CtlInv, Call
    PROVE  CtlInv'
<1> DEFINE fn == Ins.n
           n == Code[fn].params
           s2 == Keep(Act.stack, Len(Act.stack) - n)
           caller == [Act EXCEPT !.stack = s2]
           locals == Results(Act.stack, n) \o Zeros(Code[fn].extra)
           callee == Activation(fn, locals)
           below == Append(FrontOf(acts), caller)
<1>1. /\ InBody /\ InBudget /\ Tick /\ status = "run" /\ Ins.op = "call"
  BY DEF Call, InBody
<1>2. \/ Bail
      \/ /\ ~(Len(Act.stack) < n) /\ ~(Len(acts) > MaxDepth)
         /\ acts' = Append(below, callee) /\ UNCHANGED <<entry, status, result>>
  BY DEF Call
<1>3. CASE Bail
  BY <1>1, <1>3, Bails
<1> SUFFICES ASSUME ~(Len(Act.stack) < n), ~(Len(acts) > MaxDepth),
                    acts' = Append(below, callee), UNCHANGED <<entry, status, result>>
             PROVE  CtlInv'
  BY <1>2, <1>3
<1>4. /\ acts \in Seq(ActSet) /\ Len(acts) \in Nat /\ Len(acts) >= 1 /\ Act = acts[Len(acts)]
      /\ ActOK(entry.code, Act) /\ Act \in ActSet /\ Act.stack \in Seq(Int)
      /\ Body = entry.code[Act.fn].body
  BY Top
<1>5. Validated(entry) /\ fn \in 1 .. Len(entry.code) /\ Code = entry.code
  BY <1>1, TopInstruction DEF CtlInv, Immediate, Code
<1>6. n \in Nat /\ Code[fn].extra \in Nat
  BY <1>5 DEF Validated, Function
<1>7. s2 \in Seq(Int) /\ locals \in Seq(Int)
  <2>1. Len(Act.stack) \in Nat
    BY <1>4, LenProperties
  <2>2. n \in 0 .. Len(Act.stack) /\ Len(Act.stack) - n \in 0 .. Len(Act.stack)
    BY <1>6, <2>1
  <2>3. Results(Act.stack, n) \in Seq(Int) /\ s2 \in Seq(Int)
    BY <1>4, <2>2, KeepTyped, ResultsTyped
  <2>4. Zeros(Code[fn].extra) \in Seq(Int)
    BY <1>6 DEF Zeros
  <2> QED BY <2>3, <2>4, ConcatProperties
<1> HIDE DEF s2, locals
<1>8. callee \in ActSet /\ ActOK(entry.code, callee)
  BY <1>5, <1>7, Activated DEF ActOK
<1>9. /\ caller \in ActSet /\ caller.fn = Act.fn /\ caller.ip = Act.ip
      /\ caller.frames = Act.frames
  BY <1>4, <1>7 DEF ActSet
<1> HIDE DEF callee, caller
<1>10. ActOK(entry.code, caller) /\ Calling(entry.code, caller)
  <2>1. Act.ip \in 1 .. Len(Body) /\ Body[Act.ip].op = "call"
    BY <1>1, TopInstruction
  <2>2. ActOK(entry.code, caller)
    BY <1>4, <1>9 DEF ActOK
  <2>3. Calling(entry.code, caller)
    BY <1>4, <1>9, <2>1 DEF Calling
  <2> QED BY <2>2, <2>3
<1>11. /\ below \in Seq(ActSet) /\ Len(below) = Len(acts) /\ below[Len(acts)] = caller
       /\ \A i \in 1 .. (Len(acts) - 1) : below[i] = acts[i]
  BY <1>4, <1>9, Replaced
<1> HIDE DEF below
<1>12. /\ acts' \in Seq(ActSet) /\ Len(acts') = Len(acts) + 1 /\ acts'[Len(acts) + 1] = callee
       /\ \A i \in 1 .. Len(acts) : acts'[i] = below[i]
  BY <1>8, <1>11, AppendTyped
<1>13. \A k \in 1 .. Len(acts) : ActOK(entry.code, acts'[k]) /\ Calling(entry.code, acts'[k])
  <2>1. TAKE k \in 1 .. Len(acts)
  <2>2. CASE k = Len(acts)
    BY <1>4, <1>10, <1>11, <1>12, <2>2
  <2>3. CASE k # Len(acts)
    <3>1. k \in 1 .. (Len(acts) - 1)
      BY <1>4, <2>3
    <3> QED BY <1>11, <1>12, <3>1 DEF CtlInv
  <2> QED BY <2>2, <2>3
<1>14. \A k \in 1 .. Len(acts') : ActOK(entry'.code, acts'[k])
  <2>1. TAKE k \in 1 .. Len(acts')
  <2>2. k = Len(acts) + 1 \/ k \in 1 .. Len(acts)
    BY <1>4, <1>12
  <2> QED BY <1>8, <1>12, <1>13, <2>2
<1>15. \A k \in 1 .. (Len(acts') - 1) : Calling(entry'.code, acts'[k])
  <2>1. Len(acts') - 1 = Len(acts)
    BY <1>4, <1>12
  <2> QED BY <1>13, <2>1
<1>16. Len(acts') \in 1 .. (MaxDepth + 1)
  BY <1>4, <1>12, ControlAssumption
<1>17. steps' \in Nat /\ steps' <= MaxSteps /\ steps' <= MaxSteps + 1 /\ status' = status
  BY <1>1, ControlAssumption DEF CtlInv, Tick, InBudget
<1>18. Validated(entry') /\ status' \in {"run", "done", "bail"}
  BY <1>1, <1>5, <1>17
<1> QED BY <1>12, <1>14, <1>15, <1>16, <1>17, <1>18 DEF CtlInv

LEMMA ReturnKeeps ==
    ASSUME CtlInv, Return
    PROVE  CtlInv'
<1> DEFINE arity == Code[Act.fn].arity
           answer == Results(Act.stack, arity)
           callers == FrontOf(acts)
           c == LastOf(callers)
           a == Next1(c, c.stack \o answer)
<1>1. status = "run" /\ InBudget /\ Tick
  BY DEF Return
<1>2. \/ Bail
      \/ /\ ~(Len(Act.stack) < arity)
         /\ \/ status' = "done" /\ UNCHANGED <<entry, acts>>
            \/ /\ Len(acts) # 1 /\ acts' = Append(FrontOf(callers), a)
               /\ UNCHANGED <<entry, status, result>>
  BY DEF Return
<1>3. CASE Bail
  BY <1>1, <1>3, Bails
<1>4. CASE status' = "done" /\ UNCHANGED <<entry, acts>>
  BY <1>1, <1>4, ControlAssumption DEF CtlInv, Tick, InBudget
<1> SUFFICES ASSUME ~(Len(Act.stack) < arity), Len(acts) # 1, acts' = Append(FrontOf(callers), a),
                    UNCHANGED <<entry, status, result>>
             PROVE  CtlInv'
  BY <1>2, <1>3, <1>4
<1>5. /\ acts \in Seq(ActSet) /\ Len(acts) \in Nat /\ Len(acts) >= 2
      /\ Act.stack \in Seq(Int) /\ Act.fn \in 1 .. Len(entry.code)
  <2>1. /\ acts \in Seq(ActSet) /\ Len(acts) \in Nat /\ Len(acts) >= 1
        /\ Act.stack \in Seq(Int) /\ Act.fn \in 1 .. Len(entry.code)
    BY Top
  <2> DEFINE l == Len(acts)
  <2>2. l \in Nat /\ l >= 1 /\ l # 1
    BY <2>1
  <2> HIDE DEF l
  <2>3. l >= 2
    BY <2>2
  <2> QED BY <2>1, <2>3 DEF l
<1>6. /\ callers \in Seq(ActSet) /\ Len(callers) = Len(acts) - 1
      /\ \A i \in 1 .. (Len(acts) - 1) : callers[i] = acts[i]
  <2>1. Len(acts) >= 1
    BY <1>5
  <2> QED BY <1>5, <2>1, FrontTyped
<1>7. Validated(entry) /\ Code = entry.code
  BY DEF CtlInv, Code
<1>8. answer \in Seq(Int)
  <2>1. arity \in Nat /\ Len(Act.stack) \in Nat
    BY <1>5, <1>7, LenProperties DEF Validated, Function
  <2>2. arity \in 0 .. Len(Act.stack)
    BY <2>1
  <2> QED BY <1>5, <2>2, ResultsTyped
<1> HIDE DEF answer
<1>9. c \in ActSet /\ ActOK(entry.code, c) /\ Calling(entry.code, c)
  <2>1. Len(acts) - 1 \in 1 .. (Len(acts) - 1) /\ Len(acts) - 1 \in 1 .. Len(acts)
    BY <1>5
  <2>2. c = acts[Len(acts) - 1]
    BY <1>6, <2>1 DEF LastOf
  <2> QED BY <2>1, <2>2 DEF CtlInv, ActOK
<1> HIDE DEF c
<1>10. c.stack \o answer \in Seq(Int)
  BY <1>8, <1>9, ConcatProperties DEF ActSet
<1>11. a \in ActSet /\ a.fn = c.fn /\ a.ip = c.ip + 1 /\ a.frames = c.frames
  BY <1>9, <1>10, Moved
<1> HIDE DEF a
<1>12. ActOK(entry.code, a)
  <2>1. /\ c.fn \in 1 .. Len(entry.code) /\ c.ip \in 1 .. (Len(entry.code[c.fn].body) + 1)
        /\ c.ip <= Len(entry.code[c.fn].body) /\ entry.code[c.fn].body[c.ip].op = "call"
    BY <1>9 DEF ActOK, Calling
  <2>2. entry.code[c.fn].body[c.ip].op \notin Opens \cup {"end"}
    BY <2>1 DEF Opens
  <2> QED BY <1>7, <1>9, <1>11, <2>1, <2>2, MovesPast
<1> HIDE DEF callers
<1>13. /\ acts' \in Seq(ActSet) /\ Len(acts') = Len(callers) /\ acts'[Len(callers)] = a
       /\ \A i \in 1 .. (Len(callers) - 1) : acts'[i] = callers[i]
  <2>1. callers \in Seq(ActSet) /\ Len(callers) >= 1 /\ a \in ActSet
    BY <1>5, <1>6, <1>11
  <2> DEFINE r == Append(FrontOf(callers), a)
  <2>2. acts' = r
    OBVIOUS
  <2>3. /\ r \in Seq(ActSet) /\ Len(r) = Len(callers) /\ r[Len(callers)] = a
        /\ \A i \in 1 .. (Len(callers) - 1) : r[i] = callers[i]
    BY <2>1, Replaced
  <2> HIDE DEF r
  <2> QED BY <2>2, <2>3
<1>14. /\ \A k \in 1 .. Len(acts') : ActOK(entry'.code, acts'[k])
       /\ \A k \in 1 .. (Len(acts') - 1) : Calling(entry'.code, acts'[k])
  <2>1. \A k \in 1 .. (Len(acts') - 1) : acts'[k] = acts[k] /\ k \in 1 .. (Len(acts) - 1)
                                         /\ k \in 1 .. Len(acts)
    BY <1>5, <1>6, <1>13
  <2>2. \A k \in 1 .. Len(acts') : k = Len(acts') \/ k \in 1 .. (Len(acts') - 1)
    BY <1>5, <1>6, <1>13
  <2>3. \A k \in 1 .. (Len(acts') - 1) : ActOK(entry.code, acts'[k]) /\ Calling(entry.code, acts'[k])
    BY <2>1 DEF CtlInv
  <2> QED BY <1>12, <1>13, <2>2, <2>3
<1>15. Len(acts') \in 1 .. (MaxDepth + 1)
  BY <1>5, <1>6, <1>13, ControlAssumption DEF CtlInv
<1>16. steps' \in Nat /\ steps' <= MaxSteps /\ steps' <= MaxSteps + 1 /\ status' = status
  BY <1>1, ControlAssumption DEF CtlInv, Tick, InBudget
<1>17. Validated(entry') /\ status' \in {"run", "done", "bail"}
  BY <1>1, <1>7, <1>16
<1> QED BY <1>13, <1>14, <1>15, <1>16, <1>17 DEF CtlInv

-----------------------------------------------------------------------------
LEMMA CtlInvStep ==
    ASSUME CtlInv, [Next]_vars
    PROVE  CtlInv'
<1>1. CASE UNCHANGED vars
  BY <1>1 DEF vars, CtlInv
<1>2. CASE Halted
  BY <1>1, <1>2 DEF Halted
<1>3. CASE Next
  BY <1>2, <1>3, OutOfBudgetKeeps, StraightLineKeeps, EnterBlockKeeps, EnterIfKeeps, JumpsKeep,
     CallKeeps, ReturnKeeps DEF Next
<1> QED BY <1>1, <1>3

(* The inductive invariant holds of every run of every validated module.   *)
THEOREM CtlInvInductive == Spec => []CtlInv
<1>1. Init => CtlInv
  BY CtlInvInit
<1>2. CtlInv /\ [Next]_vars => CtlInv'
  BY CtlInvStep
<1> QED BY <1>1, <1>2, PTL DEF Spec

(* The step budget and the call depth are never passed by more than the    *)
(* step that is refused, and the ip stays in its body or just past it.     *)
THEOREM StaysWithin == Spec => []TypeOK
<1>1. CtlInv => TypeOK
  <2> SUFFICES ASSUME CtlInv PROVE TypeOK
    OBVIOUS
  <2>1. steps \in 0 .. (MaxSteps + 1)
    BY ControlAssumption DEF CtlInv
  <2>2. \A i \in 1 .. Len(acts) : acts[i].ip \in 1 .. (Len(Code[acts[i].fn].body) + 1)
    BY DEF CtlInv, ActOK, Code
  <2> QED BY <2>1, <2>2 DEF TypeOK, CtlInv
<1> QED BY <1>1, CtlInvInductive, PTL

(* The frames are exactly the blocks around the ip, outermost first.       *)
THEOREM FramesAreAround == Spec => []FramesHoldIp
<1>1. ASSUME CtlInv, NEW k \in 1 .. Len(acts) PROVE ExtentsNest(acts[k])
  <2> DEFINE a == acts[k]
             body == Code[a.fn].body
             n == Len(a.frames)
  <2>1. ActOK(entry.code, a) /\ Validated(entry)
    BY <1>1 DEF CtlInv
  <2> HIDE DEF a
  <2>2. /\ a.frames \in Seq(FrameSet) /\ a.ip \in Int /\ Nests(body, a.ip, a.frames)
        /\ Len(body) \in Nat /\ Paired(body)
    BY <2>1 DEF ActOK, ActSet, Code, Validated, Function
  <2> HIDE DEF body
  <2>3. PICK st : NestedAt(body, a.ip, a.frames, st)
    BY <2>2 DEF Nests
  <2>4. n \in Nat /\ \A i \in 1 .. n : /\ st[i] \in Around(body, a.ip) /\ st[i] \in Openers(body)
                                       /\ a.frames[i].end = EndOf(body, st[i])
    BY <2>2, <2>3, NestedTyped, LenProperties
  <2>5. {b.end : b \in Holding(body, a.ip)} = {EndOf(body, s) : s \in Around(body, a.ip)}
    <3>1. Scan(body) = {[start |-> s, end |-> EndOf(body, s), els |-> ElseOf(body, s)] :
                            s \in Openers(body)}
      BY DEF Scan, Openers
    <3>2. ASSUME NEW b \in Holding(body, a.ip)
          PROVE  \E s \in Around(body, a.ip) : b.end = EndOf(body, s)
      <4>1. PICK s \in Openers(body) :
                b = [start |-> s, end |-> EndOf(body, s), els |-> ElseOf(body, s)]
        BY <3>1 DEF Holding
      <4>2. s \in Around(body, a.ip) /\ b.end = EndOf(body, s)
        BY <4>1 DEF Holding, Around
      <4> QED BY <4>2
    <3>3. ASSUME NEW s \in Around(body, a.ip)
          PROVE  \E b \in Holding(body, a.ip) : b.end = EndOf(body, s)
      <4> DEFINE b == [start |-> s, end |-> EndOf(body, s), els |-> ElseOf(body, s)]
      <4>1. b \in Scan(body) /\ b.start = s /\ b.end = EndOf(body, s)
        BY <3>1 DEF Around
      <4> HIDE DEF b
      <4>2. b \in Holding(body, a.ip)
        BY <4>1 DEF Holding, Around
      <4> QED BY <4>1, <4>2
    <3> QED BY <3>2, <3>3
  <2>6. {a.frames[i].end : i \in 1 .. n} = {EndOf(body, s) : s \in Around(body, a.ip)}
    BY <2>3, <2>4 DEF NestedAt
  <2>7. ASSUME NEW i \in 1 .. n, NEW j \in 1 .. n, i < j
        PROVE  a.frames[j].end < a.frames[i].end
    <3>1. st[i] < st[j]
      BY <2>3, <2>7 DEF NestedAt
    <3>2. st[j] <= EndOf(body, st[i])
      <4>1. /\ st[j] \in Int /\ st[j] < a.ip /\ a.ip <= EndOf(body, st[i])
            /\ EndOf(body, st[i]) \in Int
        BY <2>2, <2>4, AroundTyped
      <4> QED BY <2>2, <4>1
    <3>3. EndOf(body, st[j]) < EndOf(body, st[i])
      BY <2>2, <2>4, <3>1, <3>2, Laminar
    <3> QED BY <2>4, <3>3
  <2> QED BY <2>5, <2>6, <2>7 DEF ExtentsNest, a, body
<1>2. CtlInv => FramesHoldIp
  BY <1>1 DEF FramesHoldIp
<1> QED BY <1>2, CtlInvInductive, PTL

-----------------------------------------------------------------------------
(* The operand heights.                                                    *)
Heights(code, a) == Inferred(code[a.fn].body, code)
At(code, a) == code[a.fn].body[a.ip]

(* A frame has the height its block was entered at; the operand stack has  *)
(* the height the validator knows of, less what a call has taken.          *)
Frames(body, code, h, s, fr) ==
    Entered(body, h, s) /\ fr.arity = body[s].n /\ fr.height = Base(body, code, h, s)
Framed(code, a) ==
    \A i \in 1 .. Len(a.frames) : \A s \in Openers(code[a.fn].body) :
        a.frames[i].end = EndOf(code[a.fn].body, s)
            => Frames(code[a.fn].body, code, Heights(code, a), s, a.frames[i])
Stacked(code, a, taken) == Len(a.stack) = Heights(code, a)[a.ip] - taken
Awaits(code, a, fn) == Stacked(code, a, Takes(At(code, a), code)) /\ At(code, a).n = fn

HeightInv ==
    /\ \A k \in 1 .. Len(acts) : Framed(entry.code, acts[k])
    /\ Stacked(entry.code, acts[Len(acts)], 0)
    /\ \A k \in 1 .. (Len(acts) - 1) : Awaits(entry.code, acts[k], acts[k + 1].fn)

-----------------------------------------------------------------------------
LEMMA HeightsFit ==
    ASSUME NEW e, Validated(e), NEW fn \in 1 .. Len(e.code)
    PROVE  /\ Fits(e.code[fn].body, e.code, Inferred(e.code[fn].body, e.code))
           /\ Len(e.code[fn].body) \in Nat /\ Paired(e.code[fn].body)
           /\ \A i \in 1 .. Len(e.code[fn].body) : Immediate(e.code[fn].body[i], Len(e.code))
           /\ e.code[fn].params \in Nat /\ e.code[fn].arity \in Nat
BY DEF Validated, Function

LEMMA TakesTyped ==
    ASSUME NEW e, Validated(e), NEW ins, Immediate(ins, Len(e.code))
    PROVE  Takes(ins, e.code) \in Nat /\ Gives(ins, e.code) \in Nat
<1>1. ins.op = "call" => e.code[ins.n].params \in Nat /\ e.code[ins.n].arity \in Nat
  BY HeightsFit DEF Immediate
<1> QED BY <1>1 DEF Takes, Gives

(* Two blocks do not share an End. *)
LEMMA EndsApart ==
    ASSUME NEW body, Len(body) \in Nat, Paired(body), NEW s \in Openers(body), NEW t \in Openers(body),
           EndOf(body, s) = EndOf(body, t)
    PROVE  s = t
<1>1. /\ s \in Int /\ EndOf(body, s) \in (s + 1) .. Len(body)
      /\ t \in Int /\ EndOf(body, t) \in (t + 1) .. Len(body)
  BY EndsFound DEF Openers
<1>2. CASE s < t
  BY <1>1, <1>2, Laminar
<1>3. CASE t < s
  BY <1>1, <1>3, Laminar
<1> QED BY <1>1, <1>2, <1>3

(* What is known of a block the machine has entered. *)
LEMMA EnteredBlock ==
    ASSUME NEW e, Validated(e), NEW fn \in 1 .. Len(e.code), NEW s \in Openers(e.code[fn].body),
           Entered(e.code[fn].body, Inferred(e.code[fn].body, e.code), s)
    PROVE  LET body == e.code[fn].body
               h == Inferred(body, e.code)
               base == Base(body, e.code, h, s)
           IN  /\ base \in Int /\ body[s].n \in Nat
               /\ h[EndOf(body, s) + 1] = base + body[s].n
               /\ body[s].op = "loop" => h[s + 1] = base
               /\ body[s].op = "if" => IF ElseOf(body, s) = 0 THEN body[s].n = 0
                                       ELSE h[ElseOf(body, s) + 1] = base
               /\ \A j \in (s + 1) .. EndOf(body, s) :
                      h[j] # Dead => h[j] - Takes(body[j], e.code) >= base
<1> DEFINE body == e.code[fn].body
           h == Inferred(body, e.code)
           base == Base(body, e.code, h, s)
<1>1. /\ Fits(body, e.code, h) /\ s \in 1 .. Len(body) /\ Len(body) \in Nat
      /\ Immediate(body[s], Len(e.code))
  BY HeightsFit DEF Openers
<1>2. Takes(body[s], e.code) \in Nat /\ Gives(body[s], e.code) \in Nat
  BY <1>1, TakesTyped
<1>3. body[s].n \in Nat /\ body[s].n <= 1 /\ body[s].op \in Opens /\ h[s] # Dead
  BY <1>1 DEF Entered, Immediate
<1> HIDE DEF h, body
<1>4. h[s] \in Nat
  BY <1>1, <1>3 DEF Fits
<1>5. base \in Int
  BY <1>2, <1>4 DEF Base
<1>6. body[s].op = "loop" => h[s + 1] = base
  <2>1. ASSUME body[s].op = "loop" PROVE h[s + 1] = base
    <3>1. Follows(body[s]) /\ Takes(body[s], e.code) = 0 /\ Gives(body[s], e.code) = 0
      BY <1>3, <2>1 DEF Follows, Jumps, Takes, Gives
    <3>2. h[s + 1] = h[s] - Takes(body[s], e.code) + Gives(body[s], e.code)
      BY <1>1, <1>3, <3>1 DEF Fits
    <3> QED BY <1>4, <3>1, <3>2 DEF Base
  <2> QED BY <2>1
<1>7. Entered(body, h, s)
  BY DEF body, h
<1>8. /\ h[EndOf(body, s) + 1] = base + body[s].n
      /\ body[s].op = "if" => IF ElseOf(body, s) = 0 THEN body[s].n = 0
                              ELSE h[ElseOf(body, s) + 1] = base
      /\ \A j \in (s + 1) .. EndOf(body, s) :
             h[j] # Dead => h[j] - Takes(body[j], e.code) >= base
  BY <1>1, <1>7 DEF Fits
<1> QED BY <1>3, <1>5, <1>6, <1>8 DEF body, h

(* Past an instruction: the height is what it leaves. *)
LEMMA HeightAfter ==
    ASSUME NEW e, Validated(e), NEW fn \in 1 .. Len(e.code),
           NEW ip \in 1 .. Len(e.code[fn].body), Follows(e.code[fn].body[ip]),
           Inferred(e.code[fn].body, e.code)[ip] # Dead
    PROVE  LET body == e.code[fn].body
               h == Inferred(body, e.code)
           IN  /\ h[ip] \in Nat
               /\ h[ip + 1] = h[ip] - Takes(body[ip], e.code) + Gives(body[ip], e.code)
<1> DEFINE body == e.code[fn].body
           h == Inferred(body, e.code)
<1>1. /\ Fits(body, e.code, h) /\ ip \in 1 .. Len(body) /\ Len(body) \in Nat
      /\ Follows(body[ip]) /\ h[ip] # Dead
  BY HeightsFit
<1> HIDE DEF h, body
<1>2. ip \in 1 .. (Len(body) + 1)
  BY <1>1
<1>3. h[ip] \in Nat /\ h[ip + 1] = h[ip] - Takes(body[ip], e.code) + Gives(body[ip], e.code)
  BY <1>1, <1>2 DEF Fits
<1> QED BY <1>3 DEF body, h

-----------------------------------------------------------------------------
(* The running activation's heights. *)
LEMMA TopHeight ==
    ASSUME CtlInv, HeightInv
    PROVE  LET h == Inferred(Body, entry.code)
           IN  /\ Fits(Body, entry.code, h) /\ Heights(entry.code, Act) = h
               /\ Framed(entry.code, Act) /\ Len(Act.stack) \in Nat
               /\ h[Act.ip] = Len(Act.stack) /\ h[Act.ip] # Dead
<1>1. /\ Act = acts[Len(acts)] /\ Len(acts) \in Nat /\ Len(acts) >= 1 /\ Act.fn \in 1 .. Len(entry.code)
      /\ Body = entry.code[Act.fn].body /\ Act.stack \in Seq(Int) /\ Act.ip \in 1 .. (Len(Body) + 1)
  BY Top
<1>2. Heights(entry.code, Act) = Inferred(Body, entry.code)
  BY <1>1 DEF Heights
<1>3. Fits(Body, entry.code, Inferred(Body, entry.code))
  BY <1>1, HeightsFit DEF CtlInv
<1>4. Framed(entry.code, Act) /\ Stacked(entry.code, Act, 0)
  <2>1. Len(acts) \in 1 .. Len(acts)
    BY <1>1
  <2> QED BY <1>1, <2>1 DEF HeightInv
<1>5. Len(Act.stack) \in Nat
  BY <1>1, LenProperties
<1> DEFINE h == Inferred(Body, entry.code)
<1>6. Len(Act.stack) = h[Act.ip] - 0
  BY <1>2, <1>4 DEF Stacked
<1>7. h[Act.ip] \in Nat \cup {Dead}
  BY <1>1, <1>3 DEF Fits
<1> HIDE DEF h
<1>8. h[Act.ip] = Len(Act.stack) /\ h[Act.ip] # Dead
  <2>1. h[Act.ip] \in Int
    BY <1>7 DEF Dead
  <2> QED BY <1>5, <1>6, <2>1 DEF Dead
<1> QED BY <1>2, <1>3, <1>4, <1>5, <1>8 DEF h

(* What is known of each of its frames. *)
LEMMA TopFrame ==
    ASSUME CtlInv, HeightInv, NEW n \in 1 .. Len(Act.frames)
    PROVE  LET fr == Act.frames[n]
               h == Inferred(Body, entry.code)
           IN  /\ h[fr.end + 1] = fr.height + fr.arity
               /\ fr.loop_start # 0 => h[fr.loop_start + 1] = fr.height
<1> DEFINE fr == Act.frames[n]
           h == Inferred(Body, entry.code)
<1>1. /\ Len(Body) \in Nat /\ Paired(Body) /\ Body = entry.code[Act.fn].body
      /\ Act.fn \in 1 .. Len(entry.code) /\ Nests(Body, Act.ip, Act.frames)
      /\ Act.frames \in Seq(FrameSet) /\ Act.ip \in Int /\ Validated(entry)
  BY Top DEF CtlInv
<1>2. PICK st : NestedAt(Body, Act.ip, Act.frames, st)
  BY <1>1 DEF Nests
<1>3. /\ st[n] \in Openers(Body) /\ fr.end = EndOf(Body, st[n])
      /\ fr.loop_start = IF Body[st[n]].op = "loop" THEN st[n] ELSE 0
  <2> DEFINE x == Act.ip
             f == Act.frames
             body == Body
  <2>1. Len(body) \in Nat /\ Paired(body) /\ x \in Int /\ f \in Seq(FrameSet) /\ n \in 1 .. Len(f)
        /\ NestedAt(body, x, f, st)
    BY <1>1, <1>2
  <2> HIDE DEF x, f, body
  <2>2. /\ st[n] \in Openers(body) /\ f[n].end = EndOf(body, st[n])
        /\ f[n].loop_start = IF body[st[n]].op = "loop" THEN st[n] ELSE 0
    BY <2>1, NestedTyped
  <2> QED BY <2>2 DEF f, body
<1>4. Framed(entry.code, Act) /\ Heights(entry.code, Act) = h
  BY TopHeight
<1> DEFINE s == st[n]
<1> HIDE DEF h
<1>5. Frames(Body, entry.code, h, s, fr)
  BY <1>1, <1>3, <1>4 DEF Framed
<1>6. Entered(Body, h, s) /\ fr.arity = Body[s].n /\ fr.height = Base(Body, entry.code, h, s)
  BY <1>5 DEF Frames
<1> HIDE DEF s, fr
<1>7. /\ h[EndOf(Body, s) + 1] = Base(Body, entry.code, h, s) + Body[s].n
      /\ Body[s].op = "loop" => h[s + 1] = Base(Body, entry.code, h, s)
  <2> DEFINE b2 == entry.code[Act.fn].body
             h2 == Inferred(b2, entry.code)
  <2>1. b2 = Body /\ h2 = h
    BY <1>1 DEF h
  <2>2. s \in Openers(b2) /\ Entered(b2, h2, s)
    BY <1>3, <1>6, <2>1 DEF s
  <2>3. /\ h2[EndOf(b2, s) + 1] = Base(b2, entry.code, h2, s) + b2[s].n
        /\ b2[s].op = "loop" => h2[s + 1] = Base(b2, entry.code, h2, s)
    <3> DEFINE fn == Act.fn
    <3>1. /\ fn \in 1 .. Len(entry.code) /\ Validated(entry) /\ s \in Openers(entry.code[fn].body)
          /\ Entered(entry.code[fn].body, Inferred(entry.code[fn].body, entry.code), s)
      BY <1>1, <2>2
    <3> HIDE DEF fn, s, b2, h2
    <3>2. LET b3 == entry.code[fn].body
              h3 == Inferred(b3, entry.code)
          IN  /\ h3[EndOf(b3, s) + 1] = Base(b3, entry.code, h3, s) + b3[s].n
              /\ b3[s].op = "loop" => h3[s + 1] = Base(b3, entry.code, h3, s)
      BY <3>1, EnteredBlock
    <3> QED BY <3>2 DEF fn, b2, h2
  <2> QED BY <2>1, <2>3
<1>8. h[fr.end + 1] = fr.height + fr.arity /\ (fr.loop_start # 0 => h[fr.loop_start + 1] = fr.height)
  BY <1>3, <1>6, <1>7 DEF s
<1> QED BY <1>8 DEF h, fr

(* The frames that stay say of their blocks what they said. *)
LEMMA FramedKeep ==
    ASSUME NEW code, NEW b, NEW a, a.fn = b.fn, Framed(code, b), Len(b.frames) \in Nat,
           NEW n \in 0 .. Len(b.frames), Len(a.frames) = n, \A i \in 1 .. n : a.frames[i] = b.frames[i]
    PROVE  Framed(code, a)
<1>1. \A i \in 1 .. n : i \in 1 .. Len(b.frames)
  OBVIOUS
<1>2. Heights(code, a) = Heights(code, b)
  BY DEF Heights
<1> QED BY <1>1, <1>2 DEF Framed

LEMMA HeightContinues ==
    ASSUME CtlInv, HeightInv, NEW a \in ActSet, Continue(a), a.fn = Act.fn,
           Framed(entry.code, a), Stacked(entry.code, a, 0)
    PROVE  HeightInv'
<1>1. entry' = entry /\ acts' = Append(FrontOf(acts), a)
  BY DEF Continue
<1>2. acts \in Seq(ActSet) /\ Len(acts) \in Nat /\ Len(acts) >= 1 /\ Act = acts[Len(acts)]
  BY Top
<1>3. /\ Len(acts') = Len(acts) /\ acts'[Len(acts)] = a
      /\ \A i \in 1 .. (Len(acts) - 1) : acts'[i] = acts[i]
  BY <1>1, <1>2, Replaced
<1>4. \A k \in 1 .. Len(acts') : Framed(entry'.code, acts'[k])
  <2>1. TAKE k \in 1 .. Len(acts')
  <2>2. CASE k = Len(acts)
    BY <1>1, <1>3, <2>2
  <2>3. CASE k # Len(acts)
    <3>1. k \in 1 .. (Len(acts) - 1) /\ k \in 1 .. Len(acts)
      BY <1>2, <1>3, <2>3
    <3> QED BY <1>1, <1>3, <3>1 DEF HeightInv
  <2> QED BY <2>2, <2>3
<1>5. \A k \in 1 .. (Len(acts') - 1) : Awaits(entry'.code, acts'[k], acts'[k + 1].fn)
  <2>1. TAKE k \in 1 .. (Len(acts') - 1)
  <2>2. k \in 1 .. (Len(acts) - 1) /\ acts'[k] = acts[k] /\ acts'[k + 1].fn = acts[k + 1].fn
    <3>1. k \in 1 .. (Len(acts) - 1)
      BY <1>3
    <3>2. CASE k + 1 = Len(acts)
      BY <1>2, <1>3, <3>1, <3>2
    <3>3. CASE k + 1 # Len(acts)
      <4>1. k + 1 \in 1 .. (Len(acts) - 1)
        BY <1>2, <3>1, <3>3
      <4> QED BY <1>3, <3>1, <4>1
    <3> QED BY <3>2, <3>3
  <2> QED BY <1>1, <2>2 DEF HeightInv
<1> QED BY <1>1, <1>3, <1>4, <1>5 DEF HeightInv

LEMMA HeightStays ==
    ASSUME HeightInv, UNCHANGED <<entry, acts>>
    PROVE  HeightInv'
BY DEF HeightInv

LEMMA HeightResumes ==
    ASSUME CtlInv, HeightInv, NEW outcomes, Resume(outcomes),
           \A a \in outcomes : /\ a \in ActSet /\ a.fn = Act.fn
                               /\ Framed(entry.code, a) /\ Stacked(entry.code, a, 0)
    PROVE  HeightInv'
<1>1. CASE outcomes = {}
  BY <1>1, HeightStays DEF Resume, Bail
<1>2. CASE outcomes # {}
  <2>1. PICK a \in outcomes : Continue(a)
    BY <1>2 DEF Resume
  <2> QED BY <2>1, HeightContinues
<1> QED BY <1>1, <1>2

(* Past an instruction that opens and closes nothing. *)
LEMMA HeightPast ==
    ASSUME CtlInv, HeightInv, InBody, Follows(Ins), NEW a, a.fn = Act.fn,
           a.ip = Act.ip + 1, a.frames = Act.frames,
           Len(a.stack) = Len(Act.stack) - Takes(Ins, entry.code) + Gives(Ins, entry.code)
    PROVE  Framed(entry.code, a) /\ Stacked(entry.code, a, 0)
<1> DEFINE h == Inferred(Body, entry.code)
           takes == Takes(Ins, entry.code)
           gives == Gives(Ins, entry.code)
<1>1. Act.ip \in 1 .. Len(Body) /\ Ins = Body[Act.ip] /\ Immediate(Ins, Len(entry.code))
  BY TopInstruction
<1>2. /\ Body = entry.code[Act.fn].body /\ Act.fn \in 1 .. Len(entry.code)
      /\ Act.frames \in Seq(FrameSet) /\ Validated(entry)
  BY Top DEF CtlInv
<1>3. /\ Heights(entry.code, Act) = h /\ Framed(entry.code, Act) /\ Len(Act.stack) \in Nat
      /\ h[Act.ip] = Len(Act.stack) /\ h[Act.ip] # Dead
  BY TopHeight
<1>4. h[Act.ip + 1] = h[Act.ip] - takes + gives
  BY <1>1, <1>2, <1>3, HeightAfter
<1>5. takes \in Nat /\ gives \in Nat
  BY <1>1, <1>2, TakesTyped
<1>6. Heights(entry.code, a) = h
  BY <1>3 DEF Heights
<1> HIDE DEF h, takes, gives
<1>7. Len(a.stack) = h[a.ip] - 0
  <2>1. Len(a.stack) = h[Act.ip + 1] /\ h[Act.ip + 1] \in Int
    BY <1>3, <1>4, <1>5 DEF takes, gives
  <2> QED BY <2>1
<1>8. Framed(entry.code, a)
  <2>1. Len(Act.frames) \in Nat
    BY <1>2, LenProperties
  <2>2. Len(Act.frames) \in 0 .. Len(Act.frames)
    BY <2>1
  <2> QED BY <1>3, <2>1, <2>2, FramedKeep
<1> QED BY <1>6, <1>7, <1>8 DEF Stacked

-----------------------------------------------------------------------------
(* The actions, one by one. *)
LEMMA StraightLineHeights ==
    ASSUME CtlInv, HeightInv, StraightLine
    PROVE  HeightInv'
<1>1. InBody /\ Resume(Straight(Act, Ins))
  BY DEF StraightLine
<1>2. ASSUME NEW a \in Straight(Act, Ins)
      PROVE  a \in ActSet /\ a.fn = Act.fn /\ Framed(entry.code, a) /\ Stacked(entry.code, a, 0)
  <2>1. Ins.op \in {"const", "get", "set", "drop", "select", "add", "eqz"}
    <3>1. Ins.op \in {"unreachable", "call_indirect"} => Straight(Act, Ins) = {}
      BY DEF Straight
    <3> QED BY <1>2, <3>1 DEF StraightLine
  <2>2. Follows(Ins)
    BY <2>1 DEF Follows, Jumps, Opens
  <2>3. /\ a \in ActSet /\ a.fn = Act.fn /\ a.ip = Act.ip + 1 /\ a.frames = Act.frames
        /\ Len(a.stack) = Len(Act.stack) - Takes(Ins, entry.code) + Gives(Ins, entry.code)
    BY StraightOutcomes
  <2> QED BY <1>1, <2>2, <2>3, HeightPast
<1> QED BY <1>1, <1>2, HeightResumes

(* A branch or the end of a block leaves what the block's heights say. *)
LEMMA HeightLands ==
    ASSUME CtlInv, HeightInv, NEW a \in ActSet, a.fn = Act.fn, Lands(a)
    PROVE  Framed(entry.code, a) /\ Stacked(entry.code, a, 0)
<1> DEFINE h == Inferred(Body, entry.code)
<1>1. Act.frames \in Seq(FrameSet) /\ Len(Act.frames) \in Nat
  BY Top, LenProperties
<1>2. PICK n \in 1 .. Len(Act.frames) :
          \/ /\ Act.frames[n].loop_start # 0 /\ a.ip = Act.frames[n].loop_start + 1
             /\ a.frames = Keep(Act.frames, n) /\ Len(a.stack) = Act.frames[n].height
          \/ /\ a.ip = Act.frames[n].end + 1 /\ a.frames = Keep(Act.frames, n - 1)
             /\ Len(a.stack) = Act.frames[n].height + Act.frames[n].arity
  BY DEF Lands
<1>3. /\ h[Act.frames[n].end + 1] = Act.frames[n].height + Act.frames[n].arity
      /\ Act.frames[n].loop_start # 0 => h[Act.frames[n].loop_start + 1] = Act.frames[n].height
  BY TopFrame
<1>4. Heights(entry.code, Act) = h /\ Framed(entry.code, Act)
  BY TopHeight
<1>5. Heights(entry.code, a) = h
  BY <1>4 DEF Heights
<1> HIDE DEF h
<1>6. Len(a.stack) = h[a.ip] /\ Len(a.stack) \in Nat
  <2>1. Len(a.stack) \in Nat
    BY LenProperties DEF ActSet
  <2> QED BY <1>2, <1>3, <2>1
<1>7. Stacked(entry.code, a, 0)
  BY <1>5, <1>6 DEF Stacked
<1>8. PICK m \in 0 .. Len(Act.frames) : a.frames = Keep(Act.frames, m)
  <2>1. n \in 0 .. Len(Act.frames) /\ n - 1 \in 0 .. Len(Act.frames)
    BY <1>1
  <2> QED BY <1>2, <2>1
<1>9. Len(a.frames) = m /\ \A i \in 1 .. m : a.frames[i] = Act.frames[i]
  <2> DEFINE f == Act.frames
  <2>1. f \in Seq(FrameSet) /\ m \in 0 .. Len(f)
    BY <1>1, <1>8
  <2> HIDE DEF f
  <2>2. Len(Keep(f, m)) = m /\ \A i \in 1 .. m : Keep(f, m)[i] = f[i]
    BY <2>1, KeepTyped
  <2> QED BY <1>8, <2>2 DEF f
<1> QED BY <1>1, <1>4, <1>7, <1>9, FramedKeep

LEMMA JumpsHeights ==
    ASSUME CtlInv, HeightInv, LeaveThen \/ LeaveBlock \/ Branch \/ BranchIf \/ BranchTable
    PROVE  HeightInv'
<1>1. CASE Settles
  <2>1. CASE Bail
    BY <2>1, HeightStays DEF Bail
  <2>2. ASSUME NEW a, Settled(a), Continue(a) PROVE HeightInv'
    <3>1. a \in ActSet /\ a.fn = Act.fn /\ Lands(a)
      BY <2>2 DEF Settled
    <3>2. Framed(entry.code, a) /\ Stacked(entry.code, a, 0)
      BY <3>1, HeightLands
    <3> QED BY <2>2, <3>1, <3>2, HeightContinues
  <2> QED BY <1>1, <2>1, <2>2 DEF Settles
<1>2. CASE BranchIf /\ \E a : Untaken(a) /\ Continue(a)
  <2>1. PICK a : Untaken(a) /\ Continue(a)
    BY <1>2
  <2>2. a \in ActSet /\ a.fn = Act.fn /\ a.ip = Act.ip + 1 /\ a.frames = Act.frames
        /\ Len(a.stack) = Len(Act.stack) - 1
    BY <2>1 DEF Untaken
  <2>3. InBody /\ Ins.op = "br_if"
    BY <1>2 DEF BranchIf
  <2>4. Follows(Ins) /\ Takes(Ins, entry.code) = 1 /\ Gives(Ins, entry.code) = 0
    BY <2>3 DEF Follows, Jumps, Opens, Takes, Gives
  <2>5. Len(a.stack) = Len(Act.stack) - Takes(Ins, entry.code) + Gives(Ins, entry.code)
    <3>1. Len(Act.stack) \in Nat
      BY Top, LenProperties
    <3> QED BY <2>2, <2>4, <3>1
  <2>6. Framed(entry.code, a) /\ Stacked(entry.code, a, 0)
    BY <2>2, <2>3, <2>4, <2>5, HeightPast
  <2> QED BY <2>1, <2>2, <2>6, HeightContinues
<1>3. Settles \/ (BranchIf /\ \E a : Untaken(a) /\ Continue(a))
  BY LeaveThenSettles, LeaveBlockSettles, BranchSettles, BranchIfSettles, BranchTableSettles
<1> QED BY <1>1, <1>2, <1>3

LEMMA OutOfBudgetHeights ==
    ASSUME HeightInv, OutOfBudget
    PROVE  HeightInv'
BY HeightStays DEF OutOfBudget, Bail

(* A block just entered, its frame on top of those around it. *)
LEMMA HeightEnters ==
    ASSUME CtlInv, HeightInv, InBody, Ins.op \in Opens, Ins.n <= 1,
           NEW fr \in FrameSet, fr.end = EndOf(Body, Act.ip), fr.arity = Body[Act.ip].n,
           fr.height = Len(Act.stack) - Takes(Ins, entry.code),
           NEW a, a.fn = Act.fn, a.frames = Append(Act.frames, fr),
           Len(a.stack) = fr.height, Inferred(Body, entry.code)[a.ip] = fr.height
    PROVE  Framed(entry.code, a) /\ Stacked(entry.code, a, 0)
<1> DEFINE h == Inferred(Body, entry.code)
           n == Len(Act.frames)
<1>1. Act.ip \in Openers(Body) /\ Ins = Body[Act.ip]
  BY TopInstruction DEF Openers
<1>2. /\ Body = entry.code[Act.fn].body /\ Len(Body) \in Nat /\ Paired(Body)
      /\ Act.frames \in Seq(FrameSet) /\ n \in Nat
  BY Top, LenProperties
<1>3. /\ Heights(entry.code, Act) = h /\ Framed(entry.code, Act)
      /\ h[Act.ip] = Len(Act.stack) /\ h[Act.ip] # Dead
  BY TopHeight
<1>4. Heights(entry.code, a) = h
  BY <1>3 DEF Heights
<1> HIDE DEF h
<1>5. Frames(Body, entry.code, h, Act.ip, fr)
  BY <1>1, <1>3 DEF Frames, Entered, Base
<1>6. Len(a.stack) = h[a.ip] - 0
  BY DEF h, FrameSet
<1>7. /\ Len(a.frames) = n + 1 /\ a.frames[n + 1] = fr
      /\ \A i \in 1 .. n : a.frames[i] = Act.frames[i]
  BY <1>2, AppendTyped
<1>8. ASSUME NEW i \in 1 .. Len(a.frames), NEW s \in Openers(Body), a.frames[i].end = EndOf(Body, s)
      PROVE  Frames(Body, entry.code, h, s, a.frames[i])
  <2>1. CASE i = n + 1
    <3>1. s = Act.ip
      BY <1>1, <1>2, <1>7, <1>8, <2>1, EndsApart
    <3> QED BY <1>5, <1>7, <2>1, <3>1
  <2>2. CASE i # n + 1
    <3>1. i \in 1 .. n
      BY <1>2, <1>7, <2>2
    <3> QED BY <1>2, <1>3, <1>7, <1>8, <3>1 DEF Framed
  <2> QED BY <2>1, <2>2
<1>9. Framed(entry.code, a)
  BY <1>2, <1>4, <1>8 DEF Framed
<1> QED BY <1>4, <1>6, <1>9 DEF Stacked

LEMMA EnterBlockHeights ==
    ASSUME CtlInv, HeightInv, EnterBlock
    PROVE  HeightInv'
<1> DEFINE h == Inferred(Body, entry.code)
           fr == Frame(Act, Act.ip)
           f2 == Append(Act.frames, fr)
           ip2 == Act.ip + 1
           a == [Act EXCEPT !.ip = ip2, !.frames = f2]
<1>1. /\ InBody /\ Ins.op \in Opens /\ Ins.op \in {"block", "loop"}
      /\ Bail \/ (~ (Ins.n > 1) /\ Continue(a))
  BY DEF EnterBlock, Opens
<1>2. CASE Bail
  BY <1>2, HeightStays DEF Bail
<1> SUFFICES ASSUME ~ (Ins.n > 1), Continue(a) PROVE HeightInv'
  BY <1>1, <1>2
<1>3. Act \in ActSet /\ Act.stack \in Seq(Int) /\ Act.frames \in Seq(FrameSet) /\ Act.ip \in Int
  BY Top
<1>4. /\ Act.ip \in 1 .. Len(Body) /\ Ins = Body[Act.ip] /\ Ins.n \in Nat /\ Ins.n <= 1
  BY <1>1, TopInstruction DEF Immediate
<1>5. /\ Heights(entry.code, Act) = h /\ Len(Act.stack) \in Nat
      /\ h[Act.ip] = Len(Act.stack) /\ h[Act.ip] # Dead
  BY TopHeight
<1>6. Takes(Ins, entry.code) = 0 /\ Gives(Ins, entry.code) = 0 /\ Follows(Ins)
  BY <1>1, <1>4 DEF Takes, Gives, Follows, Jumps
<1>7. h[ip2] = Len(Act.stack)
  <2> DEFINE ip == Act.ip
             b == entry.code[Act.fn].body
             g == Inferred(b, entry.code)
  <2>1. /\ Body = b /\ Act.fn \in 1 .. Len(entry.code) /\ Validated(entry)
    BY Top DEF CtlInv
  <2>2. ip \in 1 .. Len(b) /\ Follows(b[ip]) /\ g[ip] # Dead
    BY <1>4, <1>5, <1>6, <2>1
  <2>3. g[ip + 1] = g[ip] - Takes(b[ip], entry.code) + Gives(b[ip], entry.code)
    BY <2>1, <2>2, HeightAfter
  <2>4. g[ip + 1] = Len(Act.stack) - 0 + 0
    BY <1>4, <1>5, <1>6, <2>1, <2>3
  <2> HIDE DEF g
  <2>5. g[ip + 1] = Len(Act.stack)
    BY <1>5, <2>4
  <2> QED BY <2>1, <2>5 DEF g
<1>8. /\ fr \in FrameSet /\ fr.end = EndOf(Body, Act.ip) /\ fr.arity = Body[Act.ip].n
      /\ fr.height = Len(Act.stack)
  BY <1>1, <1>3, FrameTyped DEF Frame
<1> HIDE DEF fr, h
<1>9. f2 \in Seq(FrameSet) /\ ip2 \in Int
  BY <1>3, <1>8, AppendTyped
<1> HIDE DEF ip2
<1>10. a \in ActSet /\ a.fn = Act.fn /\ a.frames = Append(Act.frames, fr) /\ a.ip = ip2
       /\ a.stack = Act.stack
  <2>1. f2 = Append(Act.frames, fr)
    OBVIOUS
  <2> HIDE DEF f2
  <2> QED BY <1>3, <1>9, <2>1 DEF ActSet
<1>11. Continue(a)
  OBVIOUS
<1> HIDE DEF a
<1>12. /\ fr.height = Len(Act.stack) - Takes(Ins, entry.code) /\ Len(a.stack) = fr.height
       /\ Inferred(Body, entry.code)[a.ip] = fr.height
  BY <1>5, <1>6, <1>7, <1>8, <1>10 DEF h
<1>13. Framed(entry.code, a) /\ Stacked(entry.code, a, 0)
  BY <1>1, <1>4, <1>8, <1>10, <1>12, HeightEnters
<1> QED BY <1>10, <1>11, <1>13, HeightContinues

LEMMA EnterIfHeights ==
    ASSUME CtlInv, HeightInv, EnterIf
    PROVE  HeightInv'
<1> DEFINE s2 == FrontOf(Act.stack)
           b == [Act EXCEPT !.stack = s2]
           els == ElseOf(Body, Act.ip)
           end == EndOf(Body, Act.ip)
           fr == Frame(b, Act.ip)
           framed(ip) == [b EXCEPT !.ip = ip, !.frames = Append(b.frames, fr)]
           skipped == [b EXCEPT !.ip = end + 1]
           h == Inferred(Body, entry.code)
           base == Len(Act.stack) - 1
<1>1. InBody /\ Ins.op \in Opens /\ Ins.op = "if"
  BY DEF EnterIf, Opens
<1>2. \/ Bail
      \/ /\ Act.stack # <<>> /\ ~ (Ins.n > 1)
         /\ \/ Continue(framed(Act.ip + 1))
            \/ els # 0 /\ Continue(framed(els + 1))
            \/ els = 0 /\ Continue(skipped)
  BY DEF EnterIf
<1>3. CASE Bail
  BY <1>3, HeightStays DEF Bail
<1> SUFFICES ASSUME Act.stack # <<>>, ~ (Ins.n > 1) PROVE HeightInv'
  BY <1>2, <1>3
<1>4. /\ Act \in ActSet /\ Act.frames \in Seq(FrameSet) /\ Act.ip \in Int
      /\ Body = entry.code[Act.fn].body /\ Act.fn \in 1 .. Len(entry.code) /\ Validated(entry)
      /\ Len(Body) \in Nat /\ Paired(Body)
  BY Top DEF CtlInv
<1>5. /\ Act.ip \in 1 .. Len(Body) /\ Act.ip \in Openers(Body) /\ Ins = Body[Act.ip]
      /\ Ins.n \in Nat /\ Ins.n <= 1
  BY <1>1, TopInstruction DEF Immediate, Openers
<1>6. /\ Heights(entry.code, Act) = h /\ Framed(entry.code, Act) /\ Len(Act.stack) \in Nat
      /\ h[Act.ip] = Len(Act.stack) /\ h[Act.ip] # Dead
  BY TopHeight
<1>7. Takes(Ins, entry.code) = 1 /\ Gives(Ins, entry.code) = 0 /\ Follows(Ins)
  BY <1>1, <1>5 DEF Takes, Gives, Follows, Jumps
<1>8. /\ h[Act.ip + 1] = base /\ h[end + 1] = base + Ins.n
      /\ IF els = 0 THEN Ins.n = 0 ELSE h[els + 1] = base
  <2> DEFINE ip == Act.ip
             c == entry.code[Act.fn].body
             g == Inferred(c, entry.code)
  <2>1. /\ c = Body /\ ip \in 1 .. Len(c) /\ Follows(c[ip]) /\ g[ip] # Dead
        /\ ip \in Openers(c) /\ Entered(c, g, ip) /\ Base(c, entry.code, g, ip) = base
        /\ c[ip] = Ins
    BY <1>1, <1>4, <1>5, <1>6, <1>7 DEF Entered, Base
  <2>2. g[ip + 1] = g[ip] - Takes(c[ip], entry.code) + Gives(c[ip], entry.code)
    BY <1>4, <2>1, HeightAfter
  <2>3. /\ g[EndOf(c, ip) + 1] = Base(c, entry.code, g, ip) + c[ip].n
        /\ Ins.op = "if" => IF ElseOf(c, ip) = 0 THEN c[ip].n = 0
                              ELSE g[ElseOf(c, ip) + 1] = Base(c, entry.code, g, ip)
    <3> DEFINE fn == Act.fn
    <3>1. fn \in 1 .. Len(entry.code) /\ ip \in Openers(entry.code[fn].body)
          /\ Entered(entry.code[fn].body, Inferred(entry.code[fn].body, entry.code), ip)
          /\ Validated(entry)
      BY <1>4, <2>1
    <3> HIDE DEF fn, ip
    <3>2. /\ Inferred(entry.code[fn].body, entry.code)[EndOf(entry.code[fn].body, ip) + 1]
             = Base(entry.code[fn].body, entry.code, Inferred(entry.code[fn].body, entry.code), ip)
               + entry.code[fn].body[ip].n
          /\ entry.code[fn].body[ip].op = "if" =>
                 IF ElseOf(entry.code[fn].body, ip) = 0 THEN entry.code[fn].body[ip].n = 0
                 ELSE Inferred(entry.code[fn].body, entry.code)[ElseOf(entry.code[fn].body, ip) + 1]
                      = Base(entry.code[fn].body, entry.code, Inferred(entry.code[fn].body, entry.code), ip)
      BY <3>1, EnteredBlock
    <3> QED BY <2>1, <3>2 DEF fn
  <2>4. g = h /\ c = Body
    BY <2>1
  <2> HIDE DEF c, g, h
  <2>5. g[ip + 1] = base
    BY <1>6, <1>7, <2>1, <2>2, <2>4
  <2> QED BY <1>1, <2>1, <2>3, <2>4, <2>5
<1>9. /\ b \in ActSet /\ b.fn = Act.fn /\ b.ip = Act.ip /\ b.frames = Act.frames
      /\ Len(b.stack) = base
  BY Popped
<1> HIDE DEF b
<1>10. /\ fr \in FrameSet /\ fr.end = end /\ fr.arity = Body[Act.ip].n /\ fr.height = base
  <2>1. fr \in FrameSet /\ fr.end = end
    <3>1. b.stack \in Seq(Int)
      BY <1>9 DEF ActSet
    <3> QED BY <1>1, <3>1, FrameTyped
  <2>2. fr.arity = Body[Act.ip].n /\ fr.height = Len(b.stack)
    BY DEF Frame
  <2> QED BY <1>9, <2>1, <2>2
<1> HIDE DEF fr, h
<1>11. ASSUME NEW ip \in Int, h[ip] = base, Continue(framed(ip))
       PROVE  HeightInv'
  <2> DEFINE f2 == Append(b.frames, fr)
             a == framed(ip)
  <2>1. f2 \in Seq(FrameSet) /\ f2 = Append(Act.frames, fr)
    BY <1>4, <1>9, <1>10, AppendTyped
  <2>2. a = [b EXCEPT !.ip = ip, !.frames = f2] /\ Continue(a)
    BY <1>11
  <2> HIDE DEF a, f2
  <2>3. a \in ActSet /\ a.fn = Act.fn /\ a.frames = f2 /\ a.ip = ip /\ a.stack = b.stack
    BY <1>9, <2>1, <2>2 DEF ActSet
  <2>4. /\ fr.height = Len(Act.stack) - Takes(Ins, entry.code) /\ Len(a.stack) = fr.height
        /\ Inferred(Body, entry.code)[a.ip] = fr.height
    BY <1>7, <1>9, <1>10, <1>11, <2>3 DEF h
  <2>5. Framed(entry.code, a) /\ Stacked(entry.code, a, 0)
    BY <1>1, <1>5, <1>10, <2>1, <2>3, <2>4, HeightEnters
  <2> QED BY <2>2, <2>3, <2>5, HeightContinues
<1>12. Act.ip + 1 \in Int /\ (els # 0 => els + 1 \in Int) /\ end + 1 \in Int
  <2>1. end \in (Act.ip + 1) .. Len(Body)
    BY <1>4, <1>5, EndsFound
  <2>2. els # 0 => els + 1 \in (Act.ip + 1) .. end
    BY <1>4, <1>5, ElseFound
  <2> QED BY <1>4, <2>1, <2>2
<1>13. ASSUME els = 0, Continue(skipped)
       PROVE  HeightInv'
  <2> DEFINE a == skipped
             ip2 == end + 1
  <2>1. ip2 \in Int /\ a = [b EXCEPT !.ip = ip2] /\ Continue(a) /\ h[ip2] = base
    BY <1>6, <1>8, <1>12, <1>13
  <2> HIDE DEF ip2, a
  <2>2. a \in ActSet /\ a.fn = Act.fn /\ a.frames = Act.frames /\ a.ip = ip2 /\ a.stack = b.stack
    BY <1>9, <2>1 DEF ActSet
  <2>3. Heights(entry.code, a) = h
    BY <1>6, <2>2 DEF Heights
  <2>4. Stacked(entry.code, a, 0)
    BY <1>6, <1>9, <2>1, <2>2, <2>3 DEF Stacked
  <2>5. Framed(entry.code, a)
    <3>1. Len(Act.frames) \in Nat
      BY <1>4, LenProperties
    <3>2. Len(Act.frames) \in 0 .. Len(Act.frames)
      BY <3>1
    <3> QED BY <1>6, <2>2, <3>1, <3>2, FramedKeep
  <2> QED BY <2>1, <2>2, <2>4, <2>5, HeightContinues
<1> HIDE DEF framed, skipped, els, end, base
<1>14. CASE Continue(framed(Act.ip + 1))
  BY <1>8, <1>11, <1>12, <1>14
<1>15. CASE els # 0 /\ Continue(framed(els + 1))
  BY <1>8, <1>11, <1>12, <1>15
<1>16. CASE els = 0 /\ Continue(skipped)
  BY <1>13, <1>16
<1> QED BY <1>2, <1>3, <1>14, <1>15, <1>16

LEMMA CallHeights ==
    ASSUME CtlInv, HeightInv, Call
    PROVE  HeightInv'
<1> DEFINE fn == Ins.n
           n == Code[fn].params
           s2 == Keep(Act.stack, Len(Act.stack) - n)
           caller == [Act EXCEPT !.stack = s2]
           callee == Activation(fn, Results(Act.stack, n) \o Zeros(Code[fn].extra))
           below == Append(FrontOf(acts), caller)
<1>1. InBody /\ Ins.op = "call"
  BY DEF Call
<1>2. \/ Bail
      \/ /\ ~(Len(Act.stack) < n) /\ acts' = Append(below, callee) /\ entry' = entry
  BY DEF Call
<1>3. CASE Bail
  BY <1>3, HeightStays DEF Bail
<1> SUFFICES ASSUME ~(Len(Act.stack) < n), acts' = Append(below, callee), entry' = entry
             PROVE  HeightInv'
  BY <1>2, <1>3
<1>4. /\ acts \in Seq(ActSet) /\ Len(acts) \in Nat /\ Len(acts) >= 1 /\ Act = acts[Len(acts)]
      /\ Act \in ActSet /\ Act.stack \in Seq(Int) /\ Len(Act.stack) \in Nat
      /\ Act.fn \in 1 .. Len(entry.code) /\ Body = entry.code[Act.fn].body
      /\ Ins = entry.code[Act.fn].body[Act.ip]
  BY <1>1, Top, TopInstruction, LenProperties
<1>5. Validated(entry) /\ fn \in 1 .. Len(entry.code) /\ Code = entry.code
  BY <1>1, TopInstruction DEF CtlInv, Immediate, Code
<1>6. n \in Nat /\ Takes(Ins, entry.code) = n
  BY <1>1, <1>5, HeightsFit DEF Takes
<1>7. s2 \in Seq(Int) /\ Len(s2) = Len(Act.stack) - n
  <2> DEFINE l == Len(Act.stack)
             m == n
  <2>2. l \in Nat /\ m \in Nat /\ ~ (l < m)
    BY <1>4, <1>6
  <2> HIDE DEF l, m
  <2>3. l - m \in 0 .. l
    BY <2>2
  <2>1. Len(Act.stack) - n \in 0 .. Len(Act.stack)
    BY <2>3 DEF l, m
  <2> QED BY <1>4, <2>1, KeepTyped
<1> HIDE DEF s2
<1>8. /\ caller \in ActSet /\ caller.fn = Act.fn /\ caller.ip = Act.ip
      /\ caller.frames = Act.frames /\ caller.stack = s2
  BY <1>4, <1>7 DEF ActSet
<1>9. /\ callee.fn = fn /\ callee.ip = 1 /\ callee.stack = <<>> /\ callee.frames = <<>>
  BY DEF Activation
<1> HIDE DEF callee, caller
<1>10. Framed(entry.code, callee) /\ Stacked(entry.code, callee, 0)
  <2>1. 1 .. Len(callee.frames) = {} /\ Len(callee.stack) = 0
    BY <1>9
  <2>2. Inferred(entry.code[fn].body, entry.code)[1] = 0
    BY <1>5, HeightsFit DEF Fits
  <2>3. Heights(entry.code, callee)[callee.ip] = 0
    BY <1>9, <2>2 DEF Heights
  <2> QED BY <2>1, <2>3 DEF Framed, Stacked
<1>11. Framed(entry.code, caller) /\ Awaits(entry.code, caller, fn)
  <2> DEFINE h == Inferred(Body, entry.code)
  <2>1. /\ Heights(entry.code, Act) = h /\ Framed(entry.code, Act) /\ h[Act.ip] = Len(Act.stack)
    BY TopHeight
  <2>2. Heights(entry.code, caller) = h
    BY <1>8, <2>1 DEF Heights
  <2>3. At(entry.code, caller) = Ins
    BY <1>4, <1>8 DEF At
  <2> HIDE DEF h
  <2>4. Awaits(entry.code, caller, fn)
    <3>1. Len(caller.stack) = Heights(entry.code, caller)[caller.ip] - Takes(Ins, entry.code)
      <4>1. Len(caller.stack) = Len(Act.stack) - n
        BY <1>7, <1>8
      <4>2. Heights(entry.code, caller)[caller.ip] = Len(Act.stack)
        BY <1>8, <2>1, <2>2
      <4> QED BY <1>6, <4>1, <4>2
    <3> QED BY <2>3, <3>1 DEF Awaits, Stacked
  <2>5. Framed(entry.code, caller)
    BY <1>8, <2>1, <2>2 DEF Framed
  <2> QED BY <2>4, <2>5
<1>12. /\ below \in Seq(ActSet) /\ Len(below) = Len(acts) /\ below[Len(acts)] = caller
       /\ \A i \in 1 .. (Len(acts) - 1) : below[i] = acts[i]
  <2>1. acts \in Seq(ActSet) /\ Len(acts) >= 1 /\ caller \in ActSet
    BY <1>4, <1>8
  <2> HIDE DEF fn, n
  <2> QED BY <2>1, Replaced
<1> HIDE DEF below, fn
<1>13. /\ Len(acts') = Len(acts) + 1 /\ acts'[Len(acts) + 1] = callee
       /\ acts'[Len(acts)] = caller /\ \A i \in 1 .. (Len(acts) - 1) : acts'[i] = acts[i]
  <2>1. Len(below) \in Nat /\ Len(acts) \in 1 .. Len(below)
        /\ \A i \in 1 .. (Len(acts) - 1) : i \in 1 .. Len(below)
    BY <1>4, <1>12
  <2>2. Len(Append(below, callee)) = Len(below) + 1 /\ Append(below, callee)[Len(below) + 1] = callee
        /\ \A i \in 1 .. Len(below) : Append(below, callee)[i] = below[i]
    BY <1>12, AppendProperties
  <2> QED BY <1>12, <2>1, <2>2
<1>14. \A k \in 1 .. Len(acts') : k \in 1 .. (Len(acts) - 1) \/ k = Len(acts) \/ k = Len(acts) + 1
  BY <1>4, <1>13
<1>15. \A k \in 1 .. Len(acts') : Framed(entry'.code, acts'[k])
  <2>1. \A k \in 1 .. (Len(acts) - 1) : Framed(entry.code, acts[k])
    BY <1>4 DEF HeightInv
  <2> QED BY <1>10, <1>11, <1>13, <1>14, <2>1
<1>16. \A k \in 1 .. (Len(acts') - 1) : Awaits(entry'.code, acts'[k], acts'[k + 1].fn)
  <2>1. TAKE k \in 1 .. (Len(acts') - 1)
  <2>2. CASE k = Len(acts)
    BY <1>9, <1>11, <1>13, <2>2
  <2>3. CASE k # Len(acts)
    <3>1. k \in 1 .. (Len(acts) - 1) /\ k + 1 \in 1 .. Len(acts)
      BY <1>4, <1>13, <2>3
    <3>2. acts'[k + 1].fn = acts[k + 1].fn
      <4>1. CASE k + 1 = Len(acts)
        BY <1>4, <1>8, <1>13, <4>1
      <4>2. CASE k + 1 # Len(acts)
        <5>1. k + 1 \in 1 .. (Len(acts) - 1)
          BY <1>4, <3>1, <4>2
        <5> QED BY <1>13, <5>1
      <4> QED BY <4>1, <4>2
    <3> QED BY <1>13, <3>1, <3>2 DEF HeightInv
  <2> QED BY <2>2, <2>3
<1>17. Stacked(entry'.code, acts'[Len(acts')], 0)
  BY <1>10, <1>13
<1> QED BY <1>15, <1>16, <1>17 DEF HeightInv

LEMMA ReturnHeights ==
    ASSUME CtlInv, HeightInv, Return
    PROVE  HeightInv'
<1> DEFINE arity == Code[Act.fn].arity
           answer == Results(Act.stack, arity)
           callers == FrontOf(acts)
           c == LastOf(callers)
           a == Next1(c, c.stack \o answer)
           m == Len(acts) - 1
<1>1. \/ UNCHANGED <<entry, acts>>
      \/ /\ ~(Len(Act.stack) < arity) /\ Len(acts) # 1
         /\ acts' = Append(FrontOf(callers), a) /\ entry' = entry
  BY DEF Return, Bail
<1>2. CASE UNCHANGED <<entry, acts>>
  BY <1>2, HeightStays
<1> SUFFICES ASSUME ~(Len(Act.stack) < arity), Len(acts) # 1,
                    acts' = Append(FrontOf(callers), a), entry' = entry
             PROVE  HeightInv'
  BY <1>1, <1>2
<1>3. /\ acts \in Seq(ActSet) /\ Len(acts) \in Nat /\ m \in Nat /\ m >= 1 /\ Len(acts) = m + 1
      /\ Act = acts[m + 1] /\ Act.stack \in Seq(Int) /\ Len(Act.stack) \in Nat
      /\ Act.fn \in 1 .. Len(entry.code)
  <2> DEFINE l == Len(acts)
  <2>1. l \in Nat /\ l >= 1 /\ l # 1
    BY Top
  <2> HIDE DEF l
  <2>2. l - 1 \in Nat /\ l - 1 >= 1 /\ l = (l - 1) + 1
    BY <2>1
  <2> QED BY <2>1, <2>2, Top, LenProperties DEF l
<1> HIDE DEF m
<1>4. /\ callers \in Seq(ActSet) /\ Len(callers) = m /\ \A i \in 1 .. m : callers[i] = acts[i]
  <2>1. Len(acts) >= 1
    BY <1>3
  <2>2. /\ FrontOf(acts) \in Seq(ActSet) /\ Len(FrontOf(acts)) = Len(acts) - 1
        /\ \A i \in 1 .. (Len(acts) - 1) : FrontOf(acts)[i] = acts[i]
    BY <1>3, <2>1, FrontTyped
  <2>3. Len(acts) - 1 = m
    BY <1>3
  <2> QED BY <2>2, <2>3
<1>5. Validated(entry) /\ Code = entry.code
  BY DEF CtlInv, Code
<1>6. answer \in Seq(Int) /\ Len(answer) = arity /\ arity \in Nat
  <2>1. arity \in Nat
    BY <1>3, <1>5, HeightsFit
  <2> HIDE DEF arity
  <2>2. arity \in 0 .. Len(Act.stack)
    BY <1>3, <2>1
  <2> QED BY <1>3, <2>1, <2>2, ResultsTyped
<1>7. /\ c = acts[m] /\ c \in ActSet /\ ActOK(entry.code, c) /\ Calling(entry.code, c)
      /\ Framed(entry.code, c) /\ Awaits(entry.code, c, Act.fn)
  <2>1. m \in 1 .. m /\ m \in 1 .. Len(acts) /\ m \in 1 .. (Len(acts) - 1)
    BY <1>3
  <2>2. c = acts[m]
    BY <1>4, <2>1 DEF LastOf
  <2> QED BY <1>3, <2>1, <2>2 DEF CtlInv, ActOK, HeightInv
<1> HIDE DEF answer, arity, c
<1>8. a \in ActSet /\ a.fn = c.fn /\ a.ip = c.ip + 1 /\ a.frames = c.frames /\ a.stack = c.stack \o answer
  <2>1. c.stack \o answer \in Seq(Int)
    BY <1>6, <1>7, ConcatProperties DEF ActSet
  <2> QED BY <1>7, <2>1, Moved
<1> HIDE DEF a
<1>9. Framed(entry.code, a) /\ Stacked(entry.code, a, 0)
  <2> DEFINE ip == c.ip
             f == c.fn
             body == entry.code[f].body
             h == Inferred(body, entry.code)
             takes == Takes(body[ip], entry.code)
             gives == Gives(body[ip], entry.code)
  <2>1. /\ f \in 1 .. Len(entry.code) /\ ip \in 1 .. Len(body) /\ body[ip].op = "call"
        /\ Heights(entry.code, c) = h /\ Heights(entry.code, a) = h
        /\ At(entry.code, c) = body[ip]
    <3>1. /\ f \in 1 .. Len(entry.code) /\ ip \in 1 .. (Len(body) + 1)
          /\ ip <= Len(body) /\ body[ip].op = "call"
      BY <1>7 DEF ActOK, Calling
    <3>2. Len(body) \in Nat
      BY <1>5, <3>1, HeightsFit
    <3>3. ip \in 1 .. Len(body)
      <4> HIDE DEF ip, body
      <4> QED BY <3>1, <3>2
    <3>4. Heights(entry.code, c) = h /\ Heights(entry.code, a) = h /\ At(entry.code, c) = body[ip]
      BY <1>8 DEF Heights, At
    <3> QED BY <3>1, <3>3, <3>4
  <2>2. Len(c.stack) = h[ip] - takes /\ body[ip].n = Act.fn
    BY <1>7, <2>1 DEF Awaits, Stacked
  <2>3. gives = arity /\ Follows(body[ip])
    BY <1>5, <2>1, <2>2 DEF Gives, Follows, Jumps, Opens, arity
  <2>4. takes \in Nat /\ Immediate(body[ip], Len(entry.code))
    BY <1>5, <2>1, HeightsFit, TakesTyped
  <2>5. Len(c.stack) \in Nat /\ Len(c.frames) \in Nat
    BY <1>7, LenProperties DEF ActSet
  <2>6. h[ip] \in Nat \cup {Dead}
    <3>1. Fits(body, entry.code, h) /\ Len(body) \in Nat
      BY <1>5, <2>1, HeightsFit
    <3> HIDE DEF h, body, ip
    <3>2. ip \in 1 .. (Len(body) + 1)
      BY <2>1, <3>1
    <3> QED BY <3>1, <3>2 DEF Fits
  <2>7. h[ip] # Dead
    <3> HIDE DEF h, takes
    <3> QED BY <2>2, <2>4, <2>5, <2>6 DEF Dead
  <2>8. h[ip] \in Nat /\ h[ip + 1] = h[ip] - takes + gives
    BY <1>5, <2>1, <2>3, <2>7, HeightAfter
  <2>9. Len(a.stack) = Len(c.stack) + arity
    <3> DEFINE x == c.stack
               y == answer
    <3>1. x \in Seq(Int) /\ y \in Seq(Int) /\ a.stack = x \o y /\ Len(y) = arity
      BY <1>6, <1>7, <1>8 DEF ActSet
    <3> HIDE DEF x, y
    <3>2. Len(x \o y) = Len(x) + Len(y)
      BY <3>1, ConcatProperties
    <3> QED BY <3>1, <3>2 DEF x
  <2>10. Stacked(entry.code, a, 0)
    <3>1. a.ip = ip + 1
      BY <1>8
    <3> HIDE DEF h, takes, gives, ip
    <3>2. Len(a.stack) = h[a.ip] - 0
      BY <1>6, <2>2, <2>3, <2>4, <2>8, <2>9, <3>1
    <3> QED BY <2>1, <3>2 DEF Stacked
  <2>11. Framed(entry.code, a)
    <3>1. Len(c.frames) \in 0 .. Len(c.frames)
      BY <2>5
    <3> QED BY <1>7, <1>8, <2>5, <3>1, FramedKeep
  <2> QED BY <2>10, <2>11
<1> HIDE DEF callers
<1>10. /\ Len(acts') = m /\ acts'[m] = a
       /\ \A i \in 1 .. (m - 1) : acts'[i] = callers[i]
  <2>1. callers \in Seq(ActSet) /\ Len(callers) >= 1 /\ a \in ActSet
    BY <1>3, <1>4, <1>8
  <2> DEFINE r == Append(FrontOf(callers), a)
  <2>2. acts' = r
    OBVIOUS
  <2>3. /\ Len(r) = Len(callers) /\ r[Len(callers)] = a
        /\ \A i \in 1 .. (Len(callers) - 1) : r[i] = callers[i]
    BY <2>1, Replaced
  <2> HIDE DEF r
  <2> QED BY <1>4, <2>2, <2>3
<1>11. /\ \A k \in 1 .. m : k = m \/ k \in 1 .. (m - 1)
       /\ \A k \in 1 .. (m - 1) : /\ k \in 1 .. m /\ k \in 1 .. Len(acts) /\ k \in 1 .. (Len(acts) - 1)
                                  /\ (k + 1 = m \/ k + 1 \in 1 .. (m - 1)) /\ k + 1 \in 1 .. m
  BY <1>3
<1>12. \A k \in 1 .. (m - 1) : acts'[k] = acts[k] /\ acts'[k + 1].fn = acts[k + 1].fn
  <2>1. \A k \in 1 .. (m - 1) : acts'[k] = acts[k]
    BY <1>4, <1>10, <1>11
  <2> QED BY <1>7, <1>8, <1>10, <1>11, <2>1
<1>13. \A k \in 1 .. Len(acts') : Framed(entry'.code, acts'[k])
  BY <1>9, <1>10, <1>11, <1>12 DEF HeightInv
<1>14. \A k \in 1 .. (Len(acts') - 1) : Awaits(entry'.code, acts'[k], acts'[k + 1].fn)
  BY <1>10, <1>11, <1>12 DEF HeightInv
<1>15. Stacked(entry'.code, acts'[Len(acts')], 0)
  BY <1>9, <1>10
<1> QED BY <1>13, <1>14, <1>15 DEF HeightInv

-----------------------------------------------------------------------------
LEMMA HeightInvInit ==
    ASSUME Init
    PROVE  HeightInv
<1> DEFINE a == Activation(1, entry.locals \o Zeros(entry.code[1].extra))
<1>1. acts = <<a>> /\ Validated(entry)
  BY EntriesAssumption DEF Init
<1>2. 1 \in 1 .. Len(entry.code)
  BY <1>1 DEF Validated
<1>3. a.fn = 1 /\ a.ip = 1 /\ a.stack = <<>> /\ a.frames = <<>>
  BY DEF Activation
<1> HIDE DEF a
<1>4. Len(acts) = 1 /\ acts[1] = a
  BY <1>1
<1>5. Framed(entry.code, a) /\ Stacked(entry.code, a, 0)
  <2>1. 1 .. Len(a.frames) = {} /\ Len(a.stack) = 0
    BY <1>3
  <2>2. Inferred(entry.code[1].body, entry.code)[1] = 0
    BY <1>1, <1>2, HeightsFit DEF Fits
  <2>3. Heights(entry.code, a)[a.ip] = 0
    BY <1>3, <2>2 DEF Heights
  <2> QED BY <2>1, <2>3 DEF Framed, Stacked
<1>6. 1 .. (Len(acts) - 1) = {} /\ 1 .. Len(acts) = {1}
  BY <1>4
<1> QED BY <1>4, <1>5, <1>6 DEF HeightInv

LEMMA HeightInvStep ==
    ASSUME CtlInv, HeightInv, [Next]_vars
    PROVE  HeightInv'
<1>1. CASE UNCHANGED <<entry, acts>>
  BY <1>1, HeightStays
<1>2. CASE Next
  BY <1>1, <1>2, OutOfBudgetHeights, StraightLineHeights, EnterBlockHeights, EnterIfHeights,
     JumpsHeights, CallHeights, ReturnHeights DEF Next, Halted, vars
<1> QED BY <1>1, <1>2 DEF vars

(* The machine's operand stack has, at every instruction it reaches, the   *)
(* height the validator gave that instruction, and every frame the height  *)
(* its block was entered at: dk_exit_block and dk_branch cut where wasm    *)
(* says, a call takes its parameters and gives its results.                *)
THEOREM HeightInvInductive == Spec => []HeightInv
<1>1. Init => CtlInv /\ HeightInv
  BY CtlInvInit, HeightInvInit
<1>2. (CtlInv /\ HeightInv) /\ [Next]_vars => (CtlInv /\ HeightInv)'
  BY CtlInvStep, HeightInvStep
<1> QED BY <1>1, <1>2, PTL DEF Spec

(* The heights that validation gives nested blocks are nested.             *)
LEMMA BasesNest ==
    ASSUME NEW e, Validated(e), NEW fn \in 1 .. Len(e.code),
           NEW s \in Openers(e.code[fn].body), NEW t \in Openers(e.code[fn].body),
           s < t, t <= EndOf(e.code[fn].body, s),
           Entered(e.code[fn].body, Inferred(e.code[fn].body, e.code), s),
           Entered(e.code[fn].body, Inferred(e.code[fn].body, e.code), t)
    PROVE  Base(e.code[fn].body, e.code, Inferred(e.code[fn].body, e.code), s)
           <= Base(e.code[fn].body, e.code, Inferred(e.code[fn].body, e.code), t)
<1> DEFINE body == e.code[fn].body
           h == Inferred(body, e.code)
<1>1. \A j \in (s + 1) .. EndOf(body, s) :
          h[j] # Dead => h[j] - Takes(body[j], e.code) >= Base(body, e.code, h, s)
  BY EnteredBlock
<1>2. Base(body, e.code, h, s) \in Int /\ Base(body, e.code, h, t) \in Int
  BY EnteredBlock
<1>3. t \in (s + 1) .. EndOf(body, s) /\ h[t] # Dead
  <2>1. s \in Int /\ t \in Int /\ EndOf(body, s) \in Int
    <3>1. Len(body) \in Nat /\ Paired(body) /\ s \in Openers(body) /\ t \in Openers(body)
      BY HeightsFit
    <3> HIDE DEF body
    <3> QED BY <3>1, EndsFound DEF Openers
  <2> QED BY <2>1 DEF Entered
<1> HIDE DEF h, body
<1>4. h[t] - Takes(body[t], e.code) >= Base(body, e.code, h, s)
  BY <1>1, <1>3
<1>5. Base(body, e.code, h, t) = h[t] - Takes(body[t], e.code)
  BY DEF Base
<1>6. Base(body, e.code, h, s) <= Base(body, e.code, h, t)
  BY <1>2, <1>4, <1>5
<1> QED BY <1>6 DEF h, body

(* The frames' heights are nested, and below the operands: no block, and   *)
(* no branch out of one, takes an operand of the blocks around it.         *)
THEOREM OperandsStayBelow == Spec => []OperandsNest
<1>1. ASSUME CtlInv, HeightInv, NEW k \in 1 .. Len(acts) PROVE HeightsNest(acts[k])
  <2> DEFINE a == acts[k]
             fn == a.fn
             ip == a.ip
             body == entry.code[fn].body
             h == Inferred(body, entry.code)
             n == Len(a.frames)
  <2>1. /\ ActOK(entry.code, a) /\ Validated(entry) /\ Framed(entry.code, a)
        /\ Heights(entry.code, a) = h /\ Len(acts) \in Nat
    BY <1>1 DEF CtlInv, HeightInv, Heights
  <2>2. \E taken : Stacked(entry.code, a, taken)
                   /\ (taken = 0 \/ taken = Takes(body[ip], entry.code))
    <3>1. CASE k = Len(acts)
      BY <1>1, <3>1 DEF HeightInv
    <3>2. CASE k # Len(acts)
      <4>1. k \in 1 .. (Len(acts) - 1)
        BY <2>1, <3>2
      <4>2. Awaits(entry.code, a, acts[k + 1].fn)
        BY <1>1, <4>1 DEF HeightInv
      <4>3. At(entry.code, a) = body[ip]
        BY DEF At
      <4> HIDE DEF a, body, ip
      <4> QED BY <4>2, <4>3 DEF Awaits
    <3> QED BY <3>1, <3>2
  <2> HIDE DEF a
  <2>3. /\ a \in ActSet /\ a.frames \in Seq(FrameSet) /\ ip \in Int /\ Len(a.stack) \in Nat
        /\ Nests(body, ip, a.frames) /\ ip \in 1 .. (Len(body) + 1)
        /\ Len(body) \in Nat /\ Paired(body) /\ fn \in 1 .. Len(entry.code) /\ n \in Nat
    BY <2>1, HeightsFit, LenProperties DEF ActOK, ActSet
  <2>4. PICK st : NestedAt(body, ip, a.frames, st)
    BY <2>3 DEF Nests
  <2>5. ASSUME NEW i \in 1 .. n
        PROVE  /\ st[i] \in Openers(body) /\ st[i] \in Int /\ st[i] < ip /\ ip <= EndOf(body, st[i])
               /\ EndOf(body, st[i]) \in (st[i] + 1) .. Len(body)
               /\ Entered(body, h, st[i])
               /\ a.frames[i].height = Base(body, entry.code, h, st[i])
    <3> HIDE DEF h, body, ip
    <3>1. st[i] \in Around(body, ip) /\ a.frames[i].end = EndOf(body, st[i])
      BY <2>3, <2>4, NestedTyped
    <3>2. /\ st[i] \in Openers(body) /\ st[i] \in Int /\ st[i] < ip /\ ip <= EndOf(body, st[i])
          /\ EndOf(body, st[i]) \in (st[i] + 1) .. Len(body)
      BY <2>3, <3>1, AroundTyped
    <3>3. Frames(body, entry.code, h, st[i], a.frames[i])
      BY <2>1, <3>1, <3>2 DEF Framed, body
    <3> QED BY <3>2, <3>3 DEF Frames
  <2>6. ASSUME NEW i \in 1 .. n, NEW j \in 1 .. n, i < j
        PROVE  a.frames[i].height <= a.frames[j].height
    <3>1. st[i] < st[j]
      BY <2>4, <2>6 DEF NestedAt
    <3> DEFINE s == st[i]
               t == st[j]
    <3>2. /\ s \in Openers(body) /\ t \in Openers(body) /\ s < t /\ t <= EndOf(body, s)
          /\ Entered(body, h, s) /\ Entered(body, h, t)
      <4>1. /\ t \in Int /\ t < ip /\ ip <= EndOf(body, s) /\ EndOf(body, s) \in Int
        BY <2>5
      <4> QED BY <2>3, <2>5, <3>1, <4>1
    <3> HIDE DEF s, t, fn
    <3>3. Base(body, entry.code, h, s) <= Base(body, entry.code, h, t)
      BY <2>1, <2>3, <3>2, BasesNest
    <3> QED BY <2>5, <3>3 DEF s, t
  <2>7. ASSUME NEW i \in 1 .. n
        PROVE  a.frames[i].height <= Len(a.stack)
    <3> DEFINE s == st[i]
               takes == Takes(body[ip], entry.code)
    <3>1. /\ s \in Openers(body) /\ Entered(body, h, s) /\ s \in Int /\ s < ip /\ ip <= EndOf(body, s)
          /\ EndOf(body, s) \in Int /\ EndOf(body, s) <= Len(body)
          /\ a.frames[i].height = Base(body, entry.code, h, s)
      BY <2>5
    <3> HIDE DEF s
    <3>2. ip \in 1 .. Len(body) /\ ip \in (s + 1) .. EndOf(body, s)
      <4> HIDE DEF ip, body
      <4>1. \A l, x, y, z \in Int : x < y /\ y <= z /\ z <= l /\ y \in 1 .. (l + 1)
                                   => y \in 1 .. l /\ y \in (x + 1) .. z
        OBVIOUS
      <4>2. Len(body) \in Int
        BY <2>3
      <4> QED BY <2>3, <3>1, <4>1, <4>2
    <3>3. takes \in Nat
      BY <2>1, <2>3, <3>2, HeightsFit, TakesTyped
    <3>4. h[ip] \in Nat \cup {Dead}
      <4>1. Fits(body, entry.code, h)
        BY <2>1, <2>3, HeightsFit
      <4> HIDE DEF h, body, ip
      <4> QED BY <2>3, <4>1 DEF Fits
    <3>5. PICK taken : Stacked(entry.code, a, taken) /\ (taken = 0 \/ taken = takes)
      BY <2>2
    <3> HIDE DEF takes
    <3>6. Len(a.stack) = h[ip] - taken
      BY <2>1, <3>5 DEF Stacked
    <3>7. h[ip] # Dead
      <4> HIDE DEF h
      <4> QED BY <2>3, <3>3, <3>4, <3>5, <3>6 DEF Dead
    <3>8. h[ip] - takes >= Base(body, entry.code, h, s) /\ Base(body, entry.code, h, s) \in Int
      <4> HIDE DEF fn, ip
      <4>1. /\ Base(body, entry.code, h, s) \in Int
            /\ \A j \in (s + 1) .. EndOf(body, s) :
                   h[j] # Dead => h[j] - Takes(body[j], entry.code) >= Base(body, entry.code, h, s)
        BY <2>1, <2>3, <3>1, EnteredBlock
      <4> HIDE DEF h, body
      <4> QED BY <3>2, <3>7, <4>1 DEF takes
    <3> HIDE DEF h, ip, body
    <3>9. h[ip] \in Nat
      BY <3>4, <3>7
    <3>10. Base(body, entry.code, h, s) <= Len(a.stack)
      BY <3>3, <3>5, <3>6, <3>8, <3>9
    <3> QED BY <3>1, <3>10
  <2> QED BY <2>6, <2>7 DEF HeightsNest, a
<1>2. CtlInv /\ HeightInv => OperandsNest
  BY <1>1 DEF OperandsNest
<1> QED BY <1>2, CtlInvInductive, HeightInvInductive, PTL
=============================================================================
