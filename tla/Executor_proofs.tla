--------------------------- MODULE Executor_proofs ---------------------------
(***************************************************************************)
(* Machine-checked proofs about the worker's run of an input, for any      *)
(* widths of bytes and doubles, any buffers, sequences of calls and        *)
(* provider calls, and any size of the coverage map.                       *)
(***************************************************************************)
EXTENDS Executor, Inductions

USE WidthAssumption

-----------------------------------------------------------------------------
(* Powers of two.                                                          *)

LEMMA PowerFacts ==
  /\ TwoTo \in [Nat -> Nat] /\ TwoTo[0] = 1
  /\ \A n \in Nat : TwoTo[n + 1] = 2 * TwoTo[n]
<1> DEFINE step == [k \in Nat |-> [y \in Nat |-> 2 * y]]
           Body(g, n) == IF n = 0 THEN 1 ELSE 2 * g[n - 1]
<1>1. PICK f \in [Nat -> Nat] : Iterates(f, Nat, 1, step)
  <2>1. \A k \in Nat : \A y \in Nat : step[k][y] \in Nat
    OBVIOUS
  <2> HIDE DEF step
  <2> QED BY <2>1, Iteration
<1>2. f = [n \in Nat |-> Body(f, n)]
  <2>1. f = [n \in Nat |-> IF n = 0 THEN 1 ELSE step[n][f[n - 1]]]
    BY <1>1 DEF Iterates
  <2>2. \A n \in Nat : n # 0 => f[n - 1] \in Nat
    OBVIOUS
  <2>3. \A n \in Nat : (IF n = 0 THEN 1 ELSE step[n][f[n - 1]]) = Body(f, n)
    BY <2>2
  <2> QED BY <2>1, <2>3
<1>3. TwoTo = [n \in Nat |-> Body(TwoTo, n)]
  <2>1. TwoTo = CHOOSE g : g = [n \in Nat |-> Body(g, n)]
    BY DEF TwoTo
  <2> HIDE DEF Body
  <2> QED BY <1>2, <2>1
<1>4. \A n \in Nat : TwoTo[n] = IF n = 0 THEN 1 ELSE 2 * TwoTo[n - 1]
  BY <1>3
<1>5. \A n \in Nat : TwoTo[n + 1] = 2 * TwoTo[n]
  <2>1. \A n \in Nat : n + 1 \in Nat /\ n + 1 # 0 /\ (n + 1) - 1 = n
    OBVIOUS
  <2> QED BY <1>4, <2>1
<1> DEFINE Good == {n \in Nat : TwoTo[n] \in Nat}
<1>6. Nat \subseteq Good
  <2>1. 0 \in Good
    BY <1>4
  <2>2. \A n \in Nat : n \in Good => n + 1 \in Good
    BY <1>5
  <2> HIDE DEF Good
  <2> QED BY <2>1, <2>2, Induction
<1>7. TwoTo \in [Nat -> Nat]
  <2>1. TwoTo = [n \in Nat |-> TwoTo[n]]
    BY <1>3
  <2> QED BY <1>6, <2>1
<1> QED BY <1>4, <1>5, <1>7

LEMMA PowersGrow ==
  /\ \A n \in Nat : TwoTo[n] > n
  /\ \A m, n \in Nat : m <= n => TwoTo[m] <= TwoTo[n]
<1> DEFINE Big == {n \in Nat : TwoTo[n] > n}
<1>1. Nat \subseteq Big
  <2>1. 0 \in Big
    BY PowerFacts
  <2>2. ASSUME NEW n \in Nat, n \in Big PROVE n + 1 \in Big
    BY <2>2, PowerFacts
  <2> HIDE DEF Big
  <2> QED BY <2>1, <2>2, Induction
<1>2. ASSUME NEW m \in Nat PROVE \A n \in Nat : m <= n => TwoTo[m] <= TwoTo[n]
  <2> DEFINE Above == {d \in Nat : TwoTo[m] <= TwoTo[m + d]}
  <2>1. 0 \in Above
    BY PowerFacts
  <2>2. ASSUME NEW d \in Nat, d \in Above PROVE d + 1 \in Above
    <3>1. TwoTo[m + (d + 1)] = 2 * TwoTo[m + d]
      <4>1. m + (d + 1) = (m + d) + 1 /\ m + d \in Nat
        OBVIOUS
      <4> QED BY <4>1, PowerFacts
    <3>2. TwoTo[m] \in Nat /\ TwoTo[m + d] \in Nat
      BY PowerFacts
    <3> QED BY <2>2, <3>1, <3>2
  <2>3. Nat \subseteq Above
    <3> HIDE DEF Above
    <3> QED BY <2>1, <2>2, Induction
  <2> SUFFICES ASSUME NEW n \in Nat, m <= n PROVE TwoTo[m] <= TwoTo[n]
    OBVIOUS
  <2>4. n - m \in Above
    <3>1. n - m \in Nat
      OBVIOUS
    <3> HIDE DEF Above
    <3> QED BY <2>3, <3>1
  <2>5. m + (n - m) = n
    OBVIOUS
  <2> QED BY <2>4, <2>5
<1> QED BY <1>1, <1>2

LEMMA PowerProduct ==
  ASSUME NEW m \in Nat
  PROVE  \A n \in Nat : TwoTo[m + n] = TwoTo[m] * TwoTo[n]
<1> DEFINE Good == {n \in Nat : TwoTo[m + n] = TwoTo[m] * TwoTo[n]}
<1>1. \A n \in Nat : TwoTo[n] \in Nat
  BY PowerFacts
<1>2. 0 \in Good
  <2>1. m + 0 = m /\ TwoTo[0] = 1 /\ TwoTo[m] * 1 = TwoTo[m]
    BY <1>1, PowerFacts
  <2> QED BY <2>1
<1>3. ASSUME NEW n \in Nat, n \in Good PROVE n + 1 \in Good
  <2>1. m + (n + 1) = (m + n) + 1 /\ m + n \in Nat
    OBVIOUS
  <2>2. TwoTo[m + (n + 1)] = 2 * TwoTo[m + n] /\ TwoTo[n + 1] = 2 * TwoTo[n]
    BY <2>1, PowerFacts
  <2> DEFINE a == TwoTo[m]
             b == TwoTo[n]
  <2>3. a \in Nat /\ b \in Nat /\ TwoTo[m + n] = a * b
    BY <1>1, <1>3
  <2> HIDE DEF a, b
  <2>4. 2 * (a * b) = a * (2 * b)
    BY <2>3
  <2>5. TwoTo[m + (n + 1)] = a * TwoTo[n + 1]
    BY <2>2, <2>3, <2>4 DEF b
  <2> QED BY <2>5 DEF a
<1> HIDE DEF Good
<1>4. Nat \subseteq Good
  BY <1>2, <1>3, Induction
<1> QED BY <1>4 DEF Good

LEMMA Inside ==
  ASSUME NEW a \in Int, NEW left \in Nat, NEW len \in Nat, NEW x \in a .. (a + left - 1),
         a >= 0, a + left <= len
  PROVE  x + 1 \in 1..len
  OBVIOUS

LEMMA Products ==
  ASSUME NEW a \in Nat, NEW b \in Nat
  PROVE  a * b \in Nat
  OBVIOUS

LEMMA Widths ==
  ASSUME NEW m \in Nat, NEW n \in Nat, m <= n
  PROVE  /\ ByteBits * m \in Nat /\ ByteBits * m <= ByteBits * n /\ n <= ByteBits * n
         /\ ByteBits * (n + 1) = ByteBits * n + ByteBits
         /\ ByteBits \in Nat /\ ByteBits >= 1
  OBVIOUS

(* The number of values of n bytes.                                        *)
LEMMA ValuesFacts ==
  /\ ValuesOf(0) = 1 /\ Base = ValuesOf(1) /\ Base \in Nat /\ Base >= 2
  /\ \A n \in Nat : ValuesOf(n) \in Nat /\ ValuesOf(n) > n /\ ValuesOf(n) >= 1
  /\ \A m, n \in Nat : m <= n => ValuesOf(m) <= ValuesOf(n)
<1>1. ASSUME NEW n \in Nat PROVE ValuesOf(n) \in Nat /\ ValuesOf(n) > n
  <2>1. ByteBits * n \in Nat /\ n <= ByteBits * n
    <3>1. n <= n
      OBVIOUS
    <3> QED BY <3>1, Widths
  <2>2. TwoTo[ByteBits * n] \in Nat /\ TwoTo[ByteBits * n] > ByteBits * n
    BY <2>1, PowerFacts, PowersGrow
  <2> QED BY <2>1, <2>2 DEF ValuesOf
<1>2. ASSUME NEW m \in Nat, NEW n \in Nat, m <= n PROVE ValuesOf(m) <= ValuesOf(n)
  <2>1. ByteBits * m \in Nat /\ ByteBits * m <= ByteBits * n
    BY <1>2, Widths
  <2>2. ByteBits * n \in Nat
    <3>1. n <= n
      OBVIOUS
    <3> QED BY <3>1, Widths
  <2> QED BY <2>1, <2>2, PowersGrow DEF ValuesOf
<1>3. ValuesOf(0) = 1
  <2>1. ByteBits * 0 = 0
    OBVIOUS
  <2> QED BY <2>1, PowerFacts DEF ValuesOf
<1>4. Base = ValuesOf(1) /\ ValuesOf(1) > 1
  BY <1>1 DEF Base
<1> QED BY <1>1, <1>2, <1>3, <1>4

(* Every range fits some number of bytes, and no fewer are taken.          *)
LEMMA BytesForFacts ==
  ASSUME NEW range \in Nat, range # 0
  PROVE  /\ BytesFor(range) \in Nat /\ BytesFor(range) > 0
         /\ range < ValuesOf(BytesFor(range))
         /\ \A m \in Nat : range < ValuesOf(m) => BytesFor(range) <= m
<1> DEFINE S == {n \in Nat : ValuesOf(n) > range}
           b == BytesFor(range)
<1>1. range \in S
  BY ValuesFacts
<1>2. PICK n \in S : \A k \in S : n <= k
  <2>1. S \in SUBSET Nat /\ S # {}
    BY <1>1
  <2> HIDE DEF S
  <2> QED BY <2>1, LeastNatural
<1>3. n \in 0..range /\ ValuesOf(n) > range
  BY <1>1, <1>2
<1>4. n > 0 => ValuesOf(n - 1) <= range
  <2> SUFFICES ASSUME n > 0, ~(ValuesOf(n - 1) <= range) PROVE FALSE
    OBVIOUS
  <2>1. n - 1 \in Nat /\ ValuesOf(n - 1) \in Nat
    BY ValuesFacts
  <2>2. n - 1 \in S
    BY <2>1
  <2> HIDE DEF S
  <2> QED BY <1>2, <1>3, <2>1, <2>2
<1>5. b \in 0..range /\ ValuesOf(b) > range /\ (b > 0 => ValuesOf(b - 1) <= range)
  BY <1>3, <1>4 DEF BytesFor
<1> HIDE DEF b
<1>6. b # 0
  BY <1>5, ValuesFacts
<1>7. ASSUME NEW m \in Nat, range < ValuesOf(m) PROVE b <= m
  <2> SUFFICES ASSUME ~(b <= m) PROVE FALSE
    OBVIOUS
  <2>1. m <= b - 1 /\ b - 1 \in Nat /\ b > 0
    BY <1>5
  <2>2. ValuesOf(m) <= ValuesOf(b - 1) /\ ValuesOf(m) \in Nat /\ ValuesOf(b - 1) \in Nat
    BY <2>1, ValuesFacts
  <2> QED BY <1>5, <1>7, <2>1, <2>2
<1> QED BY <1>5, <1>6, <1>7, ValuesFacts DEF b

-----------------------------------------------------------------------------
(* Providers and what their methods return.                                *)

Results == [fdp : Providers, out : Seq(Int), threw : BOOLEAN, read : SUBSET Int]

(* Results of a call on p that read the bytes they took away.              *)
UsedUp(p) ==
  {r \in Results : /\ r.fdp.data = p.data /\ Window(r.fdp) \subseteq Window(p)
                   /\ r.read = Window(p) \ Window(r.fdp)}

LEMMA ProviderFacts ==
  ASSUME NEW p \in Providers
  PROVE  /\ p.data \in Bytes /\ Len(p.data) \in Nat /\ p.ptr \in Int /\ p.left \in Nat
         /\ p = [data |-> p.data, ptr |-> p.ptr, left |-> p.left]
         /\ \A i \in 1..Len(p.data) : p.data[i] \in 0 .. Base - 1
         /\ p.left # 0 => p.ptr >= 0 /\ p.ptr + p.left <= Len(p.data) /\ p.data # <<>>
         /\ p.data # <<>> => p.ptr >= 0 /\ p.ptr + p.left <= Len(p.data)
         /\ p.data = <<>> => p = New(<<>>) /\ p.left = 0
         /\ Window(p) = p.ptr .. (p.ptr + p.left - 1)
<1>1. /\ p \in [data : Bytes, ptr : Int, left : Nat]
      /\ IF p.data = <<>> THEN p = New(<<>>) ELSE p.ptr >= 0 /\ p.ptr + p.left <= Len(p.data)
  BY DEF Providers
<1>2. p.data \in Bytes /\ p.ptr \in Int /\ p.left \in Nat
      /\ p = [data |-> p.data, ptr |-> p.ptr, left |-> p.left]
  BY <1>1
<1>3. Len(p.data) \in Nat /\ \A i \in 1..Len(p.data) : p.data[i] \in 0 .. Base - 1
  <2> DEFINE B == 0 .. Base - 1
             d == p.data
  <2>1. d \in Seq(B)
    BY <1>2 DEF Bytes
  <2> HIDE DEF B, d
  <2>2. Len(d) \in Nat /\ \A i \in 1..Len(d) : d[i] \in B
    BY <2>1
  <2> QED BY <2>2 DEF B, d
<1>4. p.data = <<>> => p.left = 0
  BY <1>1 DEF New
<1>5. Window(p) = p.ptr .. (p.ptr + p.left - 1)
  <2>1. ASSUME NEW x \in p.ptr .. (p.ptr + p.left - 1) PROVE x \in Window(p)
    <3>1. x - p.ptr \in 0 .. p.left - 1 /\ x = p.ptr + (x - p.ptr)
      BY <1>2
    <3> QED BY <3>1 DEF Window
  <2>2. ASSUME NEW i \in 0 .. p.left - 1 PROVE p.ptr + i \in p.ptr .. (p.ptr + p.left - 1)
    BY <1>2
  <2> QED BY <2>1, <2>2 DEF Window
<1> QED BY <1>1, <1>2, <1>3, <1>4, <1>5

HIDE WidthAssumption

LEMMA SmallerFacts ==
  ASSUME NEW a \in Int, NEW b \in Int
  PROVE  /\ Smaller(a, b) \in Int /\ Smaller(a, b) <= a /\ Smaller(a, b) <= b
         /\ Smaller(a, b) = a \/ Smaller(a, b) = b
  BY DEF Smaller

LEMMA BackFacts ==
  ASSUME NEW p \in Providers, NEW n \in 0..p.left
  PROVE  /\ BackTaken(p, n) \in Providers /\ BackTaken(p, n).data = p.data
         /\ BackTaken(p, n).left = p.left - n /\ BackTaken(p, n).ptr = p.ptr
         /\ Window(BackTaken(p, n)) \subseteq Window(p)
         /\ ToSet(BackOf(p, n)) = Window(p) \ Window(BackTaken(p, n))
         /\ ToSet(BackOf(p, n)) = (p.ptr + p.left - n) .. (p.ptr + p.left - 1)
         /\ ToSet(Reverse(BackOf(p, n))) = ToSet(BackOf(p, n))
         /\ BackOf(p, n) \in Seq(Int) /\ Len(BackOf(p, n)) = n
         /\ Reverse(BackOf(p, n)) \in Seq(Int) /\ Len(Reverse(BackOf(p, n))) = n
<1> DEFINE q == BackTaken(p, n)
           pos == BackOf(p, n)
<1>1. /\ p.ptr \in Int /\ p.left \in Nat /\ n \in Nat /\ n <= p.left
      /\ p = [data |-> p.data, ptr |-> p.ptr, left |-> p.left]
      /\ Window(p) = p.ptr .. (p.ptr + p.left - 1)
  BY ProviderFacts
<1>2. q = [data |-> p.data, ptr |-> p.ptr, left |-> p.left - n]
  BY <1>1 DEF BackTaken
<1>3. q \in Providers
  <2>1. q \in [data : Bytes, ptr : Int, left : Nat]
    BY <1>1, <1>2, ProviderFacts
  <2>2. CASE p.data = <<>>
    <3>1. p = New(<<>>) /\ n = 0
      BY <2>2, ProviderFacts
    <3>2. q = New(<<>>)
      BY <1>1, <1>2, <3>1
    <3> QED BY <1>2, <2>1, <2>2, <3>2 DEF Providers
  <2>3. CASE p.data # <<>>
    <3>1. q.data # <<>> /\ q.ptr >= 0 /\ q.ptr + q.left <= Len(q.data)
      BY <1>1, <1>2, <2>3, ProviderFacts
    <3> QED BY <2>1, <3>1 DEF Providers
  <2> QED BY <2>2, <2>3
<1>4. Window(q) = p.ptr .. (p.ptr + (p.left - n) - 1)
  BY <1>2, <1>3, ProviderFacts
<1>5. pos = [i \in 1..n |-> p.ptr + p.left - i] /\ pos \in Seq(Int) /\ Len(pos) = n /\ DOMAIN pos = 1..n
  <2>1. pos = [i \in 1..n |-> p.ptr + p.left - i]
    BY DEF BackOf
  <2>2. pos \in [1..n -> Int]
    BY <1>1, <2>1
  <2> HIDE DEF pos
  <2> QED BY <1>1, <2>1, <2>2, FunctionIsSeq
<1>6. ToSet(pos) = (p.ptr + p.left - n) .. (p.ptr + p.left - 1)
  <2> DEFINE e == p.ptr + p.left
             T == (e - n) .. (e - 1)
  <2>1. e \in Int /\ \A i \in 1..n : pos[i] = e - i
    BY <1>1, <1>5
  <2> HIDE DEF e, pos
  <2>2. ASSUME NEW x \in T PROVE \E i \in 1..n : pos[i] = x
    <3>1. e - x \in 1..n /\ e - (e - x) = x
      BY <1>1, <2>1
    <3> QED BY <2>1, <3>1
  <2>3. \A i \in 1..n : pos[i] \in T
    BY <1>1, <2>1
  <2> HIDE DEF T
  <2>4. ToSet(pos) = {pos[i] : i \in 1..n}
    BY <1>5 DEF ToSet
  <2>5. ToSet(pos) = T
    BY <2>2, <2>3, <2>4
  <2>6. T = (e - n) .. (e - 1)
    BY DEF T
  <2>7. e = p.ptr + p.left
    BY DEF e
  <2> QED BY <1>1, <2>1, <2>5, <2>6, <2>7
<1>7. ToSet(pos) = Window(p) \ Window(q)
  BY <1>1, <1>4, <1>6
<1>8. /\ ToSet(Reverse(pos)) = ToSet(pos)
      /\ Reverse(pos) \in Seq(Int) /\ Len(Reverse(pos)) = n
  <2> DEFINE rev == [i \in 1..n |-> pos[(n - i) + 1]]
  <2>1. Reverse(pos) = rev
    BY <1>5 DEF Reverse
  <2>2. \A i \in 1..n : (n - i) + 1 \in 1..n /\ (n - ((n - i) + 1)) + 1 = i
    BY <1>1
  <2>3. \A i \in 1..n : pos[i] \in Int
    BY <1>1, <1>5
  <2> HIDE DEF pos
  <2>4. rev \in [1..n -> Int]
    BY <2>2, <2>3
  <2>5. rev \in Seq(Int) /\ Len(rev) = n /\ DOMAIN rev = 1..n
    <3> HIDE DEF rev
    <3> QED BY <1>1, <2>4, FunctionIsSeq
  <2>6. \A i \in 1..n : rev[i] = pos[(n - i) + 1] /\ pos[i] = rev[(n - i) + 1]
    BY <2>2
  <2> HIDE DEF rev
  <2>7. ToSet(rev) = ToSet(pos)
    <3>1. ToSet(rev) = {rev[i] : i \in 1..n} /\ ToSet(pos) = {pos[i] : i \in 1..n}
      BY <1>5, <2>5 DEF ToSet
    <3>2. \A i \in 1..n : \E j \in 1..n : rev[i] = pos[j]
      BY <2>2, <2>6
    <3>3. \A i \in 1..n : \E j \in 1..n : pos[i] = rev[j]
      BY <2>2, <2>6
    <3> QED BY <3>1, <3>2, <3>3
  <2> QED BY <2>1, <2>5, <2>7
<1>9. Window(q) \subseteq Window(p)
  BY <1>1, <1>4
<1> HIDE DEF pos
<1> QED BY <1>1, <1>2, <1>3, <1>5, <1>6, <1>7, <1>8, <1>9 DEF pos

LEMMA FrontFacts ==
  ASSUME NEW p \in Providers, NEW n \in 0..p.left
  PROVE  /\ FrontTaken(p, n) \in Providers /\ FrontTaken(p, n).data = p.data
         /\ FrontTaken(p, n).left = p.left - n
         /\ Window(FrontTaken(p, n)) \subseteq Window(p)
         /\ ToSet(FrontOf(p, n)) = Window(p) \ Window(FrontTaken(p, n))
         /\ ToSet(FrontOf(p, n)) = p.ptr .. (p.ptr + n - 1)
         /\ FrontOf(p, n) \in Seq(Int) /\ Len(FrontOf(p, n)) = n
<1> DEFINE q == FrontTaken(p, n)
           pos == FrontOf(p, n)
<1>1. /\ p.ptr \in Int /\ p.left \in Nat /\ n \in Nat /\ n <= p.left
      /\ p = [data |-> p.data, ptr |-> p.ptr, left |-> p.left]
      /\ Window(p) = p.ptr .. (p.ptr + p.left - 1)
  BY ProviderFacts
<1>2. q = [data |-> p.data, ptr |-> p.ptr + n, left |-> p.left - n]
  <2>1. q = [[p EXCEPT !.left = p.left - n] EXCEPT !.ptr = p.ptr + n]
    BY <1>1 DEF FrontTaken
  <2>2. [p EXCEPT !.left = p.left - n] = [data |-> p.data, ptr |-> p.ptr, left |-> p.left - n]
    BY <1>1
  <2> QED BY <2>1, <2>2
<1>3. q \in Providers
  <2>1. q \in [data : Bytes, ptr : Int, left : Nat]
    BY <1>1, <1>2, ProviderFacts
  <2>2. CASE p.data = <<>>
    <3>1. p = New(<<>>) /\ n = 0
      BY <2>2, ProviderFacts
    <3>2. q = New(<<>>)
      BY <1>1, <1>2, <3>1
    <3> QED BY <1>2, <2>1, <2>2, <3>2 DEF Providers
  <2>3. CASE p.data # <<>>
    <3>1. q.data # <<>> /\ q.ptr >= 0 /\ q.ptr + q.left <= Len(q.data)
      BY <1>1, <1>2, <2>3, ProviderFacts
    <3> QED BY <2>1, <3>1 DEF Providers
  <2> QED BY <2>2, <2>3
<1>4. Window(q) = (p.ptr + n) .. (p.ptr + n + (p.left - n) - 1)
  BY <1>2, <1>3, ProviderFacts
<1>5. pos = [i \in 1..n |-> p.ptr + i - 1] /\ pos \in Seq(Int) /\ Len(pos) = n /\ DOMAIN pos = 1..n
  <2>1. pos = [i \in 1..n |-> p.ptr + i - 1]
    BY DEF FrontOf
  <2>2. pos \in [1..n -> Int]
    BY <1>1, <2>1
  <2> HIDE DEF pos
  <2> QED BY <1>1, <2>1, <2>2, FunctionIsSeq
<1>6. ToSet(pos) = p.ptr .. (p.ptr + n - 1)
  <2>1. ASSUME NEW x \in p.ptr .. (p.ptr + n - 1)
        PROVE  \E i \in 1..n : pos[i] = x
    <3>1. x - p.ptr + 1 \in 1..n /\ p.ptr + (x - p.ptr + 1) - 1 = x
      BY <1>1
    <3> QED BY <1>5, <3>1
  <2>2. \A i \in 1..n : pos[i] \in p.ptr .. (p.ptr + n - 1)
    BY <1>1, <1>5
  <2> HIDE DEF pos
  <2> QED BY <1>5, <2>1, <2>2 DEF ToSet
<1>7. ToSet(pos) = Window(p) \ Window(q)
  BY <1>1, <1>4, <1>6
<1>8. Window(q) \subseteq Window(p)
  BY <1>1, <1>4
<1>9. q.data = p.data /\ q.left = p.left - n
  BY <1>2
<1> HIDE DEF pos, q
<1>10. q \in Providers /\ q.data = p.data /\ q.left = p.left - n /\ Window(q) \subseteq Window(p)
  BY <1>3, <1>8, <1>9
<1>11. /\ ToSet(pos) = Window(p) \ Window(q) /\ ToSet(pos) = p.ptr .. (p.ptr + n - 1)
       /\ pos \in Seq(Int) /\ Len(pos) = n
  BY <1>5, <1>6, <1>7
<1> QED BY <1>10, <1>11 DEF pos, q

LEMMA ResultFacts ==
  ASSUME NEW p \in Providers, NEW q \in Providers, NEW out \in Seq(Int), NEW read \in SUBSET Int,
         q.data = p.data, Window(q) \subseteq Window(p), read = Window(p) \ Window(q)
  PROVE  Result(q, out, read) \in UsedUp(p)
  BY DEF Result, UsedUp, Results

(* A method that takes nothing away.                                       *)
LEMMA StayFacts ==
  ASSUME NEW p \in Providers, NEW out \in Seq(Int)
  PROVE  Result(p, out, {}) \in UsedUp(p) /\ Throws(p) \in UsedUp(p)
  BY DEF Result, Throws, UsedUp, Results

LEMMA WindowIsInt ==
  ASSUME NEW p \in Providers
  PROVE  Window(p) \in SUBSET Int
  BY ProviderFacts

(* Methods that take bytes off either end.                                 *)
LEMMA BackUsed ==
  ASSUME NEW p \in Providers, NEW n \in 0..p.left, NEW out \in Seq(Int)
  PROVE  /\ Result(BackTaken(p, n), out, ToSet(BackOf(p, n))) \in UsedUp(p)
         /\ Result(BackTaken(p, n), out, ToSet(Reverse(BackOf(p, n)))) \in UsedUp(p)
<1>1. /\ BackTaken(p, n) \in Providers /\ BackTaken(p, n).data = p.data
      /\ Window(BackTaken(p, n)) \subseteq Window(p)
      /\ ToSet(BackOf(p, n)) = Window(p) \ Window(BackTaken(p, n))
      /\ ToSet(Reverse(BackOf(p, n))) = ToSet(BackOf(p, n))
  BY BackFacts
<1> QED BY <1>1, WindowIsInt, ResultFacts

LEMMA FrontUsed ==
  ASSUME NEW p \in Providers, NEW n \in 0..p.left, NEW out \in Seq(Int)
  PROVE  Result(FrontTaken(p, n), out, ToSet(FrontOf(p, n))) \in UsedUp(p)
<1>1. /\ FrontTaken(p, n) \in Providers /\ FrontTaken(p, n).data = p.data
      /\ Window(FrontTaken(p, n)) \subseteq Window(p)
      /\ ToSet(FrontOf(p, n)) = Window(p) \ Window(FrontTaken(p, n))
  BY FrontFacts
<1> QED BY <1>1, WindowIsInt, ResultFacts

(* What is read where bytes remain is bytes.                               *)
LEMMA ByteFacts ==
  ASSUME NEW p \in Providers, NEW pos \in Seq(Int), ToSet(pos) \subseteq Window(p)
  PROVE  /\ BytesAt(p, pos) \in Seq(0 .. Base - 1) /\ Len(BytesAt(p, pos)) = Len(pos)
         /\ BytesAt(p, pos) \in Seq(Nat) /\ BytesAt(p, pos) \in Seq(Int)
         /\ \A i \in 1..Len(pos) : BytesAt(p, pos)[i] = p.data[pos[i] + 1]
<1> DEFINE n == Len(pos)
           b == BytesAt(p, pos)
           B == 0 .. Base - 1
<1>1. n \in Nat /\ DOMAIN pos = 1..n /\ \A i \in 1..n : pos[i] \in Int /\ pos[i] \in Window(p)
  BY DEF ToSet
<1>2. \A i \in 1..n : p.data[pos[i] + 1] \in B
  <2> SUFFICES ASSUME NEW i \in 1..n PROVE p.data[pos[i] + 1] \in B
    OBVIOUS
  <2>1. pos[i] \in p.ptr .. (p.ptr + p.left - 1) /\ p.ptr \in Int /\ p.left \in Nat
    BY <1>1, ProviderFacts
  <2>2. p.left # 0
    BY <2>1
  <2>3. pos[i] + 1 \in 1..Len(p.data)
    <3> DEFINE x == pos[i]
    <3>1. x \in p.ptr .. (p.ptr + p.left - 1) /\ p.ptr >= 0 /\ p.ptr + p.left <= Len(p.data)
          /\ Len(p.data) \in Nat
      BY <2>1, <2>2, ProviderFacts
    <3> HIDE DEF x
    <3>2. x + 1 \in 1..Len(p.data)
      BY <2>1, <3>1, Inside
    <3> QED BY <3>2 DEF x
  <2> QED BY <2>3, ProviderFacts
<1>3. b = [i \in 1..n |-> p.data[pos[i] + 1]]
  BY <1>1 DEF BytesAt
<1> HIDE DEF n
<1>4. b \in [1..n -> B]
  <2> HIDE DEF b, B
  <2> QED BY <1>2, <1>3
<1>5. B \subseteq Nat /\ B \subseteq Int
  BY ValuesFacts
<1> HIDE DEF b, B
<1>6. b \in Seq(B) /\ Len(b) = n
  BY <1>1, <1>4, FunctionIsSeq
<1>7. b \in Seq(Nat) /\ b \in Seq(Int)
  <2>1. b \in [1..n -> Nat] /\ b \in [1..n -> Int]
    BY <1>4, <1>5
  <2> QED BY <1>1, <2>1, FunctionIsSeq
<1>8. \A i \in 1..n : b[i] = p.data[pos[i] + 1]
  BY <1>3
<1> QED BY <1>6, <1>7, <1>8 DEF b, B, n

(* Numbers that are made of bytes, step by step.                           *)
LEMMA DigitsFacts ==
  ASSUME NEW bytes \in Seq(Nat)
  PROVE  \E f \in [0..Len(bytes) -> Nat] :
           /\ Digits(bytes) = f[Len(bytes)] /\ f[0] = 0
           /\ \A k \in 1..Len(bytes) : f[k] = f[k - 1] * Base + bytes[k]
<1> DEFINE n == Len(bytes)
           step == [k \in 1..n |-> [y \in Nat |-> y * Base + bytes[k]]]
           Body(g, k) == IF k = 0 THEN 0 ELSE g[k - 1] * Base + bytes[k]
           d == CHOOSE g : g = [k \in 0..n |-> Body(g, k)]
<1>1. n \in Nat /\ (\A k \in 1..n : bytes[k] \in Nat) /\ Base \in Nat
  <2>1. n \in Nat /\ \A k \in 1..n : bytes[k] \in Nat
    OBVIOUS
  <2> QED BY <2>1, ValuesFacts
<1>2. Digits(bytes) = d[n]
  BY DEF Digits
<1> HIDE DEF n
<1>3. PICK f \in [0..n -> Nat] : Iterates(f, 0..n, 0, step)
  <2>1. ASSUME NEW k \in 1..n, NEW y \in Nat PROVE step[k][y] \in Nat
    <3>1. y * Base \in Nat /\ bytes[k] \in Nat
      BY <1>1, Products
    <3> QED BY <3>1
  <2> HIDE DEF step
  <2> QED BY <1>1, <2>1, IterationTo
<1>4. f = [k \in 0..n |-> Body(f, k)]
  <2>1. f = [k \in 0..n |-> IF k = 0 THEN 0 ELSE step[k][f[k - 1]]]
    BY <1>3 DEF Iterates
  <2>2. \A k \in 0..n : k # 0 => k \in 1..n /\ f[k - 1] \in Nat
    BY <1>1
  <2>3. \A k \in 0..n : (IF k = 0 THEN 0 ELSE step[k][f[k - 1]]) = Body(f, k)
    BY <2>2
  <2> QED BY <2>1, <2>3
<1> HIDE DEF Body
<1>5. d = [k \in 0..n |-> Body(d, k)]
  BY <1>4
<1> HIDE DEF d
<1>6. \A k \in 0..n : d[k] = Body(d, k)
  BY <1>5, Zenon
<1>7. d[0] = 0 /\ \A k \in 1..n : d[k] = d[k - 1] * Base + bytes[k]
  BY <1>1, <1>6 DEF Body
<1> DEFINE Good == {k \in Nat : k <= n => d[k] \in Nat}
<1>8. Nat \subseteq Good
  <2>1. 0 \in Good
    BY <1>7
  <2>2. ASSUME NEW k \in Nat, k \in Good PROVE k + 1 \in Good
    <3> SUFFICES ASSUME k + 1 <= n PROVE d[k + 1] \in Nat
      OBVIOUS
    <3>1. k + 1 \in 1..n /\ (k + 1) - 1 = k /\ d[k] \in Nat
      BY <1>1, <2>2
    <3>2. d[k + 1] = d[k] * Base + bytes[k + 1]
      BY <1>7, <3>1
    <3>3. d[k] * Base \in Nat /\ bytes[k + 1] \in Nat
      BY <1>1, <3>1, Products
    <3> QED BY <3>2, <3>3
  <2> HIDE DEF Good
  <2> QED BY <2>1, <2>2, Induction
<1>9. d \in [0..n -> Nat]
  <2>1. \A k \in 0..n : d[k] \in Nat
    BY <1>8
  <2>2. d = [k \in 0..n |-> d[k]]
    BY <1>5
  <2> QED BY <2>1, <2>2
<1> QED BY <1>2, <1>7, <1>9 DEF n

AddsUp(f, p, from, n, little) ==
  /\ f[0] = 0
  /\ \A k \in 1..n :
       f[k] = f[k - 1] + p.data[from + k] * ValuesOf(IF little THEN k - 1 ELSE n - k)

LEMMA ReadFacts ==
  ASSUME NEW p, NEW from \in Int, NEW n \in Nat, NEW little \in BOOLEAN,
         \A k \in 1..n : p.data[from + k] \in Nat
  PROVE  /\ ReadUInt(p, from, n, little) \in Nat
         /\ \E f \in [0..n -> Nat] :
              ReadUInt(p, from, n, little) = f[n] /\ AddsUp(f, p, from, n, little)
<1> DEFINE term(k) == p.data[from + k] * ValuesOf(IF little THEN k - 1 ELSE n - k)
           step == [k \in 1..n |-> [y \in Nat |-> y + term(k)]]
           Body(g, k) == IF k = 0 THEN 0 ELSE g[k - 1] + term(k)
           d == CHOOSE g : g = [k \in 0..n |-> Body(g, k)]
<1>1. \A k \in 1..n : term(k) \in Nat
  <2> SUFFICES ASSUME NEW k \in 1..n PROVE term(k) \in Nat
    OBVIOUS
  <2>1. k - 1 \in Nat /\ n - k \in Nat
    OBVIOUS
  <2>2. ValuesOf(k - 1) \in Nat /\ ValuesOf(n - k) \in Nat
    BY <2>1, ValuesFacts
  <2>3. p.data[from + k] \in Nat /\ ValuesOf(IF little THEN k - 1 ELSE n - k) \in Nat
    BY <2>2
  <2> QED BY <2>3, Products
<1>2. ReadUInt(p, from, n, little) = d[n]
  BY DEF ReadUInt
<1> HIDE DEF term
<1>3. PICK f \in [0..n -> Nat] : Iterates(f, 0..n, 0, step)
  <2>1. \A k \in 1..n : \A y \in Nat : step[k][y] \in Nat
    BY <1>1
  <2> HIDE DEF step
  <2> QED BY <1>1, <2>1, IterationTo
<1>4. f = [k \in 0..n |-> Body(f, k)]
  <2>1. f = [k \in 0..n |-> IF k = 0 THEN 0 ELSE step[k][f[k - 1]]]
    BY <1>3 DEF Iterates
  <2>2. \A k \in 0..n : k # 0 => k \in 1..n /\ f[k - 1] \in Nat
    BY <1>1
  <2>3. \A k \in 0..n : (IF k = 0 THEN 0 ELSE step[k][f[k - 1]]) = Body(f, k)
    BY <2>2
  <2> QED BY <2>1, <2>3
<1> HIDE DEF Body
<1>5. d = [k \in 0..n |-> Body(d, k)]
  BY <1>4
<1> HIDE DEF d
<1>6. \A k \in 0..n : d[k] = Body(d, k)
  BY <1>5, Zenon
<1>7. d[0] = 0 /\ \A k \in 1..n : d[k] = d[k - 1] + term(k)
  BY <1>1, <1>6 DEF Body
<1> DEFINE Good == {k \in Nat : k <= n => d[k] \in Nat}
<1>8. Nat \subseteq Good
  <2>1. 0 \in Good
    BY <1>7
  <2>2. ASSUME NEW k \in Nat, k \in Good PROVE k + 1 \in Good
    <3> SUFFICES ASSUME k + 1 <= n PROVE d[k + 1] \in Nat
      OBVIOUS
    <3>1. k + 1 \in 1..n /\ (k + 1) - 1 = k /\ d[k] \in Nat
      BY <1>1, <2>2
    <3>2. d[k + 1] = d[k] + term(k + 1)
      BY <1>7, <3>1
    <3> QED BY <1>1, <3>1, <3>2
  <2> HIDE DEF Good
  <2> QED BY <2>1, <2>2, Induction
<1>9. d \in [0..n -> Nat]
  <2>1. \A k \in 0..n : d[k] \in Nat
    BY <1>8
  <2>2. d = [k \in 0..n |-> d[k]]
    BY <1>5
  <2> QED BY <2>1, <2>2
<1>10. d[n] \in Nat
  BY <1>9
<1>11. AddsUp(d, p, from, n, little)
  BY <1>7 DEF term, AddsUp
<1> QED BY <1>2, <1>9, <1>10, <1>11

-----------------------------------------------------------------------------
(* Readers of one integral.                                                *)

LEMMA Remainders ==
  ASSUME NEW a \in Int, NEW b \in Nat \ {0}
  PROVE  a % b \in 0 .. b - 1
  OBVIOUS

LEMMA Reduced ==
  ASSUME NEW min \in Int, NEW max \in Int, min <= max, NEW v \in Int
  PROVE  min + (v % (max - min + 1)) \in min..max
<1>1. max - min + 1 \in Nat \ {0}
  OBVIOUS
<1>2. v % (max - min + 1) \in 0 .. (max - min + 1) - 1
  BY <1>1, Remainders
<1> QED BY <1>2

LEMMA Singleton ==
  ASSUME NEW v \in Int
  PROVE  <<v>> \in Seq(Int) /\ Len(<<v>>) = 1 /\ <<v>>[1] = v
  OBVIOUS

(* One value in a range, or a throw.                                       *)
Yields(r, min, max) ==
  IF r.threw THEN r.out = <<>> ELSE min <= max /\ Len(r.out) = 1 /\ r.out[1] \in min..max

LEMMA NumberOfBytes ==
  ASSUME NEW p \in Providers, NEW range \in Nat, range # 0,
         NEW n, n = Smaller(p.left, BytesFor(range))
  PROVE  n \in 0..p.left /\ \A m \in Nat : range < ValuesOf(m) => n <= m
<1>1. p.left \in Nat
  BY ProviderFacts
<1>2. /\ BytesFor(range) \in Nat
      /\ \A m \in Nat : range < ValuesOf(m) => BytesFor(range) <= m
  BY BytesForFacts
<1>3. n \in Int /\ n <= p.left /\ n <= BytesFor(range) /\ (n = p.left \/ n = BytesFor(range))
  BY <1>1, <1>2 DEF Smaller
<1> QED BY <1>1, <1>2, <1>3

LEMMA ReturnsFacts ==
  ASSUME NEW p \in Providers, NEW v \in Int
  PROVE  Returns(p, v) \in UsedUp(p) /\ ~Returns(p, v).threw /\ Returns(p, v).out = <<v>>
  BY Singleton, StayFacts DEF Returns, Result

LEMMA ThrowsFacts ==
  ASSUME NEW p \in Providers
  PROVE  Throws(p) \in UsedUp(p) /\ Throws(p).threw /\ Throws(p).out = <<>>
<1>1. <<>> \in Seq(Int)
  OBVIOUS
<1> QED BY <1>1, StayFacts DEF Throws

LEMMA AtTheEnds ==
  ASSUME NEW a \in Int, NEW left \in Nat, NEW n \in 0..left, NEW k \in 1..n
  PROVE  /\ a + (left - n) + k - 1 \in a .. (a + left - 1) /\ a + k - 1 \in a .. (a + left - 1)
         /\ (a + (left - n) + k - 1) + 1 = a + (left - n) + k /\ (a + k - 1) + 1 = a + k
  OBVIOUS

(* Numbers read from where bytes remain are natural.                       *)
LEMMA ReadTypes ==
  ASSUME NEW p \in Providers, NEW n \in 0..p.left
  PROVE  /\ ReadUInt(p, p.ptr + (p.left - n), n, TRUE) \in Nat
         /\ ReadUInt(p, p.ptr, n, FALSE) \in Nat
         /\ \A x \in Window(p) : p.data[x + 1] \in Nat
<1>1. p.left \in Nat /\ p.ptr \in Int /\ n \in Nat /\ Window(p) = p.ptr .. (p.ptr + p.left - 1)
  BY ProviderFacts
<1>2. ASSUME NEW x \in Window(p) PROVE p.data[x + 1] \in Nat
  <2> DEFINE pos == <<x>>
  <2>1. pos \in Seq(Int) /\ ToSet(pos) \subseteq Window(p) /\ Len(pos) = 1 /\ pos[1] = x
    BY WindowIsInt DEF ToSet
  <2> HIDE DEF pos
  <2> DEFINE b == BytesAt(p, pos)
  <2>2. b \in Seq(Nat) /\ Len(b) = 1 /\ \A i \in 1..Len(pos) : b[i] = p.data[pos[i] + 1]
    BY <2>1, ByteFacts
  <2>3. 1 \in 1..Len(pos) /\ 1 \in 1..Len(b)
    BY <2>1, <2>2
  <2> HIDE DEF b
  <2>4. b[1] = p.data[x + 1]
    BY <2>1, <2>2, <2>3
  <2>5. b[1] \in Nat
    BY <2>2, <2>3, ElementOfSeq
  <2> QED BY <2>4, <2>5
<1>3. ASSUME NEW from \in Int, NEW little \in BOOLEAN, \A k \in 1..n : from + k - 1 \in Window(p)
      PROVE  ReadUInt(p, from, n, little) \in Nat
  <2>1. \A k \in 1..n : p.data[from + k] \in Nat
    <3>1. \A k \in 1..n : (from + k - 1) + 1 = from + k
      BY <1>1
    <3> QED BY <1>2, <1>3, <3>1
  <2> QED BY <1>1, <2>1, ReadFacts
<1>4. \A k \in 1..n : p.ptr + (p.left - n) + k - 1 \in Window(p) /\ p.ptr + k - 1 \in Window(p)
  BY <1>1, AtTheEnds
<1>5. p.ptr + (p.left - n) \in Int
  BY <1>1
<1> QED BY <1>1, <1>2, <1>3, <1>4, <1>5

LEMMA DigitsTypes ==
  ASSUME NEW bytes \in Seq(Nat)
  PROVE  Digits(bytes) \in Nat
<1>1. Len(bytes) \in Nat
  OBVIOUS
<1> QED BY <1>1, DigitsFacts

LEMMA OneValue ==
  ASSUME NEW r, NEW v, NEW min \in Int, NEW max \in Int, r.out = <<v>>, v \in min..max
  PROVE  Len(r.out) = 1 /\ r.out[1] \in min..max
<1>1. v \in Int
  OBVIOUS
<1>2. Len(<<v>>) = 1 /\ <<v>>[1] = v
  BY <1>1, Singleton
<1> QED BY <1>2

LEMMA RangeFacts ==
  ASSUME NEW p \in Providers, NEW min \in Int, NEW max \in Int, NEW little \in BOOLEAN,
         NEW r, r = IntegralInRangeLEorBE(p, min, max, little)
  PROVE  /\ r \in UsedUp(p) /\ Yields(r, min, max)
         /\ min <= max /\ max < TwoTo[Mantissa] /\ max - min < ValuesOf(MaxBytes) => ~r.threw
<1> DEFINE range == max - min
           n == Smaller(p.left, BytesFor(range))
           back == BackTaken(p, n)
           low  == ReadUInt(p, p.ptr + back.left, n, TRUE)
           high == ReadUInt(p, p.ptr, n, FALSE)
           lowValue  == min + (low % (range + 1))
           highValue == min + (high % (range + 1))
<1>1. \A v \in Int : /\ Returns(p, v) \in UsedUp(p) /\ ~Returns(p, v).threw
                     /\ Returns(p, v).out = <<v>>
  BY ReturnsFacts
<1>2. Throws(p) \in UsedUp(p) /\ Throws(p).threw /\ Throws(p).out = <<>>
  BY ThrowsFacts
<1>3. CASE min = max
  <2>1. r = Returns(p, min)
    BY <1>3 DEF IntegralInRangeLEorBE
  <2>2. r.out = <<min>> /\ ~r.threw /\ r \in UsedUp(p)
    BY <1>1, <2>1
  <2>3. Len(r.out) = 1 /\ r.out[1] \in min..max
    <3>1. min \in min..max
      BY <1>3
    <3> QED BY <2>2, <3>1, OneValue
  <2> QED BY <1>3, <2>2, <2>3 DEF Yields
<1>4. CASE min > max
  <2>1. r = Throws(p)
    BY <1>4 DEF IntegralInRangeLEorBE
  <2> QED BY <1>2, <1>4, <2>1 DEF Yields
<1>5. CASE min < max /\ p.left = 0
  <2>1. r = Returns(p, min)
    BY <1>5 DEF IntegralInRangeLEorBE
  <2>2. r.out = <<min>> /\ ~r.threw /\ r \in UsedUp(p)
    BY <1>1, <2>1
  <2>3. Len(r.out) = 1 /\ r.out[1] \in min..max
    <3>1. min \in min..max
      BY <1>5
    <3> QED BY <2>2, <3>1, OneValue
  <2> QED BY <1>5, <2>2, <2>3 DEF Yields
<1>6. CASE min < max /\ p.left # 0
  <2>1. range \in Nat /\ range # 0 /\ p.left \in Nat /\ p.ptr \in Int
    BY <1>6, ProviderFacts
  <2>2. n \in 0..p.left /\ \A m \in Nat : range < ValuesOf(m) => n <= m
    BY <2>1, NumberOfBytes
  <2>3. CASE max >= TwoTo[Mantissa] \/ n > MaxBytes
    <3>1. r = Throws(p)
      BY <1>6, <2>3 DEF IntegralInRangeLEorBE
    <3>2. MaxBytes \in Nat /\ Mantissa \in Nat
      BY WidthAssumption
    <3>3. TwoTo[Mantissa] \in Nat
      BY <3>2, PowerFacts
    <3>4. ~(max < TwoTo[Mantissa] /\ max - min < ValuesOf(MaxBytes))
      BY <2>2, <2>3, <3>2, <3>3
    <3> QED BY <1>2, <3>1, <3>4 DEF Yields
  <2>4. CASE ~(max >= TwoTo[Mantissa] \/ n > MaxBytes)
    <3>4. low \in Nat /\ high \in Nat
      <4>1. back.left = p.left - n
        BY <2>2, BackFacts
      <4> HIDE DEF n, back
      <4> QED BY <2>2, <4>1, ReadTypes
    <3>5. lowValue \in min..max /\ highValue \in min..max
      <4> HIDE DEF low, high
      <4> QED BY <1>6, <3>4, Reduced
    <3>6. r = IF little THEN Result(back, <<lowValue>>, ToSet(BackOf(p, n)))
                        ELSE Result(FrontTaken(p, n), <<highValue>>, ToSet(FrontOf(p, n)))
      BY <1>6, <2>4 DEF IntegralInRangeLEorBE
    <3> HIDE DEF lowValue, highValue, n
    <3>7. <<lowValue>> \in Seq(Int) /\ <<highValue>> \in Seq(Int)
      BY <3>5
    <3>8. r \in UsedUp(p)
      BY <2>2, <3>6, <3>7, BackUsed, FrontUsed
    <3>9. ~r.threw /\ r.out = IF little THEN <<lowValue>> ELSE <<highValue>>
      BY <3>6 DEF Result
    <3>10. Len(r.out) = 1 /\ r.out[1] \in min..max
      <4>1. CASE little
        <5>1. r.out = <<lowValue>>
          BY <3>9, <4>1
        <5> QED BY <3>5, <5>1, OneValue
      <4>2. CASE ~little
        <5>1. r.out = <<highValue>>
          BY <3>9, <4>2
        <5> QED BY <3>5, <5>1, OneValue
      <4> QED BY <4>1, <4>2
    <3> QED BY <1>6, <3>8, <3>9, <3>10 DEF Yields
  <2> QED BY <2>3, <2>4
<1> QED BY <1>3, <1>4, <1>5, <1>6

LEMMA BigRangeFacts ==
  ASSUME NEW p \in Providers, NEW min \in Int, NEW max \in Int, NEW little \in BOOLEAN,
         NEW r, r = BigIntegralInRangeLEorBE(p, min, max, little)
  PROVE  r \in UsedUp(p) /\ Yields(r, min, max) /\ (min <= max => ~r.threw)
<1> DEFINE range == max - min
           n == Smaller(p.left, BytesFor(range))
           pos == IF little THEN BackOf(p, n) ELSE FrontOf(p, n)
           value == min + (Digits(BytesAt(p, pos)) % (range + 1))
<1>1. CASE min = max
  <2>1. r = Returns(p, min)
    BY <1>1 DEF BigIntegralInRangeLEorBE
  <2>2. r.out = <<min>> /\ ~r.threw /\ r \in UsedUp(p)
    BY <2>1, ReturnsFacts
  <2>3. Len(r.out) = 1 /\ r.out[1] \in min..max
    <3>1. min \in min..max
      BY <1>1
    <3> QED BY <2>2, <3>1, OneValue
  <2> QED BY <1>1, <2>2, <2>3 DEF Yields
<1>2. CASE min > max
  <2>1. r = Throws(p)
    BY <1>2 DEF BigIntegralInRangeLEorBE
  <2>2. r \in UsedUp(p) /\ r.threw /\ r.out = <<>>
    BY <2>1, ThrowsFacts
  <2> QED BY <1>2, <2>2 DEF Yields
<1>3. CASE min < max
  <2>1. range \in Nat /\ range # 0
    BY <1>3
  <2>2. n \in 0..p.left
    BY <2>1, NumberOfBytes
  <2>3. pos \in Seq(Int) /\ ToSet(pos) \subseteq Window(p)
    BY <2>2, BackFacts, FrontFacts
  <2>4. Digits(BytesAt(p, pos)) \in Nat
    <3> HIDE DEF pos
    <3> QED BY <2>3, ByteFacts, DigitsTypes
  <2>5. value \in min..max
    <3> DEFINE d == Digits(BytesAt(p, pos))
    <3>1. d \in Int
      BY <2>4
    <3> HIDE DEF d
    <3>2. min + (d % (max - min + 1)) \in min..max
      BY <1>3, <3>1, Reduced
    <3> QED BY <3>2 DEF d
  <2>6. r = Result(IF little THEN BackTaken(p, n) ELSE FrontTaken(p, n), <<value>>, ToSet(pos))
    BY <1>3 DEF BigIntegralInRangeLEorBE
  <2> HIDE DEF value, n
  <2>7. <<value>> \in Seq(Int)
    BY <2>5
  <2>8. r \in UsedUp(p)
    BY <2>2, <2>6, <2>7, BackUsed, FrontUsed
  <2>9. ~r.threw /\ r.out = <<value>>
    BY <2>6 DEF Result
  <2>10. Len(r.out) = 1 /\ r.out[1] \in min..max
    BY <2>5, <2>9, OneValue
  <2> QED BY <1>3, <2>8, <2>9, <2>10 DEF Yields
<1> QED BY <1>1, <1>2, <1>3

LEMMA IntProducts ==
  ASSUME NEW a \in Int, NEW b \in Int
  PROVE  a * b \in Int
  OBVIOUS

(* The range of an n-byte integral has as many values as n bytes.          *)
Highest(n, signed) == IF signed THEN TwoTo[ByteBits * n - 1] - 1 ELSE ValuesOf(n) - 1

LEMMA HalfFacts ==
  ASSUME NEW n \in Nat \ {0}
  PROVE  /\ ByteBits * n - 1 \in Nat /\ TwoTo[ByteBits * n - 1] \in Nat
         /\ TwoTo[ByteBits * n - 1] >= 1
         /\ ValuesOf(n) = 2 * TwoTo[ByteBits * n - 1]
<1> DEFINE bits == ByteBits * n - 1
<1>1. ByteBits * n \in Nat /\ n <= ByteBits * n
  <2>1. n \in Nat /\ n <= n
    OBVIOUS
  <2> QED BY <2>1, Widths
<1>2. bits \in Nat /\ bits + 1 = ByteBits * n
  BY <1>1
<1> HIDE DEF bits
<1>3. TwoTo[bits] \in Nat /\ TwoTo[bits] > bits /\ TwoTo[bits + 1] = 2 * TwoTo[bits]
  BY <1>2, PowerFacts, PowersGrow
<1>4. TwoTo[bits] >= 1
  BY <1>2, <1>3
<1>5. ValuesOf(n) = 2 * TwoTo[bits]
  BY <1>2, <1>3 DEF ValuesOf
<1> QED BY <1>2, <1>3, <1>4, <1>5 DEF bits

LEMMA Extents ==
  ASSUME NEW n \in Nat, NEW signed \in BOOLEAN, signed => n # 0
  PROVE  /\ Lowest(n, signed) \in Int /\ Highest(n, signed) \in Int /\ HighestBig(n, signed) \in Int
         /\ Highest(n, signed) = Lowest(n, signed) + ValuesOf(n) - 1
         /\ Lowest(n, signed) <= Highest(n, signed)
         /\ Highest(n, signed) <= HighestBig(n, signed)
         /\ ByteBits * n <= Mantissa => HighestBig(n, signed) = Highest(n, signed)
         /\ n <= MaxBytes => /\ Highest(n, signed) < TwoTo[Mantissa]
                             /\ Highest(n, signed) - Lowest(n, signed) < ValuesOf(MaxBytes)
<1>1. ValuesOf(n) \in Nat /\ ValuesOf(n) >= 1
  BY ValuesFacts
<1>2. ASSUME n <= MaxBytes
      PROVE  ValuesOf(n) <= ValuesOf(MaxBytes) /\ ValuesOf(n) <= TwoTo[Mantissa]
             /\ ValuesOf(MaxBytes) \in Nat /\ TwoTo[Mantissa] \in Nat
  <2>1. MaxBytes \in Nat /\ Mantissa \in Nat
    BY WidthAssumption
  <2>2. ByteBits * n \in Nat /\ ByteBits * n <= ByteBits * MaxBytes
    BY <1>2, <2>1, Widths
  <2>3. ByteBits * n <= Mantissa
    <3>1. ByteBits * MaxBytes = MaxBytes * ByteBits
      BY WidthAssumption
    <3>2. ByteBits * MaxBytes \in Nat
      BY <2>1, Products, WidthAssumption
    <3> QED BY <2>1, <2>2, <3>1, <3>2, WidthAssumption
  <2>4. ValuesOf(n) <= TwoTo[Mantissa]
    BY <2>1, <2>2, <2>3, PowersGrow DEF ValuesOf
  <2> QED BY <1>2, <2>1, <2>4, PowerFacts, ValuesFacts
<1>3. CASE signed
  <2> DEFINE half == TwoTo[ByteBits * n - 1]
             bits == ByteBits * n - 1
  <2>1. bits \in Nat /\ half \in Nat /\ half >= 1 /\ ValuesOf(n) = 2 * half
    BY <1>3, HalfFacts
  <2>2. /\ Lowest(n, signed) = -half /\ Highest(n, signed) = half - 1
        /\ HighestBig(n, signed) = IF bits > Mantissa THEN half ELSE half - 1
    BY <1>3 DEF Lowest, Highest, HighestBig, AsDouble
  <2>3. ByteBits * n <= Mantissa => ~(bits > Mantissa)
    <3>1. ByteBits * n \in Nat
      BY Products, WidthAssumption
    <3> QED BY <3>1, WidthAssumption
  <2> HIDE DEF half, bits
  <2> QED BY <1>2, <2>1, <2>2, <2>3
<1>4. CASE ~signed
  <2>1. /\ Lowest(n, signed) = 0 /\ Highest(n, signed) = ValuesOf(n) - 1
        /\ HighestBig(n, signed) = ValuesOf(n) - 1
    BY <1>4 DEF Lowest, Highest, HighestBig
  <2> QED BY <1>1, <1>2, <2>1
<1> QED BY <1>3, <1>4

LEMMA IntegralFacts ==
  ASSUME NEW p \in Providers, NEW n \in Int, NEW signed \in BOOLEAN, signed => n # 0,
         NEW little \in BOOLEAN, NEW r, r = IntegralLEorBE(p, n, signed, little)
  PROVE  /\ r \in UsedUp(p)
         /\ Yields(r, Lowest(n, signed), Lowest(n, signed) + ValuesOf(n) - 1)
         /\ n \in 0..MaxBytes => ~r.threw
<1>1. CASE n < 0 \/ n > MaxBytes
  <2>1. r = Throws(p)
    BY <1>1 DEF IntegralLEorBE
  <2> QED BY <1>1, <2>1, ThrowsFacts, WidthAssumption DEF Yields
<1>2. CASE ~(n < 0 \/ n > MaxBytes)
  <2>1. n \in Nat /\ n <= MaxBytes
    BY <1>2, WidthAssumption
  <2> DEFINE min == Lowest(n, signed)
             max == Highest(n, signed)
  <2>2. r = IntegralInRangeLEorBE(p, min, max, little)
    BY <1>2 DEF IntegralLEorBE, Highest
  <2>3. /\ min \in Int /\ max \in Int /\ min <= max /\ max = Lowest(n, signed) + ValuesOf(n) - 1
        /\ max < TwoTo[Mantissa] /\ max - min < ValuesOf(MaxBytes)
    BY <2>1, Extents
  <2> HIDE DEF min, max
  <2>4. r \in UsedUp(p) /\ Yields(r, min, max) /\ ~r.threw
    BY <2>2, <2>3, RangeFacts
  <2> QED BY <2>3, <2>4 DEF min
<1> QED BY <1>1, <1>2

LEMMA BigIntegralFacts ==
  ASSUME NEW p \in Providers, NEW n \in Nat, NEW signed \in BOOLEAN, signed => n # 0,
         NEW little \in BOOLEAN, NEW r, r = BigIntegralLEorBE(p, n, signed, little)
  PROVE  /\ r \in UsedUp(p) /\ ~r.threw
         /\ Yields(r, Lowest(n, signed), HighestBig(n, signed))
         /\ ByteBits * n <= Mantissa =>
              Yields(r, Lowest(n, signed), Lowest(n, signed) + ValuesOf(n) - 1)
<1> DEFINE min == Lowest(n, signed)
           max == HighestBig(n, signed)
<1>1. r = BigIntegralInRangeLEorBE(p, min, max, little)
  BY DEF BigIntegralLEorBE
<1>2. min \in Int /\ max \in Int /\ min <= max
      /\ (ByteBits * n <= Mantissa => max = Lowest(n, signed) + ValuesOf(n) - 1)
  <2>1. Highest(n, signed) \in Int
    BY Extents
  <2> QED BY <2>1, Extents
<1> HIDE DEF min, max
<1>3. r \in UsedUp(p) /\ Yields(r, min, max) /\ ~r.threw
  BY <1>1, <1>2, BigRangeFacts
<1> QED BY <1>2, <1>3 DEF min, max

-----------------------------------------------------------------------------
(* The other readers of single values, and of strings of bytes.            *)

LEMMA SizeFacts ==
  /\ {ByteBits, DoubleBytes, Mantissa, Fraction, MaxBytes, FloatBytes} \subseteq Nat \ {0}
  /\ FloatBytes <= MaxBytes /\ 1 \in 0..MaxBytes /\ FloatBytes \in 0..MaxBytes
  BY WidthAssumption

LEMMA FieldFacts ==
  ASSUME NEW p \in Providers, NEW r \in UsedUp(p)
  PROVE  /\ r.fdp \in Providers /\ r.out \in Seq(Int) /\ r.threw \in BOOLEAN /\ r.read \in SUBSET Int
         /\ r = [fdp |-> r.fdp, out |-> r.out, threw |-> r.threw, read |-> r.read]
         /\ r.fdp.data = p.data /\ Window(r.fdp) \subseteq Window(p)
         /\ r.read = Window(p) \ Window(r.fdp)
  BY DEF UsedUp, Results

LEMMA ReoutFacts ==
  ASSUME NEW p \in Providers, NEW r \in UsedUp(p), NEW out \in Seq(Int)
  PROVE  /\ [r EXCEPT !.out = out] \in UsedUp(p)
         /\ [r EXCEPT !.out = out].threw = r.threw /\ [r EXCEPT !.out = out].out = out
         /\ [r EXCEPT !.out = out].fdp = r.fdp
<1>1. [r EXCEPT !.out = out] = [fdp |-> r.fdp, out |-> out, threw |-> r.threw, read |-> r.read]
  BY FieldFacts
<1> QED BY <1>1, FieldFacts DEF UsedUp, Results

(* A value for every value.                                                *)
LEMMA MappedFacts ==
  ASSUME NEW S, NEW s \in Seq(Int), NEW t, t = [i \in DOMAIN s |-> t[i]],
         \A i \in 1..Len(s) : t[i] \in S
  PROVE  t \in Seq(S) /\ Len(t) = Len(s)
<1>1. Len(s) \in Nat /\ DOMAIN s = 1..Len(s)
  BY LenProperties
<1>2. t \in [1..Len(s) -> S]
  BY <1>1
<1> QED BY <1>1, <1>2, FunctionIsSeq

LEMMA BooleansFacts ==
  ASSUME NEW p \in Providers, NEW r \in UsedUp(p)
  PROVE  /\ Booleans(r) \in UsedUp(p) /\ Booleans(r).threw = r.threw
         /\ Booleans(r).fdp = r.fdp /\ Len(Booleans(r).out) = Len(r.out)
<1> DEFINE t == [i \in DOMAIN r.out |-> r.out[i] % 2]
<1>1. r.out \in Seq(Int)
  BY FieldFacts
<1>2. \A i \in 1..Len(r.out) : r.out[i] \in Int /\ i \in DOMAIN r.out
  BY <1>1
<1>3. \A i \in 1..Len(r.out) : t[i] \in Int
  BY <1>2
<1>4. t = [i \in DOMAIN r.out |-> t[i]]
  OBVIOUS
<1>5. Booleans(r) = [r EXCEPT !.out = t]
  BY DEF Booleans
<1> HIDE DEF t
<1>6. t \in Seq(Int) /\ Len(t) = Len(r.out)
  BY <1>1, <1>3, <1>4, MappedFacts
<1> QED BY <1>5, <1>6, ReoutFacts

LEMMA BooleanFacts ==
  ASSUME NEW p \in Providers
  PROVE  /\ ConsumeBoolean(p) \in UsedUp(p) /\ ~ConsumeBoolean(p).threw
         /\ Len(ConsumeBoolean(p).out) = 1 /\ ConsumeBoolean(p).out[1] \in Int
<1> DEFINE r == IntegralLEorBE(p, 1, FALSE, TRUE)
<1>1. 1 \in Int /\ 1 \in 0..MaxBytes
  BY SizeFacts
<1>2. r \in UsedUp(p) /\ ~r.threw /\ Yields(r, Lowest(1, FALSE), Lowest(1, FALSE) + ValuesOf(1) - 1)
  BY <1>1, IntegralFacts
<1>3. ConsumeBoolean(p) = Booleans(r)
  BY DEF ConsumeBoolean, ConsumeIntegral
<1> HIDE DEF r
<1>4. Len(r.out) = 1
  BY <1>2 DEF Yields
<1> DEFINE b == Booleans(r)
<1>5. b \in UsedUp(p) /\ ~b.threw /\ Len(b.out) = 1
  BY <1>2, <1>4, BooleansFacts
<1> HIDE DEF b
<1>6. b.out \in Seq(Int)
  BY <1>5, FieldFacts
<1>7. b.out[1] \in Int
  BY <1>5, <1>6
<1> QED BY <1>3, <1>5, <1>7 DEF b

LEMMA ZerosFacts ==
  ASSUME NEW n \in Nat
  PROVE  Zeros(n) \in Seq(Int) /\ Len(Zeros(n)) = n
<1>1. Zeros(n) \in [1..n -> Int]
  BY DEF Zeros
<1> QED BY <1>1, FunctionIsSeq

LEMMA BothIntegers ==
  ASSUME NEW s \in Seq(Int), NEW t \in Seq(Int)
  PROVE  s \o t \in Seq(Int) /\ Len(s \o t) = Len(s) + Len(t)
  BY Concatenated

LEMMA NumberFacts ==
  ASSUME NEW p \in Providers, NEW r, r = ConsumeNumber(p)
  PROVE  r \in UsedUp(p) /\ ~r.threw /\ Len(r.out) = DoubleBytes
<1> DEFINE n == Smaller(p.left, DoubleBytes)
           pos == Reverse(BackOf(p, n))
           head == Zeros(DoubleBytes - n)
           tail == BytesAt(p, pos)
<1>1. p.left \in Nat /\ DoubleBytes \in Nat /\ DoubleBytes # 0
  BY ProviderFacts, SizeFacts
<1>2. n \in 0..p.left /\ DoubleBytes - n \in Nat
  BY <1>1 DEF Smaller
<1>3. CASE p.left = 0
  <2>1. r = Result(p, Zeros(DoubleBytes), {})
    BY <1>3 DEF ConsumeNumber
  <2>2. Zeros(DoubleBytes) \in Seq(Int) /\ Len(Zeros(DoubleBytes)) = DoubleBytes
    BY <1>1, ZerosFacts
  <2>3. r.out = Zeros(DoubleBytes) /\ ~r.threw
    BY <2>1 DEF Result
  <2> QED BY <2>1, <2>2, <2>3, StayFacts
<1>4. CASE p.left # 0
  <2>1. r = Result(BackTaken(p, n), head \o tail, ToSet(pos))
    BY <1>4 DEF ConsumeNumber
  <2> HIDE DEF n
  <2>2. /\ pos \in Seq(Int) /\ Len(pos) = n /\ ToSet(pos) = ToSet(BackOf(p, n))
        /\ ToSet(BackOf(p, n)) = Window(p) \ Window(BackTaken(p, n))
    BY <1>2, BackFacts
  <2>3. ToSet(pos) \subseteq Window(p)
    BY <2>2
  <2>4. tail \in Seq(Int) /\ Len(tail) = n
    <3> HIDE DEF pos
    <3> QED BY <2>2, <2>3, ByteFacts
  <2>5. head \in Seq(Int) /\ Len(head) = DoubleBytes - n
    BY <1>2, ZerosFacts
  <2> HIDE DEF head, tail
  <2>6. head \o tail \in Seq(Int) /\ Len(head \o tail) = (DoubleBytes - n) + n
    BY <2>4, <2>5, BothIntegers
  <2>7. (DoubleBytes - n) + n = DoubleBytes
    BY <1>1, <1>2
  <2>8. r.out = head \o tail /\ ~r.threw
    BY <2>1 DEF Result
  <2>9. r \in UsedUp(p)
    BY <1>2, <2>1, <2>6, BackUsed
  <2> QED BY <2>6, <2>7, <2>8, <2>9
<1> QED BY <1>3, <1>4

LEMMA NumberBEFacts ==
  ASSUME NEW p \in Providers, NEW r, r = NumberBE(p)
  PROVE  r \in UsedUp(p) /\ ~r.threw /\ Len(r.out) = DoubleBytes
<1> DEFINE n == Smaller(p.left, DoubleBytes)
           pos == FrontOf(p, n)
           head == BytesAt(p, pos)
           tail == Zeros(DoubleBytes - n)
           next == IF n < DoubleBytes THEN BackTaken(p, n) ELSE FrontTaken(p, n)
<1>1. p.left \in Nat /\ DoubleBytes \in Nat /\ DoubleBytes # 0
  BY ProviderFacts, SizeFacts
<1>2. n \in 0..p.left /\ DoubleBytes - n \in Nat /\ (n < DoubleBytes => n = p.left)
  BY <1>1 DEF Smaller
<1>3. CASE p.left = 0
  <2>1. r = Result(p, Zeros(DoubleBytes), {})
    BY <1>3 DEF NumberBE
  <2>2. Zeros(DoubleBytes) \in Seq(Int) /\ Len(Zeros(DoubleBytes)) = DoubleBytes
    BY <1>1, ZerosFacts
  <2>3. r.out = Zeros(DoubleBytes) /\ ~r.threw
    BY <2>1 DEF Result
  <2> QED BY <2>1, <2>2, <2>3, StayFacts
<1>4. CASE p.left # 0
  <2>1. r = Result(next, head \o tail, ToSet(pos))
    BY <1>4 DEF NumberBE
  <2> HIDE DEF n
  <2>2. /\ pos \in Seq(Int) /\ Len(pos) = n
        /\ ToSet(pos) = Window(p) \ Window(FrontTaken(p, n))
        /\ ToSet(pos) = p.ptr .. (p.ptr + n - 1)
    BY <1>2, FrontFacts
  <2>3. ToSet(pos) \subseteq Window(p)
    BY <2>2
  <2>4. head \in Seq(Int) /\ Len(head) = n
    <3> HIDE DEF pos
    <3> QED BY <2>2, <2>3, ByteFacts
  <2>5. tail \in Seq(Int) /\ Len(tail) = DoubleBytes - n
    BY <1>2, ZerosFacts
  <2> HIDE DEF head, tail
  <2>6. head \o tail \in Seq(Int) /\ Len(head \o tail) = n + (DoubleBytes - n)
    BY <2>4, <2>5, BothIntegers
  <2>7. n + (DoubleBytes - n) = DoubleBytes
    BY <1>1, <1>2
  <2>8. r.out = head \o tail /\ ~r.threw
    BY <2>1 DEF Result
  <2>9. r \in UsedUp(p)
    <3>1. CASE n < DoubleBytes
      <4>1. n = p.left /\ p.ptr \in Int
        BY <1>2, <3>1, ProviderFacts
      <4>2. ToSet(BackOf(p, n)) = (p.ptr + p.left - n) .. (p.ptr + p.left - 1)
        BY <1>2, BackFacts
      <4>3. p.ptr + p.left - n = p.ptr /\ p.ptr + p.left - 1 = p.ptr + n - 1
        BY <1>1, <4>1
      <4>4. ToSet(pos) = ToSet(BackOf(p, n))
        BY <2>2, <4>2, <4>3
      <4>5. r = Result(BackTaken(p, n), head \o tail, ToSet(BackOf(p, n)))
        BY <2>1, <3>1, <4>4
      <4> QED BY <1>2, <2>6, <4>5, BackUsed
    <3>2. CASE ~(n < DoubleBytes)
      <4>1. r = Result(FrontTaken(p, n), head \o tail, ToSet(FrontOf(p, n)))
        BY <2>1, <3>2
      <4> QED BY <1>2, <2>6, <4>1, FrontUsed
    <3> QED BY <3>1, <3>2
  <2> QED BY <2>6, <2>7, <2>8, <2>9
<1> QED BY <1>3, <1>4

LEMMA BytesFacts ==
  ASSUME NEW p \in Providers, NEW max \in Int, NEW r, r = ConsumeBytes(p, max)
  PROVE  /\ r \in UsedUp(p)
         /\ IF max < 0 THEN r = Throws(p)
            ELSE ~r.threw /\ Len(r.out) <= max /\ \A i \in 1..Len(r.out) : r.out[i] \in Nat
<1> DEFINE n == Smaller(p.left, max)
           out == BytesAt(p, FrontOf(p, n))
<1>1. p.left \in Nat
  BY ProviderFacts
<1>2. CASE max < 0
  <2>1. n < 0
    BY <1>1, <1>2 DEF Smaller
  <2>2. r = Throws(p)
    BY <2>1 DEF ConsumeBytes
  <2> QED BY <1>2, <2>2, ThrowsFacts
<1>3. CASE ~(max < 0)
  <2>1. n \in 0..p.left /\ n <= max /\ ~(n < 0)
    BY <1>1, <1>3 DEF Smaller
  <2>2. r = Result(FrontTaken(p, n), out, ToSet(FrontOf(p, n)))
    BY <2>1 DEF ConsumeBytes
  <2> HIDE DEF n
  <2> DEFINE pos == FrontOf(p, n)
  <2>3. pos \in Seq(Int) /\ Len(pos) = n /\ ToSet(pos) \subseteq Window(p)
    BY <2>1, FrontFacts
  <2>4. out \in Seq(Int) /\ Len(out) = n /\ out \in Seq(Nat)
    <3> HIDE DEF pos
    <3>1. BytesAt(p, pos) \in Seq(Int) /\ Len(BytesAt(p, pos)) = n /\ BytesAt(p, pos) \in Seq(Nat)
      BY <2>3, ByteFacts
    <3> QED BY <3>1 DEF pos
  <2> HIDE DEF out
  <2>5. r.out = out /\ ~r.threw
    BY <2>2 DEF Result
  <2>6. \A i \in 1..Len(out) : out[i] \in Nat
    BY <2>4, ElementOfSeq
  <2>7. r \in UsedUp(p)
    BY <2>1, <2>2, <2>4, FrontUsed
  <2> QED BY <1>3, <2>1, <2>4, <2>5, <2>6, <2>7
<1> QED BY <1>2, <1>3

LEMMA PrintableFacts ==
  ASSUME NEW byte \in Nat
  PROVE  Printable(byte) \in 32..126 /\ Printable(byte) \in Int
  BY DEF Printable

LEMMA StringFacts ==
  ASSUME NEW p \in Providers, NEW max \in Int, NEW printable \in BOOLEAN,
         NEW r, r = ConsumeString(p, max, printable)
  PROVE  /\ r \in UsedUp(p)
         /\ IF max < 0 THEN r = Throws(p)
            ELSE /\ ~r.threw /\ Len(r.out) <= max
                 /\ printable => \A i \in 1..Len(r.out) : r.out[i] \in 32..126
<1> DEFINE b == ConsumeBytes(p, max)
           t == [i \in DOMAIN b.out |-> IF printable THEN Printable(b.out[i]) ELSE b.out[i]]
<1>1. CASE max < 0
  <2>1. r = Throws(p)
    BY <1>1 DEF ConsumeString
  <2> QED BY <1>1, <2>1, ThrowsFacts
<1>2. CASE ~(max < 0)
  <2>1. r = [b EXCEPT !.out = t]
    BY <1>2 DEF ConsumeString
  <2>2. /\ b \in UsedUp(p) /\ ~b.threw /\ Len(b.out) <= max
        /\ \A i \in 1..Len(b.out) : b.out[i] \in Nat
    BY <1>2, BytesFacts
  <2>3. b.out \in Seq(Int)
    BY <2>2, FieldFacts
  <2> HIDE DEF b
  <2>4. DOMAIN b.out = 1..Len(b.out)
    BY <2>3
  <2>5. ASSUME NEW i \in 1..Len(b.out)
        PROVE  t[i] \in Int /\ (printable => t[i] \in 32..126)
    <3>1. b.out[i] \in Nat /\ i \in DOMAIN b.out
      BY <2>2, <2>4
    <3>2. Printable(b.out[i]) \in 32..126 /\ Printable(b.out[i]) \in Int
      BY <3>1, PrintableFacts
    <3>3. b.out[i] \in Int
      BY <3>1
    <3>4. t[i] = IF printable THEN Printable(b.out[i]) ELSE b.out[i]
      BY <3>1
    <3> QED BY <3>2, <3>3, <3>4, Zenon
  <2>6. t = [i \in DOMAIN b.out |-> t[i]]
    OBVIOUS
  <2> HIDE DEF t
  <2>7. t \in Seq(Int) /\ Len(t) = Len(b.out)
    BY <2>3, <2>5, <2>6, MappedFacts
  <2>8. r \in UsedUp(p) /\ ~r.threw /\ r.out = t
    BY <2>1, <2>2, <2>7, ReoutFacts
  <2> QED BY <1>2, <2>2, <2>5, <2>7, <2>8
<1> QED BY <1>1, <1>2

(* One method after another.                                               *)
LEMMA BothUsed ==
  ASSUME NEW p \in Providers, NEW r \in UsedUp(p), NEW s \in UsedUp(r.fdp), NEW out \in Seq(Int),
         NEW threw \in BOOLEAN
  PROVE  [fdp |-> s.fdp, out |-> out, threw |-> threw, read |-> r.read \cup s.read] \in UsedUp(p)
<1>1. /\ r.fdp \in Providers /\ r.fdp.data = p.data /\ Window(r.fdp) \subseteq Window(p)
      /\ r.read = Window(p) \ Window(r.fdp) /\ r.read \in SUBSET Int
  BY FieldFacts
<1>2. /\ s.fdp \in Providers /\ s.fdp.data = r.fdp.data /\ Window(s.fdp) \subseteq Window(r.fdp)
      /\ s.read = Window(r.fdp) \ Window(s.fdp) /\ s.read \in SUBSET Int
  BY <1>1, FieldFacts
<1>3. r.read \cup s.read = Window(p) \ Window(s.fdp) /\ Window(s.fdp) \subseteq Window(p)
  BY <1>1, <1>2
<1> QED BY <1>1, <1>2, <1>3 DEF UsedUp, Results

LEMMA ThenGoesOn ==
  ASSUME NEW r, NEW s, ~r.threw
  PROVE  /\ Then(r, s) = [fdp |-> s.fdp, out |-> r.out \o s.out, threw |-> s.threw,
                          read |-> r.read \cup s.read]
         /\ Then(r, s).fdp = s.fdp /\ Then(r, s).out = r.out \o s.out
         /\ Then(r, s).threw = s.threw
  BY DEF Then

LEMMA ThenFacts ==
  ASSUME NEW p \in Providers, NEW r \in UsedUp(p), NEW s \in UsedUp(r.fdp)
  PROVE  /\ Then(r, s) \in UsedUp(p) /\ Then(r, s).threw = (r.threw \/ s.threw)
         /\ r.threw => Then(r, s) = r
         /\ ~r.threw => Then(r, s).out = r.out \o s.out /\ Then(r, s).fdp = s.fdp
<1>1. r.fdp \in Providers /\ r.out \in Seq(Int) /\ r.threw \in BOOLEAN
  BY FieldFacts
<1>2. s.out \in Seq(Int) /\ s.threw \in BOOLEAN
  BY <1>1, FieldFacts
<1>3. CASE r.threw
  <2>1. Then(r, s) = r
    BY <1>3 DEF Then
  <2> QED BY <1>3, <2>1
<1>4. CASE ~r.threw
  <2>1. /\ Then(r, s) = [fdp |-> s.fdp, out |-> r.out \o s.out, threw |-> s.threw,
                         read |-> r.read \cup s.read]
        /\ Then(r, s).fdp = s.fdp /\ Then(r, s).out = r.out \o s.out
        /\ Then(r, s).threw = s.threw
    BY <1>4, ThenGoesOn
  <2>2. r.out \o s.out \in Seq(Int)
    BY <1>1, <1>2, BothIntegers
  <2>3. Then(r, s) \in UsedUp(p)
    BY <1>2, <2>1, <2>2, BothUsed
  <2> QED BY <1>2, <1>4, <2>1, <2>3, Zenon
<1> QED BY <1>3, <1>4

-----------------------------------------------------------------------------
(* Reads in turn.                                                          *)

Reader(f) == \A q \in Providers : f[q] \in UsedUp(q)
Safe(f)   == \A q \in Providers : ~f[q].threw

LEMMA InTurnSteps ==
  ASSUME NEW p \in Providers, NEW reads, NEW n \in Nat, Len(reads) = n,
         \A k \in 1..n : Reader(reads[k])
  PROVE  \E f \in [0..n -> UsedUp(p)] :
           /\ InTurn(reads, p) = f[n] /\ f[0] = Result(p, <<>>, {})
           /\ \A k \in 1..n : f[k] = Then(f[k - 1], reads[k][f[k - 1].fdp])
<1> DEFINE S == UsedUp(p)
           start == Result(p, <<>>, {})
           next(k, y) == Then(y, reads[k][y.fdp])
           step == [k \in 1..n |-> [y \in S |-> next(k, y)]]
           Body(g, k) == IF k = 0 THEN start ELSE next(k, g[k - 1])
           d == CHOOSE g : g = [k \in 0..n |-> Body(g, k)]
<1>1. start \in S
  <2>1. <<>> \in Seq(Int)
    OBVIOUS
  <2> QED BY <2>1, StayFacts
<1>2. \A k \in 1..n : \A y \in S : next(k, y) \in S
  <2> SUFFICES ASSUME NEW k \in 1..n, NEW y \in S PROVE next(k, y) \in S
    OBVIOUS
  <2>1. y.fdp \in Providers
    BY FieldFacts
  <2>2. reads[k][y.fdp] \in UsedUp(y.fdp)
    BY <2>1 DEF Reader
  <2> QED BY <2>2, ThenFacts
<1>3. InTurn(reads, p) = d[n]
  BY DEF InTurn
<1> HIDE DEF S, start, next
<1>4. PICK f \in [0..n -> S] : Iterates(f, 0..n, start, step)
  <2>1. \A k \in 1..n : \A y \in S : step[k][y] \in S
    BY <1>2
  <2> HIDE DEF step
  <2> QED BY <1>1, <2>1, IterationTo
<1>5. f = [k \in 0..n |-> Body(f, k)]
  <2>1. f = [k \in 0..n |-> IF k = 0 THEN start ELSE step[k][f[k - 1]]]
    BY <1>4 DEF Iterates
  <2>2. \A k \in 0..n : k # 0 => k \in 1..n /\ f[k - 1] \in S
    OBVIOUS
  <2>3. \A k \in 0..n : (IF k = 0 THEN start ELSE step[k][f[k - 1]]) = Body(f, k)
    BY <2>2
  <2> QED BY <2>1, <2>3
<1> HIDE DEF Body
<1>6. d = [k \in 0..n |-> Body(d, k)]
  BY <1>5
<1> HIDE DEF d
<1>7. \A k \in 0..n : d[k] = Body(d, k)
  BY <1>6, Zenon
<1>8. d[0] = start /\ \A k \in 1..n : d[k] = next(k, d[k - 1])
  BY <1>7 DEF Body
<1> DEFINE Good == {k \in Nat : k <= n => d[k] \in S}
<1>9. Nat \subseteq Good
  <2>1. 0 \in Good
    BY <1>1, <1>8
  <2>2. ASSUME NEW k \in Nat, k \in Good PROVE k + 1 \in Good
    <3> SUFFICES ASSUME k + 1 <= n PROVE d[k + 1] \in S
      OBVIOUS
    <3>1. k + 1 \in 1..n /\ (k + 1) - 1 = k /\ d[k] \in S
      BY <2>2
    <3>2. d[k + 1] = next(k + 1, d[k])
      BY <1>8, <3>1
    <3> QED BY <1>2, <3>1, <3>2
  <2> HIDE DEF Good
  <2> QED BY <2>1, <2>2, Induction
<1>10. d \in [0..n -> S]
  <2>1. \A k \in 0..n : d[k] \in S
    BY <1>9
  <2>2. d = [k \in 0..n |-> d[k]]
    BY <1>6
  <2> QED BY <2>1, <2>2
<1> QED BY <1>3, <1>8, <1>10 DEF S, start, next

LEMMA InTurnFacts ==
  ASSUME NEW p \in Providers, NEW reads, NEW n \in Nat, Len(reads) = n,
         \A k \in 1..n : Reader(reads[k])
  PROVE  /\ InTurn(reads, p) \in UsedUp(p)
         /\ (\A k \in 1..n : Safe(reads[k])) => ~InTurn(reads, p).threw
<1>1. PICK f \in [0..n -> UsedUp(p)] :
        /\ InTurn(reads, p) = f[n] /\ f[0] = Result(p, <<>>, {})
        /\ \A k \in 1..n : f[k] = Then(f[k - 1], reads[k][f[k - 1].fdp])
  BY InTurnSteps, SMTT(30)
<1>2. n \in 0..n
  OBVIOUS
<1>3. ASSUME \A k \in 1..n : Safe(reads[k]) PROVE ~f[n].threw
  <2> DEFINE Good == {k \in Nat : k <= n => ~f[k].threw}
  <2>1. 0 \in Good
    BY <1>1 DEF Result
  <2>2. ASSUME NEW k \in Nat, k \in Good PROVE k + 1 \in Good
    <3> SUFFICES ASSUME k + 1 <= n PROVE ~f[k + 1].threw
      OBVIOUS
    <3>1. k + 1 \in 1..n /\ (k + 1) - 1 = k /\ ~f[k].threw /\ k \in 0..n
      BY <2>2
    <3> DEFINE r == f[k]
               s == reads[k + 1][r.fdp]
    <3>2. r \in UsedUp(p) /\ f[k + 1] = Then(r, s) /\ ~r.threw
      BY <1>1, <3>1
    <3>3. r.fdp \in Providers
      BY <3>2, FieldFacts
    <3>4. s \in UsedUp(r.fdp) /\ ~s.threw
      BY <1>3, <3>1, <3>3 DEF Reader, Safe
    <3> HIDE DEF r, s
    <3>5. Then(r, s).threw = s.threw
      BY <3>2, ThenGoesOn
    <3> QED BY <3>2, <3>4, <3>5, Zenon
  <2> HIDE DEF Good
  <2>3. Nat \subseteq Good
    BY <2>1, <2>2, Induction
  <2>4. n \in Good
    BY <2>3
  <2> QED BY <2>4 DEF Good
<1> QED BY <1>1, <1>2, <1>3

LEMMA RepeatFacts ==
  ASSUME NEW p \in Providers, NEW read, NEW n \in Nat, Reader(read)
  PROVE  Repeat(read, p, n) \in UsedUp(p) /\ (Safe(read) => ~Repeat(read, p, n).threw)
<1> DEFINE reads == [k \in 1..n |-> read]
<1>1. reads \in [1..n -> {read}]
  OBVIOUS
<1>2. Len(reads) = n
  <2> HIDE DEF reads
  <2> QED BY <1>1, FunctionIsSeq
<1>3. \A k \in 1..n : reads[k] = read
  OBVIOUS
<1>4. Repeat(read, p, n) = InTurn(reads, p)
  BY DEF Repeat
<1> HIDE DEF reads
<1> QED BY <1>2, <1>3, <1>4, InTurnFacts

LEMMA ArrayLengthFacts ==
  ASSUME NEW p \in Providers, NEW max \in Int, NEW width \in Nat \ {0}
  PROVE  ArrayLength(p, max, width) \in Int
<1> DEFINE available == Smaller(p.left, max * width)
<1>1. max * width \in Int /\ p.left \in Int
  <2>1. p.left \in Nat /\ width \in Int
    BY ProviderFacts
  <2> QED BY <2>1, IntProducts
<1>2. available \in Int
  <2> DEFINE a == max * width
  <2>1. a \in Int
    BY <1>1
  <2> HIDE DEF a
  <2>2. Smaller(p.left, a) \in Int
    BY <1>1, <2>1, SmallerFacts
  <2> QED BY <2>2 DEF a
<1>3. ArrayLength(p, max, width) = IF available < 0 THEN -((-available) \div width)
                                                     ELSE (available + width - 1) \div width
  BY DEF ArrayLength
<1> HIDE DEF available
<1>4. (-available) \div width \in Int /\ (available + width - 1) \div width \in Int
  BY <1>2
<1> QED BY <1>3, <1>4

LEMMA ArraysUsed ==
  ASSUME NEW p \in Providers, NEW max \in Int
  PROVE  /\ \A width \in Nat \ {0} : \A signed \in BOOLEAN :
              /\ ConsumeIntegrals(p, max, width, signed) \in UsedUp(p)
              /\ ConsumeBigIntegrals(p, max, width, signed) \in UsedUp(p)
         /\ ConsumeNumbers(p, max) \in UsedUp(p)
         /\ \A long \in Int : ConsumeStringArray(p, max, long) \in UsedUp(p)
<1>1. ASSUME NEW width \in Nat \ {0}, NEW signed \in BOOLEAN
      PROVE  ConsumeIntegrals(p, max, width, signed) \in UsedUp(p)
  <2> DEFINE n == ArrayLength(p, max, width)
             read == [q \in Providers |-> IntegralLEorBE(q, width, signed, FALSE)]
             count == IF n < 0 THEN 0 ELSE n
  <2>1. Reader(read)
    <3>1. width \in Int /\ width # 0 /\ FALSE \in BOOLEAN
      OBVIOUS
    <3>2. \A q \in Providers : IntegralLEorBE(q, width, signed, FALSE) \in UsedUp(q)
      BY <3>1, IntegralFacts
    <3> QED BY <3>2 DEF Reader
  <2>2. n \in Int
    BY ArrayLengthFacts
  <2>3. count \in Nat
    <3> HIDE DEF n
    <3> QED BY <2>2
  <2>4. ConsumeIntegrals(p, max, width, signed) = Repeat(read, p, count)
    BY DEF ConsumeIntegrals
  <2> HIDE DEF n, read, count
  <2> QED BY <2>1, <2>3, <2>4, RepeatFacts
<1>2. ASSUME NEW width \in Nat \ {0}, NEW signed \in BOOLEAN
      PROVE  ConsumeBigIntegrals(p, max, width, signed) \in UsedUp(p)
  <2> DEFINE n == ArrayLength(p, max, width)
             read == [q \in Providers |-> BigIntegralLEorBE(q, width, signed, FALSE)]
  <2>1. Reader(read)
    <3>1. width \in Nat /\ width # 0 /\ FALSE \in BOOLEAN
      OBVIOUS
    <3>2. \A q \in Providers : BigIntegralLEorBE(q, width, signed, FALSE) \in UsedUp(q)
      BY <3>1, BigIntegralFacts
    <3> QED BY <3>2 DEF Reader
  <2>2. n \in Int
    BY ArrayLengthFacts
  <2>3. ConsumeBigIntegrals(p, max, width, signed) = IF n < 0 THEN Throws(p) ELSE Repeat(read, p, n)
    BY DEF ConsumeBigIntegrals
  <2> HIDE DEF n, read
  <2>4. n < 0 \/ n \in Nat
    BY <2>2
  <2> QED BY <2>1, <2>3, <2>4, RepeatFacts, ThrowsFacts
<1>3. ConsumeNumbers(p, max) \in UsedUp(p)
  <2> DEFINE n == ArrayLength(p, max, DoubleBytes)
             read == [q \in Providers |-> NumberBE(q)]
  <2>1. Reader(read)
    <3>1. \A q \in Providers : NumberBE(q) \in UsedUp(q)
      BY NumberBEFacts
    <3> QED BY <3>1 DEF Reader
  <2>2. n \in Int
    <3>1. DoubleBytes \in Nat \ {0}
      BY SizeFacts
    <3> QED BY <3>1, ArrayLengthFacts
  <2>3. ConsumeNumbers(p, max) = IF n < 0 THEN Throws(p) ELSE Repeat(read, p, n)
    BY DEF ConsumeNumbers
  <2> HIDE DEF n, read
  <2>4. n < 0 \/ n \in Nat
    BY <2>2
  <2> QED BY <2>1, <2>3, <2>4, RepeatFacts, ThrowsFacts
<1>4. ASSUME NEW long \in Int PROVE ConsumeStringArray(p, max, long) \in UsedUp(p)
  <2> DEFINE read == [q \in Providers |-> NextString(q, long)]
             count == IF max < 0 THEN 0 ELSE max
  <2>1. ASSUME NEW q \in Providers PROVE NextString(q, long) \in UsedUp(q)
    <3> DEFINE r == ConsumeString(q, long, FALSE)
    <3>1. r \in UsedUp(q)
      BY StringFacts
    <3>2. NextString(q, long) = IF q.left = 0 THEN Result(q, <<>>, {})
                                ELSE IF r.threw THEN r ELSE [r EXCEPT !.out = <<Len(r.out)>>]
      BY DEF NextString
    <3> HIDE DEF r
    <3>3. <<>> \in Seq(Int) /\ <<Len(r.out)>> \in Seq(Int)
      <4>1. r.out \in Seq(Int)
        BY <3>1, FieldFacts
      <4>2. Len(r.out) \in Int
        BY <4>1
      <4> QED BY <4>2, Singleton
    <3>4. Result(q, <<>>, {}) \in UsedUp(q) /\ [r EXCEPT !.out = <<Len(r.out)>>] \in UsedUp(q)
      BY <3>1, <3>3, StayFacts, ReoutFacts
    <3> QED BY <3>1, <3>2, <3>4
  <2>2. Reader(read)
    BY <2>1 DEF Reader
  <2>3. count \in Nat
    OBVIOUS
  <2>4. ConsumeStringArray(p, max, long) = Repeat(read, p, count)
    BY DEF ConsumeStringArray
  <2> HIDE DEF read, count
  <2> QED BY <2>2, <2>3, <2>4, RepeatFacts
<1> QED BY <1>1, <1>2, <1>3, <1>4

-----------------------------------------------------------------------------
(* Doubles.                                                                *)

LEMMA MantissaFacts ==
  /\ Mantissa \in Nat /\ Mantissa - 1 \in Nat /\ Fraction \in Nat
  /\ TwoTo[Mantissa - 1] \in Nat /\ TwoTo[Mantissa - 1] >= 1
  /\ TwoTo[Mantissa] = 2 * TwoTo[Mantissa - 1]
  /\ \A e \in Nat : /\ TwoTo[e] \in Nat /\ TwoTo[e] >= 1
                    /\ TwoTo[e + Mantissa] = TwoTo[e] * TwoTo[Mantissa]
                    /\ e > 0 => TwoTo[e - 1 + Mantissa] = TwoTo[e] * TwoTo[Mantissa - 1]
<1>1. Mantissa \in Nat /\ Mantissa - 1 \in Nat /\ Fraction \in Nat
  BY WidthAssumption
<1>2. ASSUME NEW n \in Nat PROVE TwoTo[n] \in Nat /\ TwoTo[n] >= 1
  <2>1. TwoTo[n] \in Nat /\ TwoTo[n] > n
    BY PowerFacts, PowersGrow
  <2> QED BY <2>1
<1>3. TwoTo[Mantissa] = 2 * TwoTo[Mantissa - 1]
  <2>1. (Mantissa - 1) + 1 = Mantissa
    BY <1>1
  <2> QED BY <1>1, <2>1, PowerFacts
<1>4. ASSUME NEW e \in Nat, e > 0 PROVE TwoTo[e - 1 + Mantissa] = TwoTo[e] * TwoTo[Mantissa - 1]
  <2>1. e - 1 + Mantissa = e + (Mantissa - 1)
    BY <1>1
  <2> QED BY <1>1, <2>1, PowerProduct
<1> QED BY <1>1, <1>2, <1>3, <1>4, PowerProduct

LEMMA ProductGrows ==
  ASSUME NEW a \in Nat, NEW b \in Nat, NEW c \in Nat, b <= c
  PROVE  a * b \in Nat /\ a * c \in Nat /\ a * b <= a * c
  OBVIOUS

(* The exponent is the least for which the fraction has at most Mantissa   *)
(* bits before the point.                                                  *)
LEMMA ExponentFacts ==
  ASSUME NEW a \in Nat, NEW b \in Nat \ {0}
  PROVE  /\ Exponent(a, b) \in Nat /\ a < b * TwoTo[Exponent(a, b) + Mantissa]
         /\ Exponent(a, b) > 0 => a >= b * TwoTo[Exponent(a, b) - 1 + Mantissa]
         /\ \A d \in Nat : a < b * TwoTo[d + Mantissa] => Exponent(a, b) <= d
<1> DEFINE S == {d \in Nat : a < b * TwoTo[d + Mantissa]}
           e == Exponent(a, b)
<1>1. ASSUME NEW d \in Nat PROVE d + Mantissa \in Nat /\ TwoTo[d + Mantissa] \in Nat
  <2>1. d + Mantissa \in Nat
    BY MantissaFacts
  <2> QED BY <2>1, PowerFacts
<1>2. \A c, d \in Nat : c <= d => b * TwoTo[c + Mantissa] <= b * TwoTo[d + Mantissa]
  <2> SUFFICES ASSUME NEW c \in Nat, NEW d \in Nat, c <= d
               PROVE  b * TwoTo[c + Mantissa] <= b * TwoTo[d + Mantissa]
    OBVIOUS
  <2>1. Mantissa \in Nat
    BY MantissaFacts
  <2>4. c + Mantissa <= d + Mantissa
    BY <2>1
  <2>2. TwoTo[c + Mantissa] <= TwoTo[d + Mantissa]
    BY <1>1, <2>4, PowersGrow
  <2> QED BY <1>1, <2>2, ProductGrows
<1>3. a \in S
  <2>1. TwoTo[a + Mantissa] > a + Mantissa
    BY <1>1, PowersGrow
  <2>2. a < TwoTo[a + Mantissa]
    <3>1. Mantissa \in Nat /\ TwoTo[a + Mantissa] \in Nat
      BY <1>1, MantissaFacts
    <3> QED BY <2>1, <3>1
  <2>3. TwoTo[a + Mantissa] * 1 <= TwoTo[a + Mantissa] * b
    BY <1>1, ProductGrows
  <2> QED BY <1>1, <2>2, <2>3
<1>4. PICK n \in S : \A k \in S : n <= k
  <2>1. S \in SUBSET Nat /\ S # {}
    BY <1>3
  <2> HIDE DEF S
  <2> QED BY <2>1, LeastNatural
<1>5. n \in 0..a /\ n \in S
  BY <1>3, <1>4
<1>6. n > 0 => a >= b * TwoTo[n - 1 + Mantissa]
  <2> SUFFICES ASSUME n > 0, ~(a >= b * TwoTo[n - 1 + Mantissa]) PROVE FALSE
    OBVIOUS
  <2>1. n - 1 \in Nat /\ TwoTo[n - 1 + Mantissa] \in Nat
    BY <1>1, <1>5
  <2>2. b * TwoTo[n - 1 + Mantissa] \in Nat
    BY <2>1
  <2>3. n - 1 \in S
    BY <2>1, <2>2
  <2> HIDE DEF S
  <2> QED BY <1>4, <1>5, <2>3
<1>7. /\ e \in 0..a /\ a < b * TwoTo[e + Mantissa]
      /\ e > 0 => a >= b * TwoTo[e - 1 + Mantissa]
  BY <1>5, <1>6 DEF Exponent
<1> HIDE DEF e
<1>8. ASSUME NEW d \in Nat, a < b * TwoTo[d + Mantissa] PROVE e <= d
  <2> SUFFICES ASSUME ~(e <= d) PROVE FALSE
    OBVIOUS
  <2>1. e - 1 \in Nat /\ d <= e - 1 /\ e > 0
    BY <1>7
  <2>2. b * TwoTo[d + Mantissa] <= b * TwoTo[e - 1 + Mantissa]
    BY <1>2, <2>1
  <2>3. b * TwoTo[d + Mantissa] \in Nat /\ b * TwoTo[e - 1 + Mantissa] \in Nat
    BY <1>1, <2>1
  <2> QED BY <1>7, <1>8, <2>1, <2>2, <2>3
<1> QED BY <1>7, <1>8 DEF e

(* The units: the larger number's are no smaller, and at most double those *)
(* of a number no less than half of it.                                    *)
LEMMA SpacingGrows ==
  ASSUME NEW a \in Nat, NEW c \in Nat, NEW b \in Nat \ {0}
  PROVE  /\ Spacing(a, b) \in Nat /\ Spacing(a, b) >= 1
         /\ a <= c => Exponent(a, b) <= Exponent(c, b) /\ Spacing(a, b) <= Spacing(c, b)
         /\ c <= 2 * a => Spacing(c, b) <= 2 * Spacing(a, b)
<1> DEFINE e == Exponent(a, b)
           f == Exponent(c, b)
<1>1. /\ e \in Nat /\ a < b * TwoTo[e + Mantissa]
      /\ f \in Nat /\ c < b * TwoTo[f + Mantissa]
  BY ExponentFacts
<1>2. \A d \in Nat : (a < b * TwoTo[d + Mantissa] => e <= d) /\ (c < b * TwoTo[d + Mantissa] => f <= d)
  BY ExponentFacts
<1>3. Spacing(a, b) = TwoTo[e] /\ Spacing(c, b) = TwoTo[f]
  BY DEF Spacing
<1> HIDE DEF e, f
<1>4. \A d \in Nat : d + Mantissa \in Nat /\ TwoTo[d + Mantissa] \in Nat /\ b * TwoTo[d + Mantissa] \in Nat
  <2> SUFFICES ASSUME NEW d \in Nat
               PROVE  d + Mantissa \in Nat /\ TwoTo[d + Mantissa] \in Nat /\ b * TwoTo[d + Mantissa] \in Nat
    OBVIOUS
  <2>1. d + Mantissa \in Nat
    BY MantissaFacts
  <2>2. TwoTo[d + Mantissa] \in Nat
    BY <2>1, PowerFacts
  <2> QED BY <2>1, <2>2
<1>5. a <= c => e <= f
  <2>1. a <= c => a < b * TwoTo[f + Mantissa]
    BY <1>1, <1>4
  <2> QED BY <1>1, <1>2, <2>1
<1>6. c <= 2 * a => f <= e + 1
  <2> SUFFICES ASSUME c <= 2 * a PROVE c < b * TwoTo[(e + 1) + Mantissa]
    BY <1>1, <1>2
  <2>1. (e + 1) + Mantissa = (e + Mantissa) + 1
    BY <1>1, MantissaFacts
  <2>2. TwoTo[(e + 1) + Mantissa] = 2 * TwoTo[e + Mantissa]
    BY <1>1, <1>4, <2>1, PowerFacts
  <2>3. b * TwoTo[(e + 1) + Mantissa] = 2 * (b * TwoTo[e + Mantissa])
    BY <1>1, <1>4, <2>2
  <2> QED BY <1>1, <1>4, <2>3
<1>7. TwoTo[e] \in Nat /\ TwoTo[e] >= 1
  BY <1>1, MantissaFacts
<1>8. e <= f => TwoTo[e] <= TwoTo[f]
  BY <1>1, PowersGrow
<1>9. f <= e + 1 => TwoTo[f] <= 2 * TwoTo[e]
  <2>1. f <= e + 1 => TwoTo[f] <= TwoTo[e + 1]
    BY <1>1, PowersGrow
  <2> QED BY <1>1, <2>1, PowerFacts
<1> QED BY <1>3, <1>5, <1>6, <1>7, <1>8, <1>9 DEF e, f

(* A quotient and its remainder.                                           *)
LEMMA Quotients ==
  ASSUME NEW a \in Nat, NEW w \in Nat \ {0}
  PROVE  a \div w \in Nat /\ a % w \in 0 .. w - 1 /\ a = w * (a \div w) + (a % w)
  OBVIOUS

LEMMA BelowPower ==
  ASSUME NEW q \in Nat, NEW w \in Nat \ {0}, NEW m \in Nat, NEW a \in Nat, NEW r \in 0 .. w - 1,
         a = w * q + r
  PROVE  /\ a < w * m => q + 1 <= m
         /\ a >= w * m => q >= m
<1>1. q + 1 > m => w * q >= w * m
  OBVIOUS
<1>2. q < m => w * q + w <= w * m
  <2>1. q + 1 <= m => w * (q + 1) <= w * m
    OBVIOUS
  <2> QED BY <2>1
<1> DEFINE x == w * q
           y == w * m
<1>3. x \in Int /\ y \in Int
  OBVIOUS
<1>4. (q + 1 > m => x >= y) /\ (q < m => x + w <= y) /\ a = x + r
  BY <1>1, <1>2
<1>5. (a < y => q + 1 <= m) /\ (a >= y => q >= m)
  <2> HIDE DEF x, y
  <2> QED BY <1>3, <1>4
<1> QED BY <1>5

(* The nearest double: a number of units of which there are 2^Mantissa at  *)
(* most, no further than half a unit away.                                 *)
LEMMA NearestFacts ==
  ASSUME NEW a \in Nat, NEW b \in Nat \ {0}
  PROVE  \E Q \in Nat :
           /\ Nearest(a, b) = Q * Spacing(a, b)
           /\ 2 * a <= 2 * (b * (Q * Spacing(a, b))) + b * Spacing(a, b)
           /\ 2 * (b * (Q * Spacing(a, b))) <= 2 * a + b * Spacing(a, b)
           /\ Q <= TwoTo[Mantissa]
           /\ Exponent(a, b) > 0 => Q >= TwoTo[Mantissa - 1]
<1> DEFINE u == Spacing(a, b)
           e == Exponent(a, b)
           w == b * u
           q == a \div w
           r == a % w
           up == 2 * r > w \/ (2 * r = w /\ q % 2 = 1)
           Q == IF up THEN q + 1 ELSE q
<1>1. e \in Nat /\ u = TwoTo[e] /\ u \in Nat /\ u >= 1
  BY ExponentFacts, SpacingGrows DEF Spacing
<1>2. a < b * (u * TwoTo[Mantissa]) /\ (e > 0 => a >= b * (u * TwoTo[Mantissa - 1]))
  <2>1. /\ a < b * TwoTo[e + Mantissa]
        /\ e > 0 => a >= b * TwoTo[e - 1 + Mantissa]
    BY ExponentFacts
  <2>2. TwoTo[e + Mantissa] = u * TwoTo[Mantissa] /\ (e > 0 => TwoTo[e - 1 + Mantissa] = u * TwoTo[Mantissa - 1])
    BY <1>1, MantissaFacts
  <2> HIDE DEF e, u
  <2> QED BY <2>1, <2>2
<1>3. Nearest(a, b) = Q * u
  BY DEF Nearest
<1> HIDE DEF u, e
<1>4. w \in Nat \ {0}
  <2>1. b * 1 <= b * u
    BY <1>1, ProductGrows
  <2> QED BY <1>1, <2>1
<1>5. \A m \in Nat : b * (u * m) = w * m
  BY <1>1
<1> HIDE DEF w
<1>6. q \in Nat /\ r \in 0 .. w - 1 /\ a = w * q + r
  BY <1>4, Quotients
<1> HIDE DEF q, r
<1>7. q + 1 <= TwoTo[Mantissa] /\ (e > 0 => q >= TwoTo[Mantissa - 1])
  <2>1. TwoTo[Mantissa] \in Nat /\ TwoTo[Mantissa - 1] \in Nat
    BY MantissaFacts
  <2>2. a < w * TwoTo[Mantissa] /\ (e > 0 => a >= w * TwoTo[Mantissa - 1])
    BY <1>2, <1>5, <2>1
  <2> QED BY <1>4, <1>6, <2>1, <2>2, BelowPower
<1>8. Q \in Nat /\ Q <= TwoTo[Mantissa] /\ (e > 0 => Q >= TwoTo[Mantissa - 1])
  <2>1. TwoTo[Mantissa] \in Nat /\ TwoTo[Mantissa - 1] \in Nat
    BY MantissaFacts
  <2> QED BY <1>6, <1>7, <2>1
<1>9. 2 * a <= 2 * (w * Q) + w /\ 2 * (w * Q) <= 2 * a + w
  <2> DEFINE x == w * q
  <2>1. x \in Nat /\ w * (q + 1) = x + w /\ a = x + r
    BY <1>4, <1>6
  <2>2. CASE up
    <3>1. 2 * r >= w /\ Q = q + 1
      BY <1>4, <1>6, <2>2
    <3> HIDE DEF x, up, Q
    <3> QED BY <1>4, <1>6, <2>1, <3>1
  <2>3. CASE ~up
    <3>1. 2 * r <= w /\ Q = q
      BY <1>4, <1>6, <2>3
    <3> HIDE DEF up, Q
    <3>2. w * Q = x
      BY <3>1
    <3> HIDE DEF x
    <3> QED BY <1>4, <1>6, <2>1, <3>1, <3>2
  <2> QED BY <2>2, <2>3
<1> HIDE DEF Q
<1>10. b * (Q * u) = w * Q
  BY <1>1, <1>8 DEF w
<1> QED BY <1>3, <1>8, <1>9, <1>10 DEF u, w, e

(* Rounding keeps the order, whatever the exponents.                       *)
LEMMA NearestMonotone ==
  ASSUME NEW a \in Nat, NEW c \in Nat, NEW b \in Nat \ {0}, a <= c
  PROVE  Nearest(a, b) \in Nat /\ Nearest(c, b) \in Nat /\ Nearest(a, b) <= Nearest(c, b)
<1> DEFINE u == Spacing(a, b)
           v == Spacing(c, b)
           e == Exponent(a, b)
           f == Exponent(c, b)
           P == TwoTo[Mantissa]
           H == TwoTo[Mantissa - 1]
<1>1. PICK Q \in Nat :
        /\ Nearest(a, b) = Q * u /\ 2 * (b * (Q * u)) <= 2 * a + b * u /\ Q <= P
  BY NearestFacts
<1>2. PICK R \in Nat :
        /\ Nearest(c, b) = R * v /\ 2 * c <= 2 * (b * (R * v)) + b * v /\ (f > 0 => R >= H)
  BY NearestFacts
<1>3. u \in Nat /\ v \in Nat /\ u >= 1 /\ v >= 1 /\ e \in Nat /\ f \in Nat /\ e <= f
      /\ u = TwoTo[e] /\ v = TwoTo[f]
  BY ExponentFacts, SpacingGrows DEF Spacing
<1>4. P \in Nat /\ H \in Nat /\ P = 2 * H
  BY MantissaFacts
<1>5. e < f => 2 * u <= v
  <2> SUFFICES ASSUME e < f PROVE 2 * u <= v
    OBVIOUS
  <2>1. e + 1 <= f
    BY <1>3
  <2>2. TwoTo[e + 1] = 2 * TwoTo[e] /\ TwoTo[e + 1] <= TwoTo[f]
    <3>1. e + 1 \in Nat
      BY <1>3
    <3> QED BY <1>3, <2>1, <3>1, PowerFacts, PowersGrow
  <2> QED BY <1>3, <2>2
<1> HIDE DEF u, v, e, f, P, H
<1>6. Q * u \in Nat /\ R * v \in Nat
  BY <1>3
<1>7. CASE e < f
  <2>1. Q * u <= P * u
    BY <1>1, <1>3, <1>4
  <2>2. P * u = H * (2 * u)
    BY <1>3, <1>4
  <2>3. H * (2 * u) <= H * v
    BY <1>3, <1>4, <1>5, <1>7
  <2>4. H * v <= R * v
    <3>1. R >= H
      BY <1>2, <1>3, <1>7
    <3> QED BY <1>3, <1>4, <3>1
  <2> DEFINE qu == Q * u
             rv == R * v
             pu == P * u
             hu == H * (2 * u)
             hv == H * v
  <2>5. qu \in Nat /\ rv \in Nat /\ pu \in Nat /\ hu \in Nat /\ hv \in Nat
    BY <1>3, <1>4
  <2>6. qu <= rv
    <3>1. qu <= pu /\ pu = hu /\ hu <= hv /\ hv <= rv
      BY <2>1, <2>2, <2>3, <2>4
    <3> HIDE DEF qu, rv, pu, hu, hv
    <3> QED BY <2>5, <3>1
  <2> QED BY <1>1, <1>2, <1>6, <2>6
<1>8. CASE e = f
  <2>1. u = v
    BY <1>3, <1>8
  <2>2. CASE a = c
    <3>1. Nearest(a, b) = Nearest(c, b)
      BY <2>2
    <3> QED BY <1>1, <1>6, <3>1
  <2>3. CASE a < c
    <3> SUFFICES ASSUME R < Q PROVE FALSE
      <4>1. R >= Q => R * v >= Q * v
        BY <1>3
      <4> QED BY <1>1, <1>2, <1>6, <2>1, <4>1
    <3> DEFINE w == b * u
    <3>1. w \in Nat
      BY <1>3
    <3>2. b * (Q * u) = w * Q /\ b * (R * v) = w * R /\ b * v = w
      BY <1>3, <2>1
    <3>3. w * R + w <= w * Q
      <4>1. R + 1 <= Q
        OBVIOUS
      <4> HIDE DEF w
      <4>2. w * (R + 1) <= w * Q
        BY <3>1, <4>1, ProductGrows
      <4> QED BY <3>1, <4>2
    <3>4. 2 * (w * Q) <= 2 * a + w /\ 2 * c <= 2 * (w * R) + w
      <4>1. b * u = w
        OBVIOUS
      <4> HIDE DEF w
      <4> QED BY <1>1, <1>2, <3>2, <4>1
    <3> DEFINE x == w * Q
               y == w * R
    <3>5. x \in Nat /\ y \in Nat
      <4> HIDE DEF w
      <4> QED BY <3>1
    <3> HIDE DEF x, y, w
    <3> QED BY <2>3, <3>1, <3>3, <3>4, <3>5 DEF x, y
  <2> QED BY <2>2, <2>3
<1> QED BY <1>3, <1>7, <1>8

(* A power of two divides the larger ones.                                 *)
LEMMA PowersDivide ==
  ASSUME NEW m \in Nat, NEW n \in Nat, m <= n
  PROVE  \E k \in Nat : TwoTo[n] = k * TwoTo[m]
<1>1. n - m \in Nat /\ m + (n - m) = n
  OBVIOUS
<1>2. TwoTo[n] = TwoTo[m] * TwoTo[n - m] /\ TwoTo[m] \in Nat /\ TwoTo[n - m] \in Nat
  BY <1>1, PowerFacts, PowerProduct
<1>3. TwoTo[n] = TwoTo[n - m] * TwoTo[m]
  BY <1>2
<1> QED BY <1>2, <1>3

LEMMA Multiples ==
  ASSUME NEW k \in Nat, NEW m \in Nat \ {0}
  PROVE  (k * m) % m = 0
<1> DEFINE x == k * m
           q == x \div m
           r == x % m
<1>1. x \in Nat
  OBVIOUS
<1>2. q \in Nat /\ r \in 0 .. m - 1 /\ x = m * q + r
  <2> HIDE DEF x
  <2> QED BY <1>1, Quotients
<1> HIDE DEF q, r
<1>3. m * k = m * q + r
  BY <1>2
<1>4. k <= q
  <2>1. k > q => m * k >= m * q + m
    <3>1. k >= q + 1 => m * (q + 1) <= m * k
      BY <1>2, ProductGrows
    <3> QED BY <1>2, <3>1
  <2> DEFINE y == m * k
             z == m * q
  <2>2. y \in Nat /\ z \in Nat
    BY <1>2
  <2>3. y = z + r /\ (k > q => y >= z + m)
    BY <1>3, <2>1
  <2> HIDE DEF y, z
  <2> QED BY <1>2, <2>2, <2>3
<1>5. q <= k
  <2>1. q > k => m * q >= m * k + m
    <3>1. q >= k + 1 => m * (k + 1) <= m * q
      BY <1>2, ProductGrows
    <3> QED BY <1>2, <3>1
  <2> DEFINE y == m * k
             z == m * q
  <2>2. y \in Nat /\ z \in Nat
    BY <1>2
  <2>3. y = z + r /\ (q > k => z >= y + m)
    BY <1>3, <2>1
  <2> HIDE DEF y, z
  <2> QED BY <1>2, <2>2, <2>3
<1>6. q = k
  BY <1>2, <1>4, <1>5
<1>7. r = 0
  BY <1>2, <1>3, <1>6
<1> QED BY <1>7 DEF r

(* What is rounded is a double.                                            *)
LEMMA NearestDouble ==
  ASSUME NEW a \in Nat, NEW b \in Nat \ {0}
  PROVE  Nearest(a, b) % Spacing(Nearest(a, b), 1) = 0
<1> DEFINE x == Nearest(a, b)
           u == Spacing(a, b)
           e == Exponent(a, b)
           g == Exponent(x, 1)
           P == TwoTo[Mantissa]
<1>1. PICK Q \in Nat : x = Q * u /\ Q <= P
  BY NearestFacts
<1>2. e \in Nat /\ u = TwoTo[e] /\ u \in Nat /\ u >= 1 /\ P \in Nat
  BY ExponentFacts, SpacingGrows, MantissaFacts DEF Spacing
<1>3. x \in Nat
  BY NearestMonotone
<1>4. g \in Nat /\ \A d \in Nat : x < 1 * TwoTo[d + Mantissa] => g <= d
  <2> HIDE DEF x
  <2> QED BY <1>3, ExponentFacts
<1>5. Spacing(x, 1) = TwoTo[g]
  BY DEF Spacing
<1> HIDE DEF x, u, e, g
<1>6. CASE Q < P
  <2>1. x < TwoTo[e + Mantissa]
    <3>1. TwoTo[e + Mantissa] = u * P
      BY <1>2, MantissaFacts
    <3>2. (Q + 1) * u <= P * u /\ (Q + 1) * u = Q * u + u /\ P * u = u * P
      <4>1. Q + 1 <= P
        BY <1>2, <1>6
      <4> HIDE DEF P
      <4> QED BY <1>2, <4>1
    <3> DEFINE y == Q * u
               z == u * P
    <3>3. y \in Nat /\ z \in Nat
      BY <1>2
    <3>4. y + u <= z
      BY <3>2
    <3>5. x = y /\ TwoTo[e + Mantissa] = z
      BY <1>1, <3>1
    <3> HIDE DEF y, z
    <3> QED BY <1>2, <3>3, <3>4, <3>5
  <2>2. g <= e
    <3>1. x < 1 * TwoTo[e + Mantissa]
      <4>1. TwoTo[e + Mantissa] \in Nat
        BY <1>2, MantissaFacts, PowerFacts
      <4> QED BY <2>1, <4>1
    <3> QED BY <1>2, <1>4, <3>1
  <2>3. PICK k \in Nat : TwoTo[e] = k * TwoTo[g]
    BY <1>2, <1>4, <2>2, PowersDivide
  <2>4. TwoTo[g] \in Nat \ {0}
    BY <1>4, MantissaFacts
  <2>5. x = (Q * k) * TwoTo[g] /\ Q * k \in Nat
    BY <1>1, <1>2, <2>3, <2>4
  <2>6. ((Q * k) * TwoTo[g]) % TwoTo[g] = 0
    BY <2>4, <2>5, Multiples
  <2>7. x % Spacing(x, 1) = 0
    BY <1>5, <2>5, <2>6
  <2> QED BY <2>7 DEF x
<1>7. CASE Q = P
  <2>1. x = TwoTo[e + Mantissa] /\ e + Mantissa \in Nat
    <3>1. TwoTo[e + Mantissa] = u * P /\ Mantissa \in Nat
      BY <1>2, MantissaFacts
    <3> QED BY <1>1, <1>2, <1>7, <3>1
  <2>2. g <= e + 1
    <3>1. (e + 1) + Mantissa = (e + Mantissa) + 1
      BY <1>2, MantissaFacts
    <3>2. TwoTo[(e + 1) + Mantissa] = 2 * x
      BY <2>1, <3>1, PowerFacts
    <3>3. x >= 1
      BY <2>1, MantissaFacts
    <3>4. x < 1 * TwoTo[(e + 1) + Mantissa]
      BY <1>3, <3>2, <3>3
    <3> QED BY <1>2, <1>4, <3>4
  <2>3. g <= e + Mantissa
    BY <1>2, <1>4, <2>2, MantissaFacts
  <2>4. PICK k \in Nat : TwoTo[e + Mantissa] = k * TwoTo[g]
    BY <1>4, <2>1, <2>3, PowersDivide
  <2>5. TwoTo[g] \in Nat \ {0}
    BY <1>4, MantissaFacts
  <2>6. (k * TwoTo[g]) % TwoTo[g] = 0
    BY <2>4, <2>5, Multiples
  <2>7. x % Spacing(x, 1) = 0
    BY <1>5, <2>1, <2>4, <2>6
  <2> QED BY <2>7 DEF x
<1> QED BY <1>1, <1>2, <1>6, <1>7 DEF x

(* A double is rounded to itself.                                          *)
LEMMA NearestExact ==
  ASSUME NEW k \in Nat, NEW b \in Nat \ {0}, k % Spacing(k, 1) = 0
  PROVE  k * b \in Nat /\ Nearest(k * b, b) = k
<1> DEFINE a == k * b
           e == Exponent(k, 1)
           f == Exponent(a, b)
           u == Spacing(k, 1)
<1>1. a \in Nat
  OBVIOUS
<1>2. /\ e \in Nat /\ k < 1 * TwoTo[e + Mantissa]
      /\ \A d \in Nat : k < 1 * TwoTo[d + Mantissa] => e <= d
  BY ExponentFacts
<1>3. /\ f \in Nat /\ a < b * TwoTo[f + Mantissa]
      /\ \A d \in Nat : a < b * TwoTo[d + Mantissa] => f <= d
  <2> HIDE DEF a
  <2> QED BY <1>1, ExponentFacts
<1>4. ASSUME NEW d \in Nat PROVE (k < 1 * TwoTo[d + Mantissa]) <=> (a < b * TwoTo[d + Mantissa])
  <2> DEFINE t == TwoTo[d + Mantissa]
  <2>1. t \in Nat
    <3>1. d + Mantissa \in Nat
      BY MantissaFacts
    <3> QED BY <3>1, PowerFacts
  <2> HIDE DEF t
  <2>2. k < t => k * b < b * t
    <3>1. k + 1 <= t => b * (k + 1) <= b * t
      BY <2>1, ProductGrows
    <3> QED BY <2>1, <3>1
  <2>3. ~(k < t) => k * b >= b * t
    <3>1. t <= k => b * t <= b * k
      BY <2>1, ProductGrows
    <3> QED BY <2>1, <3>1
  <2>4. k * b \in Nat /\ b * t \in Nat
    BY <2>1
  <2> QED BY <2>1, <2>2, <2>3, <2>4 DEF t
<1> HIDE DEF e, f
<1>5. e = f
  <2>1. e <= f
    BY <1>2, <1>3, <1>4
  <2>2. f <= e
    BY <1>2, <1>3, <1>4
  <2> QED BY <1>2, <1>3, <2>1, <2>2
<1>6. Spacing(a, b) = u /\ u \in Nat /\ u >= 1
  <2>1. u \in Nat /\ u >= 1
    BY SpacingGrows
  <2> QED BY <1>5, <2>1 DEF Spacing, e, f
<1>7. PICK Q \in Nat :
        /\ Nearest(a, b) = Q * u /\ 2 * a <= 2 * (b * (Q * u)) + b * u
        /\ 2 * (b * (Q * u)) <= 2 * a + b * u
  <2> HIDE DEF a, u
  <2> QED BY <1>1, <1>6, NearestFacts
<1>8. PICK j \in Nat : k = u * j
  <2>1. k % u = 0
    OBVIOUS
  <2> HIDE DEF u
  <2>2. k \div u \in Nat /\ k = u * (k \div u) + (k % u)
    <3>1. u \in Nat \ {0}
      BY <1>6
    <3> QED BY <3>1, Quotients
  <2> DEFINE j == k \div u
  <2>3. j \in Nat /\ k = u * j + 0
    BY <2>1, <2>2
  <2> HIDE DEF j
  <2> QED BY <1>6, <2>3
<1> HIDE DEF u
<1> DEFINE w == b * u
<1>9. w \in Nat \ {0}
  <2>1. b * 1 <= b * u
    BY <1>6, ProductGrows
  <2> QED BY <1>6, <2>1
<1>10. a = w * j /\ b * (Q * u) = w * Q
  BY <1>6, <1>8
<1>11. w * j \in Nat /\ w * Q \in Nat
  <2> HIDE DEF w
  <2> QED BY <1>9
<1>12. 2 * (w * j) <= 2 * (w * Q) + w /\ 2 * (w * Q) <= 2 * (w * j) + w
  <2>1. b * u = w
    OBVIOUS
  <2> HIDE DEF w, a
  <2> QED BY <1>7, <1>10, <2>1
<1>13. (j > Q => w * j >= w * Q + w) /\ (Q > j => w * Q >= w * j + w)
  <2> HIDE DEF w
  <2>1. j >= Q + 1 => w * (Q + 1) <= w * j
    BY <1>9, ProductGrows
  <2>2. Q >= j + 1 => w * (j + 1) <= w * Q
    BY <1>9, ProductGrows
  <2> QED BY <1>9, <2>1, <2>2
<1>14. Q = j
  <2> DEFINE x == w * j
             y == w * Q
  <2>1. x \in Nat /\ y \in Nat
    BY <1>11
  <2>2. 2 * x <= 2 * y + w /\ 2 * y <= 2 * x + w /\ (j > Q => x >= y + w) /\ (Q > j => y >= x + w)
    BY <1>12, <1>13
  <2> HIDE DEF x, y, w
  <2> QED BY <1>9, <2>1, <2>2
<1>15. Q * u = k
  BY <1>6, <1>8, <1>14
<1> QED BY <1>1, <1>7, <1>15

(* Rounding with a sign.                                                   *)
LEMMA MagnitudeFacts ==
  ASSUME NEW a \in Int
  PROVE  /\ Magnitude(a) \in Nat /\ (a < 0 => -a \in Nat /\ Magnitude(a) = -a)
         /\ (~(a < 0) => a \in Nat /\ Magnitude(a) = a)
  BY DEF Magnitude

LEMMA RoundedMonotone ==
  ASSUME NEW a \in Int, NEW c \in Int, NEW b \in Nat \ {0}, a <= c
  PROVE  Rounded(a, b) \in Int /\ Rounded(c, b) \in Int /\ Rounded(a, b) <= Rounded(c, b)
<1>1. ASSUME NEW x \in Int PROVE /\ x < 0 => -x \in Nat /\ Nearest(-x, b) \in Nat /\ Rounded(x, b) = -Nearest(-x, b)
                                 /\ ~(x < 0) => x \in Nat /\ Nearest(x, b) \in Nat /\ Rounded(x, b) = Nearest(x, b)
  <2>1. x < 0 => -x \in Nat /\ Nearest(-x, b) \in Nat
    <3>1. x < 0 => -x \in Nat /\ -x <= -x
      OBVIOUS
    <3> QED BY <3>1, NearestMonotone
  <2>2. ~(x < 0) => x \in Nat /\ Nearest(x, b) \in Nat
    <3>1. ~(x < 0) => x \in Nat /\ x <= x
      OBVIOUS
    <3> QED BY <3>1, NearestMonotone
  <2> QED BY <2>1, <2>2 DEF Rounded
<1>2. CASE c < 0
  <2>1. a < 0 /\ -c <= -a
    BY <1>2
  <2>2. -c \in Nat /\ -a \in Nat
    BY <1>2, <2>1
  <2>3. Nearest(-c, b) <= Nearest(-a, b)
    BY <2>1, <2>2, NearestMonotone
  <2> QED BY <1>1, <1>2, <2>1, <2>3
<1>3. CASE ~(c < 0) /\ a < 0
  BY <1>1, <1>3
<1>4. CASE ~(c < 0) /\ ~(a < 0)
  <2>1. a \in Nat /\ c \in Nat
    BY <1>4
  <2>2. Nearest(a, b) <= Nearest(c, b)
    BY <2>1, NearestMonotone
  <2> QED BY <1>1, <1>4, <2>2
<1> QED BY <1>2, <1>3, <1>4

LEMMA RoundedExact ==
  ASSUME NEW k \in Int, NEW b \in Nat \ {0}, IsDouble(k)
  PROVE  Rounded(k * b, b) = k
<1>1. Magnitude(k) % Spacing(Magnitude(k), 1) = 0
  BY DEF IsDouble, Ulp
<1>2. CASE k < 0
  <2> DEFINE n == -k
  <2>1. n \in Nat /\ n % Spacing(n, 1) = 0
    BY <1>1, <1>2, MagnitudeFacts
  <2>2. k * b < 0 /\ -(k * b) = n * b
    BY <1>2
  <2> HIDE DEF n
  <2>3. n * b \in Nat /\ Nearest(n * b, b) = n
    BY <2>1, NearestExact
  <2>4. Rounded(k * b, b) = -n
    BY <2>2, <2>3 DEF Rounded
  <2> QED BY <2>4 DEF n
<1>3. CASE ~(k < 0)
  <2>1. k \in Nat /\ k % Spacing(k, 1) = 0
    BY <1>1, <1>3, MagnitudeFacts
  <2>2. k * b \in Nat /\ Nearest(k * b, b) = k
    BY <2>1, NearestExact
  <2>3. ~(k * b < 0)
    BY <2>2
  <2> QED BY <2>2, <2>3 DEF Rounded
<1> QED BY <1>2, <1>3

LEMMA RoundedDouble ==
  ASSUME NEW a \in Int, NEW b \in Nat \ {0}
  PROVE  Rounded(a, b) \in Int /\ IsDouble(Rounded(a, b))
<1> DEFINE n == IF a < 0 THEN -a ELSE a
           x == Nearest(n, b)
<1>1. n \in Nat
  OBVIOUS
<1>2. x \in Nat /\ x % Spacing(x, 1) = 0
  <2> HIDE DEF n
  <2>1. n <= n
    BY <1>1
  <2> QED BY <1>1, <2>1, NearestDouble, NearestMonotone
<1>3. Rounded(a, b) = x \/ Rounded(a, b) = -x
  BY DEF Rounded
<1> HIDE DEF x
<1>4. Rounded(a, b) \in Int /\ Magnitude(Rounded(a, b)) = x
  BY <1>2, <1>3 DEF Magnitude
<1> QED BY <1>2, <1>4 DEF IsDouble, Ulp

(* A whole number is rounded by half of its unit at most; a half of it by  *)
(* half of its own.                                                        *)
LEMMA RoundedError ==
  ASSUME NEW a \in Int, NEW b \in Nat \ {0}
  PROVE  /\ Spacing(Magnitude(a), b) \in Nat
         /\ 2 * (b * Rounded(a, b)) <= 2 * a + b * Spacing(Magnitude(a), b)
         /\ 2 * a <= 2 * (b * Rounded(a, b)) + b * Spacing(Magnitude(a), b)
<1> DEFINE n == Magnitude(a)
           x == Nearest(n, b)
           u == Spacing(n, b)
<1>1. n \in Nat
  BY MagnitudeFacts
<1>2. u \in Nat
  <2> HIDE DEF n
  <2> QED BY <1>1, SpacingGrows
<1>3. x \in Nat /\ 2 * (b * x) <= 2 * n + b * u /\ 2 * n <= 2 * (b * x) + b * u
  <2> HIDE DEF n
  <2>1. PICK Q \in Nat : /\ x = Q * u /\ 2 * n <= 2 * (b * (Q * u)) + b * u
                         /\ 2 * (b * (Q * u)) <= 2 * n + b * u
    BY <1>1, NearestFacts
  <2> HIDE DEF x, u
  <2>2. x \in Nat
    BY <1>2, <2>1
  <2> QED BY <2>1, <2>2
<1>4. CASE a < 0
  <2>1. n = -a /\ Rounded(a, b) = -x
    BY <1>4, MagnitudeFacts DEF Rounded
  <2> DEFINE y == b * x
             w == b * u
  <2>2. b * Rounded(a, b) = -y
    <3> HIDE DEF x
    <3> QED BY <1>3, <2>1
  <2>3. y \in Nat /\ w \in Nat
    <3> HIDE DEF x, u
    <3> QED BY <1>2, <1>3
  <2>4. 2 * y <= 2 * n + w /\ 2 * n <= 2 * y + w
    BY <1>3
  <2>5. 2 * (b * Rounded(a, b)) <= 2 * a + w /\ 2 * a <= 2 * (b * Rounded(a, b)) + w
    <3> HIDE DEF y, w, n, x, u
    <3> QED BY <2>1, <2>2, <2>3, <2>4
  <2> QED BY <1>2, <2>5
<1>5. CASE ~(a < 0)
  <2>1. n = a /\ Rounded(a, b) = x
    BY <1>5, MagnitudeFacts DEF Rounded
  <2> QED BY <1>2, <1>3, <2>1
<1> QED BY <1>4, <1>5

(* A power of two is a double.                                             *)
LEMMA PowerDoubles ==
  ASSUME NEW n \in Nat
  PROVE  TwoTo[n] \in Nat /\ IsDouble(TwoTo[n])
<1> DEFINE x == TwoTo[n]
           g == Exponent(x, 1)
<1>1. x \in Nat
  BY PowerFacts
<1>2. g \in Nat /\ \A d \in Nat : x < 1 * TwoTo[d + Mantissa] => g <= d
  <2> HIDE DEF x
  <2> QED BY <1>1, ExponentFacts
<1>3. g <= n
  <2>1. TwoTo[n + Mantissa] = TwoTo[n] * TwoTo[Mantissa] /\ TwoTo[Mantissa] >= 2 /\ x >= 1
        /\ TwoTo[Mantissa] \in Nat
    BY MantissaFacts
  <2>2. x * 2 <= x * TwoTo[Mantissa]
    <3> HIDE DEF x
    <3> QED BY <1>1, <2>1, ProductGrows
  <2>3. x < 1 * TwoTo[n + Mantissa]
    <3>1. TwoTo[n + Mantissa] \in Nat
      BY <2>1, <1>1
    <3> QED BY <1>1, <2>1, <2>2, <3>1
  <2> QED BY <1>2, <2>3
<1>4. PICK k \in Nat : x = k * TwoTo[g]
  BY <1>2, <1>3, PowersDivide
<1>5. TwoTo[g] \in Nat \ {0}
  BY <1>2, MantissaFacts
<1>6. Magnitude(x) = x
  <2>1. ~(x < 0)
    BY <1>1
  <2> HIDE DEF x
  <2> QED BY <2>1 DEF Magnitude
<1>7. Spacing(x, 1) = TwoTo[g]
  BY DEF Spacing
<1> HIDE DEF x, g
<1>8. x % Spacing(x, 1) = 0
  BY <1>4, <1>5, <1>7, Multiples
<1>9. IsDouble(x)
  BY <1>6, <1>8 DEF IsDouble, Ulp
<1> QED BY <1>1, <1>9 DEF x

LEMMA SmallDoubles ==
  IsDouble(0) /\ IsDouble(One) /\ One \in Nat \ {0} /\ IsDouble(1)
<1>1. One \in Nat \ {0} /\ Fraction \in Nat /\ Mantissa \in Nat
  BY MantissaFacts DEF One
<1>2. \A n \in Nat : TwoTo[n] \in Nat /\ IsDouble(TwoTo[n])
  BY PowerDoubles
<1>3. IsDouble(0)
  <2>1. Magnitude(0) = 0
    BY DEF Magnitude
  <2>2. Spacing(0, 1) \in Nat \ {0}
    <3>1. Spacing(0, 1) \in Nat /\ Spacing(0, 1) >= 1
      BY SpacingGrows
    <3> QED BY <3>1
  <2>3. 0 * Spacing(0, 1) = 0
    BY <2>2
  <2>4. 0 % Spacing(0, 1) = 0
    BY <2>2, <2>3, Multiples
  <2> QED BY <2>1, <2>4 DEF IsDouble, Ulp
<1>4. IsDouble(One)
  BY <1>1, <1>2 DEF One
<1>5. IsDouble(1)
  <2>1. TwoTo[0] = 1
    BY PowerFacts
  <2> QED BY <1>2, <2>1
<1> QED BY <1>1, <1>3, <1>4, <1>5

(* Half of a double: exact, but for a unit of the smallest ones.           *)
LEMMA Halves ==
  ASSUME NEW k \in Int, IsDouble(k)
  PROVE  /\ Rounded(k, 2) \in Int /\ 2 * Rounded(k, 2) <= k + 1 /\ k <= 2 * Rounded(k, 2) + 1
         /\ Ulp(k) >= 2 => 2 * Rounded(k, 2) = k
<1> DEFINE n == Magnitude(k)
           e == Exponent(n, 1)
           f == Exponent(n, 2)
           u == Spacing(n, 1)
           v == Spacing(n, 2)
           x == Nearest(n, 2)
<1>1. n \in Nat /\ (k < 0 => k = -n) /\ (~(k < 0) => k = n)
  BY MagnitudeFacts
<1>2. n % u = 0 /\ Ulp(k) = u
  BY DEF IsDouble, Ulp
<1>3. Rounded(k, 2) = IF k < 0 THEN -x ELSE x
  BY <1>1 DEF Rounded, Magnitude
<1> HIDE DEF n
<1>4. PICK Q \in Nat : /\ x = Q * v /\ 2 * n <= 2 * (2 * (Q * v)) + 2 * v
                       /\ 2 * (2 * (Q * v)) <= 2 * n + 2 * v
  <2>1. 2 \in Nat \ {0}
    OBVIOUS
  <2>2. \E Q \in Nat : /\ Nearest(n, 2) = Q * Spacing(n, 2)
                       /\ 2 * n <= 2 * (2 * (Q * Spacing(n, 2))) + 2 * Spacing(n, 2)
                       /\ 2 * (2 * (Q * Spacing(n, 2))) <= 2 * n + 2 * Spacing(n, 2)
                       /\ Q <= TwoTo[Mantissa]
                       /\ Exponent(n, 2) > 0 => Q >= TwoTo[Mantissa - 1]
    BY <1>1, <2>1, NearestFacts, Zenon
  <2> QED BY <2>2
<1>5. e \in Nat /\ n < 1 * TwoTo[e + Mantissa] /\ u = TwoTo[e] /\ u \in Nat /\ u >= 1
  BY <1>1, ExponentFacts, SpacingGrows DEF Spacing
<1>6. f \in Nat /\ v = TwoTo[f] /\ v \in Nat /\ v >= 1
      /\ \A d \in Nat : n < 2 * TwoTo[d + Mantissa] => f <= d
  BY <1>1, ExponentFacts, SpacingGrows DEF Spacing
<1> HIDE DEF e, f, u, v, x
<1>7. x \in Nat /\ 2 * x <= n + v /\ n <= 2 * x + v
  <2>1. x \in Nat
    BY <1>4, <1>6
  <2> QED BY <1>1, <1>4, <1>6, <2>1
<1>8. CASE e = 0
  <2>1. n < 2 * TwoTo[0 + Mantissa]
    <3>1. Mantissa \in Nat /\ 0 + Mantissa = Mantissa /\ TwoTo[Mantissa] \in Nat
      BY MantissaFacts
    <3> QED BY <1>1, <1>5, <1>8, <3>1
  <2>2. f = 0
    BY <1>6, <2>1
  <2>3. u = 1 /\ v = 1
    BY <1>5, <1>6, <1>8, <2>2, PowerFacts
  <2> QED BY <1>1, <1>2, <1>3, <1>7, <2>3
<1>9. CASE e > 0
  <2>1. e - 1 \in Nat /\ (e - 1) + Mantissa \in Nat /\ e + Mantissa = ((e - 1) + Mantissa) + 1
    BY <1>5, <1>9, MantissaFacts
  <2>2. TwoTo[e + Mantissa] = 2 * TwoTo[(e - 1) + Mantissa] /\ TwoTo[(e - 1) + Mantissa] \in Nat
    BY <2>1, PowerFacts
  <2>3. n < 2 * TwoTo[(e - 1) + Mantissa]
    BY <1>1, <1>5, <2>2
  <2>4. f <= e - 1
    BY <1>6, <2>1, <2>3
  <2>5. PICK j \in Nat : TwoTo[e - 1] = j * v
    BY <1>6, <2>1, <2>4, PowersDivide
  <2>6. u = 2 * (j * v)
    <3>1. (e - 1) + 1 = e
      BY <1>5
    <3>2. TwoTo[e] = 2 * TwoTo[e - 1]
      BY <2>1, <3>1, PowerFacts
    <3> QED BY <1>5, <2>5, <3>2
  <2>7. PICK i \in Nat : n = u * i
    <3>1. u \in Nat \ {0}
      BY <1>5
    <3>2. n \div u \in Nat /\ n = u * (n \div u) + (n % u)
      BY <1>1, <3>1, Quotients
    <3> DEFINE m == n \div u
    <3>3. m \in Nat /\ n = u * m + 0
      BY <1>2, <3>2
    <3> HIDE DEF m
    <3> QED BY <1>5, <3>3
  <2>8. n = 2 * (v * (j * i)) /\ j * i \in Nat
    BY <1>6, <2>6, <2>7
  <2> DEFINE m == j * i
  <2>9. m \in Nat /\ n = 2 * (v * m)
    BY <2>8
  <2> HIDE DEF m
  <2>10. x = v * Q
    BY <1>4, <1>6
  <2>11. (m > Q => v * m >= v * Q + v) /\ (Q > m => v * Q >= v * m + v)
    <3>1. m >= Q + 1 => v * (Q + 1) <= v * m
      BY <1>6, <2>9, ProductGrows
    <3>2. Q >= m + 1 => v * (m + 1) <= v * Q
      BY <1>6, <2>9, ProductGrows
    <3> QED BY <1>6, <2>9, <3>1, <3>2
  <2>12. m = Q
    <3> DEFINE y == v * m
               z == v * Q
    <3>1. y \in Nat /\ z \in Nat
      BY <1>6, <2>9
    <3>2. 2 * z <= 2 * y + v /\ 2 * y <= 2 * z + v /\ (m > Q => y >= z + v) /\ (Q > m => z >= y + v)
      BY <1>7, <2>9, <2>10, <2>11
    <3> HIDE DEF y, z
    <3> QED BY <1>6, <2>9, <3>1, <3>2
  <2>13. 2 * x = n
    BY <2>9, <2>10, <2>12
  <2> QED BY <1>1, <1>3, <1>7, <2>13
<1> QED BY <1>5, <1>8, <1>9

(* The units of a number that is not zero are not greater than it, and     *)
(* those of the larger bound of a range that is split are far smaller.     *)
LEMMA UlpFacts ==
  ASSUME NEW n \in Nat, n >= 1
  PROVE  /\ Spacing(n, 1) \in Nat /\ Spacing(n, 1) >= 1 /\ Spacing(n, 1) <= n
         /\ n >= TwoTo[Mantissa + 1] => 4 <= Spacing(n, 1) /\ 4 * Spacing(n, 1) <= n
<1> DEFINE e == Exponent(n, 1)
           u == Spacing(n, 1)
           H == TwoTo[Mantissa - 1]
<1>1. e \in Nat /\ u = TwoTo[e] /\ u \in Nat /\ u >= 1 /\ n < 1 * TwoTo[e + Mantissa]
      /\ (e > 0 => n >= 1 * TwoTo[e - 1 + Mantissa])
  BY ExponentFacts, SpacingGrows DEF Spacing
<1>2. e > 0 => TwoTo[e - 1 + Mantissa] = u * H
  BY <1>1, MantissaFacts
<1>3. H \in Nat /\ H >= 4
  <2>1. Mantissa - 1 \in Nat /\ Mantissa - 1 >= 2
    BY MantissaFacts, LargestAssumption
  <2>2. TwoTo[2] = 4
    <3>1. 0 + 1 = 1 /\ 1 + 1 = 2
      OBVIOUS
    <3>2. TwoTo[1] = 2 * TwoTo[0] /\ TwoTo[2] = 2 * TwoTo[1] /\ TwoTo[0] = 1
      BY <3>1, PowerFacts
    <3> QED BY <3>2
  <2>3. H \in Nat /\ TwoTo[2] <= H
    BY <2>1, PowerFacts, PowersGrow
  <2> QED BY <2>2, <2>3
<1> HIDE DEF e, u, H
<1>4. e > 0 => n >= u * H /\ u * 4 <= u * H /\ u * H \in Nat
  <2>1. u * 4 <= u * H /\ u * H \in Nat
    BY <1>1, <1>3, ProductGrows
  <2>2. e > 0 => n >= 1 * (u * H)
    BY <1>1, <1>2
  <2> DEFINE w == u * H
  <2>3. w \in Nat /\ (e > 0 => n >= 1 * w)
    BY <2>1, <2>2
  <2>4. e > 0 => n >= w
    <3> HIDE DEF w
    <3> QED BY <2>3
  <2> QED BY <2>1, <2>4
<1>5. e > 0 => 4 * u <= n
  <2> DEFINE w == u * H
  <2>1. e > 0 => n >= w /\ u * 4 <= w /\ w \in Nat
    BY <1>4
  <2> HIDE DEF w
  <2> QED BY <1>1, <2>1
<1>6. e = 0 => u = 1
  BY <1>1, PowerFacts
<1>7. n >= TwoTo[Mantissa + 1] => e >= 2 /\ 4 <= u
  <2> SUFFICES ASSUME n >= TwoTo[Mantissa + 1] PROVE e >= 2 /\ 4 <= u
    OBVIOUS
  <2>1. Mantissa \in Nat /\ Mantissa + 1 \in Nat /\ e + Mantissa \in Nat
        /\ TwoTo[Mantissa + 1] \in Nat /\ TwoTo[e + Mantissa] \in Nat
    <3>1. Mantissa \in Nat
      BY MantissaFacts
    <3>2. Mantissa + 1 \in Nat /\ e + Mantissa \in Nat
      BY <1>1, <3>1
    <3> QED BY <3>1, <3>2, PowerFacts
  <2>2. e >= 2
    <3> SUFFICES ASSUME e < 2 PROVE FALSE
      BY <1>1
    <3>1. e + Mantissa <= Mantissa + 1
      BY <1>1, <2>1
    <3>2. TwoTo[e + Mantissa] <= TwoTo[Mantissa + 1]
      BY <2>1, <3>1, PowersGrow
    <3> QED BY <1>1, <2>1, <3>2
  <2>3. TwoTo[2] = 4
    <3>1. 0 + 1 = 1 /\ 1 + 1 = 2
      OBVIOUS
    <3>2. TwoTo[1] = 2 * TwoTo[0] /\ TwoTo[2] = 2 * TwoTo[1] /\ TwoTo[0] = 1
      BY <3>1, PowerFacts
    <3> QED BY <3>2
  <2>4. TwoTo[2] <= TwoTo[e]
    BY <1>1, <2>2, PowersGrow
  <2> QED BY <1>1, <2>2, <2>3, <2>4
<1>8. u <= n
  BY <1>1, <1>5, <1>6
<1> QED BY <1>1, <1>5, <1>7, <1>8 DEF u

(* What rounding adds to a whole number no larger than twice another, or   *)
(* no larger than it, in units of the other.                               *)
LEMMA AddedUnits ==
  ASSUME NEW x \in Int, NEW L \in Nat
  PROVE  /\ x <= 2 * L /\ -x <= 2 * L => Rounded(x, 1) <= x + Spacing(L, 1)
         /\ x <= L /\ -x <= L => 2 * Rounded(x, 1) <= 2 * x + Spacing(L, 1)
<1> DEFINE n == Magnitude(x)
           s == Spacing(n, 1)
           u == Spacing(L, 1)
           y == Rounded(x, 1)
<1>1. n \in Nat /\ (x <= 2 * L /\ -x <= 2 * L => n <= 2 * L) /\ (x <= L /\ -x <= L => n <= L)
  BY MagnitudeFacts
<1>2. y \in Int /\ 2 * y <= 2 * x + s /\ s \in Nat
  <2>1. y \in Int
    BY RoundedDouble
  <2>2. 2 * (1 * y) <= 2 * x + 1 * s /\ s \in Nat
    BY RoundedError
  <2> HIDE DEF y, s
  <2> QED BY <2>1, <2>2
<1> HIDE DEF n
<1>3. u \in Nat /\ (n <= L => s <= u) /\ (n <= 2 * L => s <= 2 * u)
  BY <1>1, SpacingGrows
<1> HIDE DEF s, u, y
<1>4. x <= 2 * L /\ -x <= 2 * L => y <= x + u
  BY <1>1, <1>2, <1>3
<1>5. x <= L /\ -x <= L => 2 * y <= 2 * x + u
  BY <1>1, <1>2, <1>3
<1> QED BY <1>4, <1>5 DEF u, y

LEMMA LargerFacts ==
  ASSUME NEW min \in Int, NEW max \in Int, min < max, IsDouble(min), IsDouble(max),
         NEW L, L = Larger(Magnitude(min), Magnitude(max))
  PROVE  /\ L \in Nat /\ L >= 1 /\ max <= L /\ -max <= L /\ min <= L /\ -min <= L
         /\ Magnitude(L) = L /\ IsDouble(L) /\ IsDouble(-L)
<1>1. /\ Magnitude(min) \in Nat /\ (min < 0 => Magnitude(min) = -min) /\ (~(min < 0) => Magnitude(min) = min)
      /\ Magnitude(max) \in Nat /\ (max < 0 => Magnitude(max) = -max) /\ (~(max < 0) => Magnitude(max) = max)
  BY MagnitudeFacts
<1>2. L \in Nat /\ L >= Magnitude(min) /\ L >= Magnitude(max) /\ (L = Magnitude(min) \/ L = Magnitude(max))
  BY <1>1 DEF Larger
<1>3. L >= 1 /\ max <= L /\ -max <= L /\ min <= L /\ -min <= L
  BY <1>1, <1>2
<1>4. Magnitude(L) = L /\ Magnitude(-L) = L
  BY <1>2 DEF Magnitude
<1>5. L % Spacing(L, 1) = 0
  BY <1>2 DEF IsDouble, Ulp
<1> QED BY <1>2, <1>3, <1>4, <1>5 DEF IsDouble, Ulp

LEMMA RoundedSelf ==
  ASSUME NEW k \in Int, IsDouble(k)
  PROVE  Rounded(k, 1) = k
<1>1. k * 1 = k
  OBVIOUS
<1>2. Rounded(k * 1, 1) = k
  BY RoundedExact
<1> QED BY <1>1, <1>2

(* A floating result is no less than min, and no more than RoundingErrors  *)
(* units in the last place of the larger bound greater than max: rounding  *)
(* keeps the order, so that it is between what the probabilities zero and  *)
(* one give, and of the latter the error is the sum of at most five.       *)
LEMMA SpanFacts ==
  ASSUME NEW min \in Int, NEW max \in Int, min < max, IsDouble(min), IsDouble(max),
         NEW n \in {FloatBytes, DoubleBytes}, NEW L, L = Larger(Magnitude(min), Magnitude(max))
  PROVE  /\ Span(min, max, n) \in Nat /\ IsDouble(Span(min, max, n))
         /\ ~Split(min, max, n) => Span(min, max, n) <= max - min + Spacing(L, 1)
         /\ Split(min, max, n) =>
              /\ 4 <= Spacing(L, 1) /\ 4 * Spacing(L, 1) <= L /\ min < 0
              /\ 2 * Span(min, max, n) <= max - min + 2 + Spacing(L, 1)
<1> DEFINE range == Span(min, max, n)
           u == Spacing(L, 1)
<1>1. /\ L \in Nat /\ L >= 1 /\ max <= L /\ -max <= L /\ min <= L /\ -min <= L
      /\ Magnitude(L) = L /\ IsDouble(L) /\ IsDouble(-L)
  BY LargerFacts
<1>2. u \in Nat /\ (L >= TwoTo[Mantissa + 1] => 4 <= u /\ 4 * u <= L)
  BY <1>1, UlpFacts
<1>3. Ulp(L) = u /\ Ulp(-L) = u
  BY <1>1 DEF Ulp, Magnitude
<1> HIDE DEF u
<1>4. Rounded(0, 1) = 0
  BY SmallDoubles, RoundedSelf
<1>5. CASE ~Split(min, max, n)
  <2> DEFINE d == max - min
  <2>1. range = Rounded(d, 1) /\ d \in Int /\ 0 <= d /\ d <= 2 * L /\ -d <= 2 * L
    BY <1>1, <1>5 DEF Span
  <2> HIDE DEF d, range
  <2>2. range <= d + u
    BY <1>1, <2>1, AddedUnits DEF u
  <2>3. range \in Int /\ 0 <= range /\ IsDouble(range)
    BY <1>4, <2>1, RoundedMonotone, RoundedDouble
  <2>4. range \in Nat
    BY <2>3
  <2> QED BY <1>5, <2>2, <2>3, <2>4 DEF d, range, u
<1>6. CASE Split(min, max, n)
  <2> DEFINE A == Rounded(max, 2)
             B == Rounded(min, 2)
             d == A - B
  <2>1. min < 0 /\ max > 0 /\ max > Rounded(min + Largest(n), 1)
    BY <1>6 DEF Split
  <2>2. L >= TwoTo[Mantissa + 1]
    <3> DEFINE p == TwoTo[Mantissa + 1]
               m == Largest(n)
    <3>1. p \in Nat /\ IsDouble(p)
      <4>1. Mantissa + 1 \in Nat
        BY MantissaFacts
      <4> QED BY <4>1, PowerDoubles
    <3>2. m \in Nat /\ m >= 2 * p
      <4>1. Mantissa \in Nat /\ Mantissa + 1 \in Nat /\ (Mantissa + 1) + 1 = Mantissa + 2
        BY MantissaFacts
      <4>2. TwoTo[Mantissa + 2] = 2 * p
        BY <4>1, PowerFacts
      <4>3. MaxFloat \in Nat /\ MaxDouble \in Nat /\ MaxFloat >= TwoTo[Mantissa + 2] /\ MaxDouble >= MaxFloat
        BY LargestAssumption
      <4>4. m = MaxFloat \/ m = MaxDouble
        BY DEF Largest
      <4> HIDE DEF p, m
      <4> QED BY <3>1, <4>2, <4>3, <4>4
    <3> HIDE DEF p, m
    <3> SUFFICES ASSUME L < p PROVE FALSE
      BY <1>1, <3>1 DEF p
    <3>3. min + m \in Int /\ p <= min + m
      BY <1>1, <3>1, <3>2
    <3>4. Rounded(p, 1) <= Rounded(min + m, 1) /\ Rounded(min + m, 1) \in Int
      BY <3>1, <3>3, RoundedMonotone
    <3>5. Rounded(p, 1) = p
      BY <3>1, RoundedSelf
    <3>6. max > Rounded(min + m, 1)
      BY <2>1 DEF m
    <3> QED BY <1>1, <3>1, <3>4, <3>5, <3>6
  <2>3. 4 <= u /\ 4 * u <= L
    BY <1>2, <2>2
  <2>4. /\ A \in Int /\ 2 * A <= max + 1 /\ B \in Int /\ min <= 2 * B + 1
    BY Halves
  <2>5. 2 * Rounded(L, 2) = L /\ 2 * Rounded(-L, 2) = -L
    <3>1. L \in Int /\ -L \in Int /\ u >= 2
      BY <1>1, <1>2, <2>3
    <3> QED BY <1>1, <1>3, <3>1, Halves
  <2>6. A <= Rounded(L, 2) /\ Rounded(-L, 2) <= B /\ B <= A
        /\ Rounded(L, 2) \in Int /\ Rounded(-L, 2) \in Int
    <3>1. -L \in Int /\ L \in Int /\ -L <= min /\ min <= max /\ 2 \in Nat \ {0}
      BY <1>1
    <3> QED BY <1>1, <3>1, RoundedMonotone
  <2>7. range = Rounded(d, 1)
    BY <1>6 DEF Span
  <2> HIDE DEF A, B, range
  <2>8. d \in Int /\ 0 <= d /\ d <= L /\ -d <= L /\ 2 * d <= max - min + 2
    BY <1>1, <2>4, <2>5, <2>6
  <2> HIDE DEF d
  <2>9. 2 * range <= 2 * d + u
    BY <1>1, <2>7, <2>8, AddedUnits DEF u
  <2>10. range \in Int /\ 0 <= range /\ IsDouble(range)
    BY <1>4, <2>7, <2>8, RoundedMonotone, RoundedDouble
  <2>11. 2 * range <= max - min + 2 + u
    BY <1>2, <2>8, <2>9, <2>10
  <2> QED BY <1>6, <2>1, <2>3, <2>10, <2>11 DEF range, u
<1> QED BY <1>5, <1>6

LEMMA FloatingBounds ==
  ASSUME NEW min \in Int, NEW max \in Int, min < max, IsDouble(min), IsDouble(max),
         NEW n \in {FloatBytes, DoubleBytes}, NEW upper \in {0, 1}, upper = 1 => Split(min, max, n),
         NEW prob \in 0..One, NEW start, NEW out,
         start = IF upper = 1 THEN Rounded(min + Span(min, max, n), 1) ELSE min,
         out = Rounded(start + Rounded(Span(min, max, n) * prob, One), 1)
  PROVE  /\ out \in Int
         /\ min <= out /\ out <= max + 3 * Ulp(Larger(Magnitude(min), Magnitude(max)))
<1> DEFINE range == Span(min, max, n)
           L == Larger(Magnitude(min), Magnitude(max))
           u == Spacing(L, 1)
           add == Rounded(range * prob, One)
           top == Rounded(start + range, 1)
<1>1. /\ L \in Nat /\ L >= 1 /\ max <= L /\ -max <= L /\ min <= L /\ -min <= L /\ Magnitude(L) = L
  BY LargerFacts
<1>2. u \in Nat /\ u <= L /\ Ulp(L) = u
  <2> HIDE DEF L
  <2> QED BY <1>1, UlpFacts DEF Ulp
<1>3. /\ range \in Nat /\ IsDouble(range)
      /\ ~Split(min, max, n) => range <= max - min + u
      /\ Split(min, max, n) => 4 <= u /\ 4 * u <= L /\ min < 0 /\ 2 * range <= max - min + 2 + u
  BY SpanFacts
<1> HIDE DEF range
<1>4. add \in Int /\ 0 <= add /\ add <= range
  <2>1. One \in Nat \ {0} /\ IsDouble(0)
    BY SmallDoubles
  <2>2. range * prob \in Nat /\ range * prob <= range * One
    BY <1>3, <2>1, ProductGrows
  <2>3. Rounded(range * One, One) = range
    BY <1>3, <2>1, RoundedExact
  <2>4. 0 * One = 0 /\ Rounded(0 * One, One) = 0
    BY <2>1, RoundedExact
  <2>5. range * One \in Int
    BY <1>3, <2>1
  <2> DEFINE x == range * prob
             y == range * One
  <2>6. x \in Int /\ y \in Int /\ 0 <= x /\ x <= y
    BY <2>2, <2>5
  <2>7. Rounded(x, One) \in Int /\ Rounded(0, One) <= Rounded(x, One) /\ Rounded(x, One) <= Rounded(y, One)
    <3> HIDE DEF x, y
    <3>1. Rounded(0, One) <= Rounded(x, One)
      BY <2>1, <2>6, RoundedMonotone
    <3>2. Rounded(x, One) \in Int /\ Rounded(x, One) <= Rounded(y, One)
      BY <2>1, <2>6, RoundedMonotone
    <3> QED BY <3>1, <3>2
  <2> QED BY <1>3, <2>3, <2>4, <2>7
<1> HIDE DEF add
<1>5. start \in Int /\ IsDouble(start) /\ min <= start
  <2>1. CASE upper = 1
    <3>1. min + range \in Int /\ min <= min + range
      BY <1>3
    <3>2. start = Rounded(min + range, 1)
      BY <2>1 DEF range
    <3>3. Rounded(min, 1) <= start
      BY <3>1, <3>2, RoundedMonotone
    <3>4. Rounded(min, 1) = min
      BY RoundedSelf
    <3> QED BY <3>1, <3>2, <3>3, <3>4, RoundedDouble
  <2>2. CASE upper # 1
    BY <2>2
  <2> QED BY <2>1, <2>2
<1>6. out \in Int /\ top \in Int /\ start <= out /\ out <= top
  <2>1. start <= start + add /\ start + add <= start + range /\ start + add \in Int /\ start + range \in Int
    BY <1>3, <1>4, <1>5
  <2>2. out = Rounded(start + add, 1)
    BY DEF add, range
  <2>3. Rounded(start, 1) = start
    BY <1>5, RoundedSelf
  <2> QED BY <1>5, <2>1, <2>2, <2>3, RoundedMonotone
<1>7. /\ \A x \in Int : /\ x <= 2 * L /\ -x <= 2 * L => Rounded(x, 1) <= x + u
                        /\ x <= L /\ -x <= L => 2 * Rounded(x, 1) <= 2 * x + u
  <2> HIDE DEF L
  <2> QED BY <1>1, AddedUnits
<1>8. top <= max + 3 * u
  <2> DEFINE x == start + range
  <2>1. x \in Int /\ -x <= 2 * L /\ (x <= 2 * L => top <= x + u)
    <3>1. x \in Int /\ -x <= 2 * L
      BY <1>1, <1>3, <1>5
    <3> QED BY <1>7, <3>1
  <2>2. CASE ~Split(min, max, n)
    <3>1. start = min /\ range <= max - min + u
      BY <1>3, <2>2
    <3>2. x <= max + u
      BY <1>2, <1>3, <1>5, <3>1
    <3>3. x <= 2 * L
      BY <1>1, <1>2, <2>1, <3>2
    <3> HIDE DEF x, top, L, u
    <3> QED BY <1>2, <1>6, <2>1, <3>2, <3>3
  <2>3. CASE Split(min, max, n) /\ upper # 1
    <3>1. start = min /\ 4 <= u /\ 4 * u <= L /\ 2 * range <= max - min + 2 + u
      BY <1>3, <2>3
    <3>2. 2 * x <= 2 * max + 2 + u
      BY <1>2, <1>3, <1>5, <3>1
    <3>3. x <= 2 * L
      BY <1>1, <1>2, <2>1, <3>1, <3>2
    <3> HIDE DEF x, top, L, u
    <3> QED BY <1>2, <1>6, <2>1, <3>1, <3>2, <3>3
  <2>4. CASE Split(min, max, n) /\ upper = 1
    <3> DEFINE y == min + range
    <3>1. 4 <= u /\ 4 * u <= L /\ min < 0 /\ 2 * range <= max - min + 2 + u
      BY <1>3, <2>4
    <3>2. y \in Int /\ -y <= L /\ 2 * y <= max + min + 2 + u
      BY <1>1, <1>2, <1>3, <3>1
    <3>3. y <= L
      BY <1>1, <1>2, <3>1, <3>2
    <3>4. start = Rounded(y, 1)
      BY <2>4 DEF range
    <3>5. 2 * start <= 2 * y + u
      <4> HIDE DEF y
      <4> QED BY <1>7, <3>2, <3>3, <3>4
    <3>6. 2 * x <= 2 * max + 4 + 3 * u
      BY <1>2, <1>3, <1>5, <3>1, <3>5
    <3>7. x <= 2 * L
      BY <1>1, <1>2, <2>1, <3>1, <3>6
    <3> HIDE DEF x, top, L, u
    <3> QED BY <1>2, <1>6, <2>1, <3>1, <3>6, <3>7
  <2> QED BY <2>2, <2>3, <2>4
<1>9. out <= max + 3 * Ulp(L)
  <2> HIDE DEF top, L, u
  <2> QED BY <1>2, <1>6, <1>8
<1>10. min <= out
  <2> HIDE DEF top
  <2> QED BY <1>5, <1>6
<1> QED BY <1>6, <1>9, <1>10

-----------------------------------------------------------------------------
(* Floating results.                                                       *)

LEMMA BitFacts ==
  ASSUME NEW p \in Providers
  PROVE  ConsumeBoolean(p).out[1] \in {0, 1}
<1> DEFINE r == IntegralLEorBE(p, 1, FALSE, TRUE)
<1>1. 1 \in Int /\ 1 \in 0..MaxBytes
  BY SizeFacts
<1>2. r \in UsedUp(p) /\ ~r.threw /\ Yields(r, Lowest(1, FALSE), Lowest(1, FALSE) + ValuesOf(1) - 1)
  BY <1>1, IntegralFacts
<1>3. ConsumeBoolean(p) = Booleans(r)
  BY DEF ConsumeBoolean, ConsumeIntegral
<1> HIDE DEF r
<1>4. Len(r.out) = 1 /\ r.out \in Seq(Int)
  BY <1>2, FieldFacts DEF Yields
<1>5. DOMAIN r.out = 1..1 /\ r.out[1] \in Int
  BY <1>4
<1>6. r.out[1] % 2 \in {0, 1}
  BY <1>5
<1>7. Booleans(r).out = [i \in DOMAIN r.out |-> r.out[i] % 2]
  <2>1. r = [fdp |-> r.fdp, out |-> r.out, threw |-> r.threw, read |-> r.read]
    BY <1>2, FieldFacts
  <2> QED BY <2>1 DEF Booleans
<1>8. 1 \in DOMAIN r.out
  BY <1>5
<1> QED BY <1>3, <1>6, <1>7, <1>8

LEMMA ProbabilityFacts ==
  ASSUME NEW p \in Providers, NEW n \in {FloatBytes, DoubleBytes}, NEW r, r = Probability(p, n)
  PROVE  r \in UsedUp(p) /\ ~r.threw /\ r.out[1] \in 0..One
<1> DEFINE whole == IF n = FloatBytes THEN ConsumeIntegral(p, n, FALSE) ELSE ConsumeBigIntegral(p, n, FALSE)
           top == ValuesOf(n) - 1
           k == whole.out[1]
           a == Rounded(k, 1)
           b == Rounded(top, 1)
<1>1. n \in Nat /\ n \in Int /\ FALSE \in BOOLEAN /\ (n = FloatBytes => n \in 0..MaxBytes) /\ n >= 1
  BY SizeFacts
<1>2. Lowest(n, FALSE) = 0 /\ HighestBig(n, FALSE) = top /\ ValuesOf(n) \in Nat /\ top \in Nat /\ top >= 1
  <2>1. ValuesOf(n) \in Nat /\ ValuesOf(n) > n
    BY <1>1, ValuesFacts
  <2> QED BY <1>1, <2>1 DEF Lowest, HighestBig
<1>3. whole \in UsedUp(p) /\ ~whole.threw /\ k \in 0..top
  <2>1. CASE n = FloatBytes
    <3>1. whole = IntegralLEorBE(p, n, FALSE, TRUE)
      BY <2>1 DEF ConsumeIntegral
    <3> HIDE DEF whole
    <3>2. whole \in UsedUp(p) /\ ~whole.threw /\ Yields(whole, Lowest(n, FALSE), Lowest(n, FALSE) + ValuesOf(n) - 1)
      BY <1>1, <2>1, <3>1, IntegralFacts
    <3>3. 0 + ValuesOf(n) - 1 = top
      BY <1>2
    <3> HIDE DEF top
    <3> QED BY <1>2, <3>2, <3>3 DEF Yields
  <2>2. CASE n # FloatBytes
    <3>1. whole = BigIntegralLEorBE(p, n, FALSE, TRUE)
      BY <2>2 DEF ConsumeBigIntegral
    <3> HIDE DEF whole
    <3>2. whole \in UsedUp(p) /\ ~whole.threw /\ Yields(whole, Lowest(n, FALSE), HighestBig(n, FALSE))
      BY <1>1, <3>1, BigIntegralFacts
    <3> HIDE DEF top
    <3> QED BY <1>2, <3>2 DEF Yields
  <2> QED BY <2>1, <2>2
<1>4. r = [whole EXCEPT !.out = <<Rounded(a * One, b)>>]
  BY DEF Probability
<1> HIDE DEF whole, top
<1>5. k \in Int /\ 0 <= k /\ k <= top /\ top \in Int /\ top >= 1
  BY <1>2, <1>3
<1> HIDE DEF k
<1>6. a \in Int /\ b \in Int /\ 0 <= a /\ a <= b /\ b >= 1
  <2>1. Rounded(0, 1) = 0 /\ Rounded(1, 1) = 1
    BY SmallDoubles, RoundedSelf
  <2>2. a \in Int /\ b \in Int /\ a <= b /\ Rounded(0, 1) <= a
    BY <1>5, RoundedMonotone
  <2>3. Rounded(1, 1) <= b
    BY <1>5, RoundedMonotone
  <2> QED BY <2>1, <2>2, <2>3
<1> HIDE DEF a, b
<1>7. Rounded(a * One, b) \in 0..One
  <2>1. One \in Nat \ {0} /\ IsDouble(0) /\ IsDouble(One) /\ b \in Nat \ {0} /\ a \in Nat /\ b \in Nat
    BY <1>6, SmallDoubles
  <2> DEFINE x == a * One
             y == One * b
  <2>2. x \in Nat /\ y \in Nat /\ x <= y
    <3>1. One * a <= One * b /\ One * a \in Nat /\ One * b \in Nat /\ a * One = One * a
      BY <1>6, <2>1, ProductGrows
    <3> QED BY <3>1
  <2>3. Rounded(y, b) = One
    BY <2>1, RoundedExact
  <2>4. Rounded(0, b) = 0
    <3>1. 0 * b = 0 /\ Rounded(0 * b, b) = 0
      BY <2>1, RoundedExact
    <3> QED BY <3>1
  <2> HIDE DEF x, y
  <2>5. Rounded(x, b) \in Int /\ Rounded(0, b) <= Rounded(x, b)
    BY <2>1, <2>2, RoundedMonotone
  <2>6. Rounded(x, b) <= Rounded(y, b)
    BY <2>1, <2>2, RoundedMonotone
  <2>7. Rounded(x, b) \in 0..One
    BY <2>1, <2>3, <2>4, <2>5, <2>6
  <2> QED BY <2>7 DEF x
<1> DEFINE v == Rounded(a * One, b)
<1>8. v \in Int /\ v \in 0..One
  BY <1>7, SmallDoubles
<1> HIDE DEF v
<1>9. r = [whole EXCEPT !.out = <<v>>]
  BY <1>4 DEF v
<1>10. <<v>> \in Seq(Int) /\ <<v>>[1] = v
  BY <1>8
<1>11. r \in UsedUp(p) /\ ~r.threw /\ r.out = <<v>>
  <2> DEFINE one == <<v>>
  <2>1. one \in Seq(Int) /\ r = [whole EXCEPT !.out = one]
    BY <1>9, <1>10
  <2> HIDE DEF one
  <2>2. r \in UsedUp(p) /\ r.threw = whole.threw /\ r.out = one
    BY <1>3, <2>1, ReoutFacts
  <2> QED BY <1>3, <2>2 DEF one
<1> QED BY <1>8, <1>10, <1>11

LEMMA FloatingFacts ==
  ASSUME NEW p \in Providers, NEW min \in Int, NEW max \in Int, IsDouble(min), IsDouble(max),
         NEW n \in {FloatBytes, DoubleBytes}, NEW r, r = FloatingInRange(p, min, max, n),
         NEW high, high = max + RoundingErrors * Ulp(Larger(Magnitude(min), Magnitude(max)))
  PROVE  r \in UsedUp(p) /\ (~r.threw => Len(r.out) = 1 /\ r.out[1] \in min..high)
<1> DEFINE upper == IF Split(min, max, n) THEN ConsumeBoolean(p) ELSE Returns(p, 0)
           prob  == Probability(upper.fdp, n)
           range == Span(min, max, n)
           bit   == upper.out[1]
           drawn == prob.out[1]
           start == IF bit = 1 THEN Rounded(min + range, 1) ELSE min
           value == Rounded(start + Rounded(range * drawn, One), 1)
<1>1. RoundingErrors = 3
  BY DEF RoundingErrors
<1>2. CASE min = max
  <2>1. r = Returns(p, min)
    BY <1>2 DEF FloatingInRange
  <2>2. r \in UsedUp(p) /\ r.out = <<min>>
    BY <2>1, ReturnsFacts
  <2>3. Len(r.out) = 1 /\ r.out[1] = min
    BY <2>2
  <2>4. high \in Int /\ min <= high
    <3> DEFINE m == Magnitude(min)
               u == Spacing(m, 1)
    <3>1. m \in Nat
      BY MagnitudeFacts
    <3>2. Larger(m, m) = m /\ Magnitude(m) = m
      <4> HIDE DEF m
      <4> QED BY <3>1 DEF Larger, Magnitude
    <3>3. u \in Nat
      <4> HIDE DEF m
      <4> QED BY <3>1, SpacingGrows
    <3>4. high = max + 3 * u
      BY <1>1, <1>2, <3>2 DEF Ulp
    <3> HIDE DEF u
    <3> QED BY <1>2, <3>3, <3>4
  <2> QED BY <2>2, <2>3, <2>4
<1>3. CASE min > max
  <2>1. r = Throws(p)
    BY <1>3 DEF FloatingInRange
  <2> QED BY <2>1, ThrowsFacts
<1>4. CASE min < max
  <2>1. r = Result(prob.fdp, <<value>>, upper.read \cup prob.read)
    BY <1>4 DEF FloatingInRange
  <2>2. upper \in UsedUp(p) /\ bit \in {0, 1} /\ (bit = 1 => Split(min, max, n))
    <3>1. CASE Split(min, max, n)
      <4>1. upper = ConsumeBoolean(p)
        BY <3>1
      <4> HIDE DEF upper
      <4> QED BY <3>1, <4>1, BooleanFacts, BitFacts
    <3>2. CASE ~Split(min, max, n)
      <4>1. upper = Returns(p, 0)
        BY <3>2
      <4> HIDE DEF upper
      <4>2. upper \in UsedUp(p) /\ upper.out = <<0>>
        BY <4>1, ReturnsFacts
      <4> QED BY <4>2
    <3> QED BY <3>1, <3>2
  <2> HIDE DEF upper
  <2>3. upper.fdp \in Providers
    BY <2>2, FieldFacts
  <2>4. prob \in UsedUp(upper.fdp) /\ drawn \in 0..One
    BY <2>3, ProbabilityFacts
  <2> HIDE DEF prob, bit, drawn
  <2>5. value \in Int /\ min <= value /\ value <= high
    <3>1. start = (IF bit = 1 THEN Rounded(min + Span(min, max, n), 1) ELSE min)
          /\ value = Rounded(start + Rounded(Span(min, max, n) * drawn, One), 1)
      OBVIOUS
    <3> HIDE DEF start, value
    <3>2. /\ value \in Int /\ min <= value
          /\ value <= max + 3 * Ulp(Larger(Magnitude(min), Magnitude(max)))
      BY <1>4, <2>2, <2>4, <3>1, FloatingBounds
    <3> QED BY <1>1, <3>2
  <2> HIDE DEF value
  <2>6. high \in Int
    <3> DEFINE L == Larger(Magnitude(min), Magnitude(max))
               u == Spacing(L, 1)
    <3>1. L \in Nat /\ Magnitude(L) = L
      BY <1>4, LargerFacts
    <3>2. u \in Nat
      <4> HIDE DEF L
      <4> QED BY <3>1, SpacingGrows
    <3>3. high = max + 3 * u
      BY <1>1, <3>1 DEF Ulp
    <3> HIDE DEF u
    <3> QED BY <3>2, <3>3
  <2>7. <<value>> \in Seq(Int)
    BY <2>5
  <2>8. r \in UsedUp(p)
    BY <2>1, <2>2, <2>4, <2>7, BothUsed DEF Result
  <2>9. r.out = <<value>>
    BY <2>1 DEF Result
  <2> QED BY <2>5, <2>6, <2>8, <2>9
<1> QED BY <1>2, <1>3, <1>4

-----------------------------------------------------------------------------
(* Picks.                                                                  *)

LEMMA PickValueFacts ==
  ASSUME NEW p \in Providers, NEW size \in Nat, NEW r, r = PickValue(p, size)
  PROVE  r \in UsedUp(p) /\ (~r.threw => Len(r.out) = 1 /\ r.out[1] \in 0 .. size - 1)
<1>1. CASE size = 0
  <2>1. r = Throws(p)
    BY <1>1 DEF PickValue
  <2> QED BY <2>1, ThrowsFacts
<1>2. CASE size # 0
  <2>1. r = IntegralInRangeLEorBE(p, 0, size - 1, TRUE)
    BY <1>2 DEF PickValue, ConsumeIntegralInRange
  <2>2. 0 \in Int /\ size - 1 \in Int /\ TRUE \in BOOLEAN
    OBVIOUS
  <2>3. r \in UsedUp(p) /\ Yields(r, 0, size - 1)
    BY <2>1, <2>2, RangeFacts
  <2> QED BY <2>3 DEF Yields
<1> QED BY <1>1, <1>2

LEMMA RemovedFacts ==
  ASSUME NEW S, NEW s \in Seq(S), NEW i \in 1..Len(s)
  PROVE  /\ RemoveAt(s, i) \in Seq(S) /\ Len(RemoveAt(s, i)) = Len(s) - 1
         /\ \A j \in 1 .. Len(s) - 1 : RemoveAt(s, i)[j] = s[IF j < i THEN j ELSE j + 1]
<1> DEFINE n == Len(s)
           a == SubSeq(s, 1, i - 1)
           b == SubSeq(s, i + 1, n)
<1>1. n \in Nat /\ i \in Int /\ 1 <= i /\ i <= n /\ \A j \in 1..n : s[j] \in S
  BY LenProperties, ElementOfSeq
<1> HIDE DEF n
<1>2. a \in Seq(S) /\ Len(a) = i - 1 /\ \A j \in 1 .. i - 1 : a[j] = s[j]
  <2>1. \A j \in 1 .. i - 1 : s[j] \in S
    BY <1>1
  <2>2. /\ a \in Seq(S) /\ Len(a) = IF 1 <= i - 1 THEN (i - 1) - 1 + 1 ELSE 0
        /\ \A j \in 1 .. (i - 1) - 1 + 1 : a[j] = s[1 + j - 1]
    BY <1>1, <2>1, SubSeqProperties
  <2>3. (i - 1) - 1 + 1 = i - 1 /\ \A j \in Int : 1 + j - 1 = j
    BY <1>1
  <2> QED BY <1>1, <2>2, <2>3
<1>3. b \in Seq(S) /\ Len(b) = n - i /\ \A j \in 1 .. n - i : b[j] = s[i + j]
  <2>1. \A j \in (i + 1) .. n : s[j] \in S
    BY <1>1
  <2>2. /\ b \in Seq(S) /\ Len(b) = IF i + 1 <= n THEN n - (i + 1) + 1 ELSE 0
        /\ \A j \in 1 .. n - (i + 1) + 1 : b[j] = s[(i + 1) + j - 1]
    BY <1>1, <2>1, SubSeqProperties
  <2>3. n - (i + 1) + 1 = n - i /\ \A j \in Int : (i + 1) + j - 1 = i + j
    BY <1>1
  <2> QED BY <1>1, <2>2, <2>3
<1>4. RemoveAt(s, i) = a \o b
  BY DEF RemoveAt, n
<1> HIDE DEF a, b
<1> DEFINE c == a \o b
<1>5. /\ c \in Seq(S) /\ Len(c) = (i - 1) + (n - i)
      /\ \A j \in 1 .. i - 1 : c[j] = a[j]
      /\ \A j \in 1 .. n - i : c[(i - 1) + j] = b[j]
  <2>1. /\ c \in Seq(S) /\ Len(c) = Len(a) + Len(b)
        /\ \A j \in 1 .. Len(a) : c[j] = a[j]
        /\ \A j \in 1 .. Len(b) : c[Len(a) + j] = b[j]
    <3>1. a \in Seq(S) /\ b \in Seq(S)
      BY <1>2, <1>3
    <3> QED BY <3>1, Concatenated
  <2> HIDE DEF c
  <2> QED BY <1>2, <1>3, <2>1
<1> HIDE DEF c
<1>6. Len(c) = n - 1
  BY <1>1, <1>5
<1>7. ASSUME NEW j \in 1 .. n - 1 PROVE c[j] = s[IF j < i THEN j ELSE j + 1]
  <2>1. CASE j < i
    <3>1. j \in 1 .. i - 1
      BY <1>1, <2>1
    <3> QED BY <1>2, <1>5, <2>1, <3>1
  <2>2. CASE ~(j < i)
    <3>1. j - (i - 1) \in 1 .. n - i /\ (i - 1) + (j - (i - 1)) = j /\ i + (j - (i - 1)) = j + 1
      BY <1>1, <2>2
    <3>2. c[j] = b[j - (i - 1)]
      BY <1>5, <3>1
    <3>3. b[j - (i - 1)] = s[j + 1]
      BY <1>3, <3>1
    <3> QED BY <2>2, <3>2, <3>3
  <2> QED BY <2>1, <2>2
<1> QED BY <1>4, <1>5, <1>6, <1>7 DEF c, n

(* Positions picked so far, and those that are left, none of them twice.   *)
Apart(s, t) == \A i \in 1..Len(s) : \A j \in 1..Len(t) : s[i] # t[j]
Distinct(s) == \A i, j \in 1..Len(s) : i # j => s[i] # s[j]

Chosen(p, size) ==
  {w \in [r : UsedUp(p), rest : Seq(1..size)] :
     ~w.r.threw => /\ w.r.out \in Seq(1..size)
                   /\ Distinct(w.r.out) /\ Distinct(w.rest) /\ Apart(w.r.out, w.rest)}

LEMMA PickFacts ==
  ASSUME NEW p \in Providers, NEW size \in Nat, NEW w \in Chosen(p, size)
  PROVE  /\ Pick(w) \in Chosen(p, size)
         /\ w.r.threw => Pick(w).r.threw
         /\ ~Pick(w).r.threw => Len(Pick(w).r.out) = Len(w.r.out) + 1
<1> DEFINE next == ConsumeIntegralInRange(w.r.fdp, 0, Len(w.rest) - 1)
           shown == [i \in DOMAIN next.out |-> w.rest[next.out[i] + 1]]
           r == [next EXCEPT !.out = shown]
           rest == IF next.threw THEN w.rest ELSE RemoveAt(w.rest, next.out[1] + 1)
           n == Len(w.rest)
           S == 1..size
<1>1. /\ w = [r |-> w.r, rest |-> w.rest] /\ w.r \in UsedUp(p) /\ w.rest \in Seq(S)
      /\ ~w.r.threw => /\ w.r.out \in Seq(S)
                       /\ Distinct(w.r.out) /\ Distinct(w.rest) /\ Apart(w.r.out, w.rest)
  BY DEF Chosen
<1>2. Pick(w) = [r |-> Then(w.r, r), rest |-> rest]
  BY DEF Pick
<1>3. w.r.fdp \in Providers /\ n \in Nat /\ S \subseteq Int
  BY <1>1, FieldFacts
<1>4. next \in UsedUp(w.r.fdp) /\ Yields(next, 0, n - 1)
  <2>1. 0 \in Int /\ n - 1 \in Int /\ TRUE \in BOOLEAN
    BY <1>3
  <2> QED BY <1>3, <2>1, RangeFacts DEF ConsumeIntegralInRange
<1> HIDE DEF next, S, n
<1>5. next.threw \in BOOLEAN
  BY <1>3, <1>4, FieldFacts
<1>6. CASE next.threw
  <2>1. next.out = <<>>
    BY <1>4, <1>6 DEF Yields
  <2>2. shown = <<>>
    BY <2>1
  <2> HIDE DEF shown
  <2>3. shown \in Seq(Int)
    <3>1. <<>> \in Seq(Int)
      OBVIOUS
    <3> QED BY <2>2, <3>1
  <2>4. r \in UsedUp(w.r.fdp) /\ r.threw = next.threw
    BY <1>3, <1>4, <2>3, ReoutFacts
  <2>5. rest = w.rest
    BY <1>6
  <2> HIDE DEF r, rest
  <2> DEFINE t == Then(w.r, r)
  <2>6. t \in UsedUp(p) /\ t.threw = (w.r.threw \/ r.threw)
    BY <1>1, <2>4, ThenFacts
  <2> HIDE DEF t
  <2>7. t.threw
    BY <1>6, <2>4, <2>6, Zenon
  <2>8. Pick(w).r = t /\ Pick(w).rest = w.rest /\ Pick(w) = [r |-> t, rest |-> w.rest]
    BY <1>2, <2>5 DEF t
  <2> HIDE DEF Pick
  <2> QED BY <1>1, <2>6, <2>7, <2>8 DEF Chosen, S
<1>7. CASE ~next.threw
  <2> DEFINE at0 == next.out[1] + 1
             picked == w.rest[at0]
  <2>1. Len(next.out) = 1 /\ next.out[1] \in 0 .. n - 1 /\ next.out \in Seq(Int)
    BY <1>3, <1>4, <1>7, FieldFacts DEF Yields
  <2>2. at0 \in 1..n /\ DOMAIN next.out = 1..1
    BY <1>3, <2>1
  <2>3. picked \in S
    BY <1>1, <2>2, ElementOfSeq DEF n
  <2>4. shown = <<picked>>
    BY <2>2
  <2> HIDE DEF at0, picked, shown
  <2>5. shown \in Seq(Int) /\ shown \in Seq(S) /\ Len(shown) = 1 /\ shown[1] = picked
    <3>1. <<picked>> \in Seq(S)
      BY <2>3
    <3>2. picked \in Int
      BY <1>3, <2>3
    <3> QED BY <2>4, <3>1, <3>2, Singleton
  <2>6. r \in UsedUp(w.r.fdp) /\ r.threw = next.threw /\ r.out = shown
    BY <1>3, <1>4, <2>5, ReoutFacts
  <2>7. rest = RemoveAt(w.rest, at0)
    BY <1>7 DEF at0
  <2> HIDE DEF r, rest
  <2>8. /\ rest \in Seq(S) /\ Len(rest) = n - 1
        /\ \A j \in 1 .. n - 1 : rest[j] = w.rest[IF j < at0 THEN j ELSE j + 1]
    BY <1>1, <2>2, <2>7, RemovedFacts DEF n
  <2> DEFINE t == Then(w.r, r)
  <2>9. /\ t \in UsedUp(p) /\ (w.r.threw => t = w.r)
        /\ ~w.r.threw => t.out = w.r.out \o r.out
        /\ ~w.r.threw => ~t.threw
    <3>1. t \in UsedUp(p)
      BY <1>1, <2>6, ThenFacts
    <3>2. w.r.threw => t = w.r
      BY DEF Then
    <3>3. ~w.r.threw => t.out = w.r.out \o r.out /\ t.threw = r.threw
      BY ThenGoesOn
    <3> HIDE DEF t
    <3>4. ~w.r.threw => ~t.threw
      BY <1>7, <2>6, <3>3, Zenon
    <3> QED BY <3>1, <3>2, <3>3, <3>4
  <2>10. Pick(w).r = t /\ Pick(w).rest = rest /\ Pick(w) = [r |-> t, rest |-> rest]
    BY <1>2 DEF t
  <2> HIDE DEF Pick, t
  <2>11. CASE w.r.threw
    BY <2>8, <2>9, <2>10, <2>11 DEF Chosen, S
  <2>12. CASE ~w.r.threw
    <3> DEFINE out == w.r.out
               m == Len(out)
    <3>1. out \in Seq(S) /\ Distinct(out) /\ Distinct(w.rest) /\ Apart(out, w.rest) /\ m \in Nat
      BY <1>1, <2>12
    <3>2. t.out = out \o shown
      BY <2>6, <2>9, <2>12
    <3> HIDE DEF out
    <3>3. /\ t.out \in Seq(S) /\ Len(t.out) = m + 1
          /\ \A i \in 1..m : t.out[i] = out[i]
          /\ t.out[m + 1] = picked
      <4> DEFINE both == out \o shown
      <4>1. /\ both \in Seq(S) /\ Len(both) = m + Len(shown) /\ \A i \in 1..m : both[i] = out[i]
            /\ \A i \in 1..Len(shown) : both[m + i] = shown[i]
        <5>1. out \in Seq(S) /\ shown \in Seq(S)
          BY <2>5, <3>1
        <5> QED BY <5>1, Concatenated
      <4> HIDE DEF both
      <4>2. both[m + 1] = picked
        BY <2>5, <4>1
      <4>3. t.out = both
        BY <3>2 DEF both
      <4>4. Len(both) = m + 1
        BY <2>5, <4>1
      <4> QED BY <4>1, <4>2, <4>3, <4>4
    <3> HIDE DEF m
    <3>4. \A j \in 1 .. n - 1 : /\ (IF j < at0 THEN j ELSE j + 1) \in 1..n
                                /\ (IF j < at0 THEN j ELSE j + 1) # at0
      BY <1>3, <2>2
    <3>5. Distinct(rest)
      <4>1. \A i, j \in 1 .. n - 1 :
              i # j => (IF i < at0 THEN i ELSE i + 1) # (IF j < at0 THEN j ELSE j + 1)
        BY <1>3, <2>2
      <4>2. \A i, j \in 1..n : i # j => w.rest[i] # w.rest[j]
        BY <3>1 DEF Distinct, n
      <4>3. ASSUME NEW i \in 1 .. n - 1, NEW j \in 1 .. n - 1, i # j PROVE rest[i] # rest[j]
        <5> DEFINE k == IF i < at0 THEN i ELSE i + 1
                   l == IF j < at0 THEN j ELSE j + 1
        <5>1. k \in 1..n /\ l \in 1..n /\ k # l
          BY <3>4, <4>1, <4>3
        <5>2. rest[i] = w.rest[k] /\ rest[j] = w.rest[l]
          BY <2>8
        <5> HIDE DEF k, l
        <5> QED BY <4>2, <5>1, <5>2
      <4> QED BY <2>8, <4>3 DEF Distinct
    <3>6. \A i \in 1..m : out[i] # picked
      BY <2>2, <3>1 DEF Apart, picked, n, m
    <3>7. \A j \in 1 .. n - 1 : rest[j] # picked
      BY <2>2, <2>8, <3>1, <3>4 DEF Distinct, picked, n
    <3>8. \A i \in 1..(m + 1) : i \in 1..m \/ i = m + 1
      BY <3>1
    <3>9. Distinct(t.out)
      <4>1. \A i, j \in 1..m : i # j => out[i] # out[j]
        BY <3>1 DEF Distinct, m
      <4>2. ASSUME NEW i \in 1..(m + 1), NEW j \in 1..(m + 1), i # j PROVE t.out[i] # t.out[j]
        <5>1. CASE i \in 1..m /\ j \in 1..m
          BY <3>3, <4>1, <4>2, <5>1
        <5>2. CASE i \in 1..m /\ j = m + 1
          BY <3>3, <3>6, <5>2
        <5>3. CASE i = m + 1 /\ j \in 1..m
          BY <3>3, <3>6, <5>3
        <5> QED BY <3>8, <4>2, <5>1, <5>2, <5>3
      <4> QED BY <3>3, <4>2 DEF Distinct
    <3>10. Apart(t.out, rest)
      <4>1. ASSUME NEW i \in 1..(m + 1), NEW j \in 1 .. n - 1 PROVE t.out[i] # rest[j]
        <5>1. CASE i \in 1..m
          <6>1. \A l \in 1..n : out[i] # w.rest[l]
            BY <3>1, <5>1 DEF Apart, n, m
          <6> QED BY <2>8, <3>3, <3>4, <5>1, <6>1
        <5>2. CASE i = m + 1
          BY <3>3, <3>7, <5>2
        <5> QED BY <3>8, <5>1, <5>2
      <4> QED BY <2>8, <3>3, <4>1 DEF Apart
    <3>11. Pick(w) \in Chosen(p, size)
      BY <2>8, <2>9, <2>10, <3>3, <3>5, <3>9, <3>10 DEF Chosen, S
    <3>12. Len(Pick(w).r.out) = Len(w.r.out) + 1
      BY <2>10, <3>3 DEF out, m
    <3> QED BY <2>12, <3>11, <3>12
  <2> QED BY <2>11, <2>12
<1> QED BY <1>5, <1>6, <1>7

LEMMA PicksFacts ==
  ASSUME NEW p \in Providers, NEW size \in Nat, NEW n \in Int, NEW r, r = PickValues(p, size, n)
  PROVE  /\ r \in UsedUp(p)
         /\ ~r.threw => Len(r.out) = n /\ r.out \in Seq(1..size) /\ Distinct(r.out)
<1> DEFINE S == Chosen(p, size)
           start == [r |-> Result(p, <<>>, {}), rest |-> [i \in 1..size |-> i]]
           Body(g, k) == IF k = 0 THEN start ELSE Pick(g[k - 1])
           d == CHOOSE g : g = [k \in 0..n |-> Body(g, k)]
           step == [k \in 1..n |-> [y \in S |-> Pick(y)]]
<1>1. CASE size = 0 \/ n < 0 \/ n > size
  <2>1. r = Throws(p)
    BY <1>1 DEF PickValues
  <2> QED BY <2>1, ThrowsFacts
<1>2. CASE ~(size = 0 \/ n < 0 \/ n > size)
  <2>1. r = d[n].r
    BY <1>2 DEF PickValues
  <2>2. n \in Nat
    BY <1>2
  <2>3. start \in S /\ start.r.out = <<>> /\ ~start.r.threw
    <3> DEFINE one == Result(p, <<>>, {})
               all == [i \in 1..size |-> i]
    <3>1. <<>> \in Seq(Int) /\ <<>> \in Seq(1..size) /\ Len(<<>>) = 0
      OBVIOUS
    <3>2. one \in UsedUp(p)
      BY <3>1, StayFacts
    <3>3. one.out = <<>> /\ ~one.threw
      BY DEF Result
    <3>4. all \in [1..size -> 1..size]
      OBVIOUS
    <3>5. \A i \in 1..size : all[i] = i
      OBVIOUS
    <3> HIDE DEF one, all
    <3>6. all \in Seq(1..size) /\ Len(all) = size
      BY <3>4, FunctionIsSeq
    <3>7. Distinct(all) /\ Distinct(one.out) /\ Apart(one.out, all)
      BY <3>1, <3>3, <3>5, <3>6 DEF Distinct, Apart
    <3>8. start = [r |-> one, rest |-> all]
      BY DEF one, all
    <3> HIDE DEF start
    <3> QED BY <3>1, <3>2, <3>3, <3>6, <3>7, <3>8 DEF Chosen
  <2>4. \A y \in S : Pick(y) \in S
    BY PickFacts
  <2> HIDE DEF start, S
  <2>5. PICK f \in [0..n -> S] : Iterates(f, 0..n, start, step)
    <3>1. \A k \in 1..n : \A y \in S : step[k][y] \in S
      BY <2>4
    <3> HIDE DEF step
    <3> QED BY <2>2, <2>3, <3>1, IterationTo
  <2>6. f = [k \in 0..n |-> Body(f, k)]
    <3>1. f = [k \in 0..n |-> IF k = 0 THEN start ELSE step[k][f[k - 1]]]
      BY <2>5 DEF Iterates
    <3>2. \A k \in 0..n : k # 0 => k \in 1..n /\ f[k - 1] \in S
      BY <2>2
    <3>3. \A k \in 0..n : (IF k = 0 THEN start ELSE step[k][f[k - 1]]) = Body(f, k)
      BY <3>2
    <3> QED BY <3>1, <3>3
  <2> HIDE DEF Body
  <2>7. d = [k \in 0..n |-> Body(d, k)]
    BY <2>6
  <2> HIDE DEF d
  <2>8. \A k \in 0..n : d[k] = Body(d, k)
    BY <2>7, Zenon
  <2>9. d[0] = start /\ \A k \in 1..n : d[k] = Pick(d[k - 1])
    BY <2>2, <2>8 DEF Body
  <2> DEFINE Good == {k \in Nat : k <= n => d[k] \in S /\ (~d[k].r.threw => Len(d[k].r.out) = k)}
  <2>10. Nat \subseteq Good
    <3>1. 0 \in Good
      BY <2>3, <2>9
    <3>2. ASSUME NEW k \in Nat, k \in Good PROVE k + 1 \in Good
      <4> SUFFICES ASSUME k + 1 <= n
                   PROVE  d[k + 1] \in S /\ (~d[k + 1].r.threw => Len(d[k + 1].r.out) = k + 1)
        OBVIOUS
      <4>1. k + 1 \in 1..n /\ (k + 1) - 1 = k
        BY <2>2
      <4>2. d[k] \in S /\ (~d[k].r.threw => Len(d[k].r.out) = k)
        BY <2>2, <3>2
      <4>3. d[k + 1] = Pick(d[k])
        BY <2>9, <4>1
      <4>4. /\ Pick(d[k]) \in S /\ (d[k].r.threw => Pick(d[k]).r.threw)
            /\ ~Pick(d[k]).r.threw => Len(Pick(d[k]).r.out) = Len(d[k].r.out) + 1
        BY <4>2, PickFacts DEF S
      <4> QED BY <4>2, <4>3, <4>4
    <3> HIDE DEF Good
    <3> QED BY <3>1, <3>2, Induction
  <2>11. d[n] \in S /\ (~d[n].r.threw => Len(d[n].r.out) = n)
    <3>1. n \in Good
      BY <2>2, <2>10
    <3> QED BY <2>2, <3>1
  <2> QED BY <2>1, <2>11 DEF S, Chosen
<1> QED BY <1>1, <1>2

-----------------------------------------------------------------------------
(* How many values arrays have, and which.                                 *)

LEMMA OnceMore ==
  ASSUME NEW k \in Nat, NEW w \in Nat
  PROVE  (k + 1) * w = k * w + w /\ k * w \in Nat
  OBVIOUS

Bounded(f, w, S) ==
  \A q \in Providers : Len(f[q].out) <= w /\ \A i \in 1..Len(f[q].out) : f[q].out[i] \in S

LEMMA InTurnBounds ==
  ASSUME NEW p \in Providers, NEW reads, NEW n \in Nat, Len(reads) = n,
         \A k \in 1..n : Reader(reads[k]),
         NEW w \in Nat, NEW S,
         \A k \in 1..n : Bounded(reads[k], w, S)
  PROVE  LET out == InTurn(reads, p).out
         IN Len(out) <= n * w /\ \A i \in 1..Len(out) : out[i] \in S
<1>1. PICK f \in [0..n -> UsedUp(p)] :
        /\ InTurn(reads, p) = f[n] /\ f[0] = Result(p, <<>>, {})
        /\ \A k \in 1..n : f[k] = Then(f[k - 1], reads[k][f[k - 1].fdp])
  BY InTurnSteps, SMTT(30)
<1> DEFINE Fits(out, m) == Len(out) <= m /\ \A i \in 1..Len(out) : out[i] \in S
           Good == {k \in Nat : k <= n => Fits(f[k].out, k * w)}
<1>2. 0 \in Good
  <2>1. f[0].out = <<>> /\ Len(<<>>) = 0
    BY <1>1 DEF Result
  <2>2. 0 * w = 0
    OBVIOUS
  <2> QED BY <2>1, <2>2
<1>3. ASSUME NEW k \in Nat, k \in Good PROVE k + 1 \in Good
  <2> SUFFICES ASSUME k + 1 <= n PROVE Fits(f[k + 1].out, (k + 1) * w)
    OBVIOUS
  <2>1. k + 1 \in 1..n /\ (k + 1) - 1 = k /\ k \in 0..n /\ Fits(f[k].out, k * w)
    BY <1>3
  <2> DEFINE r == f[k]
             s == reads[k + 1][r.fdp]
             m == k * w
  <2>2. r \in UsedUp(p) /\ f[k + 1] = Then(r, s) /\ Fits(r.out, m)
    BY <1>1, <2>1
  <2>3. r.fdp \in Providers /\ r.out \in Seq(Int) /\ r.threw \in BOOLEAN
    BY <2>2, FieldFacts
  <2>4. s \in UsedUp(r.fdp) /\ Fits(s.out, w)
    BY <2>1, <2>3 DEF Reader, Bounded
  <2>5. s.out \in Seq(Int)
    BY <2>3, <2>4, FieldFacts
  <2>6. m \in Nat /\ (k + 1) * w = m + w
    BY OnceMore
  <2> HIDE DEF r, s, m
  <2>7. CASE r.threw
    <3>1. Then(r, s) = r
      BY <2>7 DEF Then
    <3>2. Len(r.out) <= m + w
      BY <2>2, <2>3, <2>6
    <3> QED BY <2>2, <2>6, <3>1, <3>2
  <2>8. CASE ~r.threw
    <3>1. Then(r, s).out = r.out \o s.out
      BY <2>8, ThenGoesOn
    <3> DEFINE both == r.out \o s.out
               a == Len(r.out)
               b == Len(s.out)
    <3>2. /\ Len(both) = a + b /\ a \in Nat /\ b \in Nat
          /\ \A i \in 1..a : both[i] = r.out[i]
          /\ \A i \in 1..b : both[a + i] = s.out[i]
      <4> DEFINE x == r.out
                 y == s.out
      <4>1. x \in Seq(Int) /\ y \in Seq(Int)
        BY <2>3, <2>5
      <4> HIDE DEF x, y, both, a, b
      <4>2. /\ Len(x \o y) = Len(x) + Len(y) /\ Len(x) \in Nat /\ Len(y) \in Nat
            /\ \A i \in 1..Len(x) : (x \o y)[i] = x[i]
            /\ \A i \in 1..Len(y) : (x \o y)[Len(x) + i] = y[i]
        BY <4>1, Concatenated
      <4>3. both = x \o y /\ a = Len(x) /\ b = Len(y)
        BY DEF both, a, b, x, y
      <4>4. x = r.out /\ y = s.out
        BY DEF x, y
      <4> QED BY <4>2, <4>3, <4>4
    <3>3. a <= m /\ b <= w /\ (\A i \in 1..a : r.out[i] \in S) /\ \A i \in 1..b : s.out[i] \in S
      BY <2>2, <2>4
    <3> HIDE DEF both, a, b
    <3>4. Len(both) <= m + w
      BY <2>6, <3>2, <3>3
    <3>5. ASSUME NEW i \in 1..Len(both) PROVE both[i] \in S
      <4>1. i \in 1..a \/ (i - a \in 1..b /\ a + (i - a) = i)
        BY <3>2
      <4>2. CASE i \in 1..a
        BY <3>2, <3>3, <4>2
      <4>3. CASE i - a \in 1..b /\ a + (i - a) = i
        <5>1. both[a + (i - a)] = s.out[i - a]
          BY <3>2, <4>3
        <5> QED BY <3>3, <4>3, <5>1
      <4> QED BY <4>1, <4>2, <4>3
    <3>6. f[k + 1].out = both
      BY <2>2, <3>1 DEF both
    <3> QED BY <2>6, <3>4, <3>5, <3>6
  <2> QED BY <2>3, <2>7, <2>8
<1> HIDE DEF Good
<1>4. Nat \subseteq Good
  BY <1>2, <1>3, Induction
<1>5. n \in Good
  BY <1>4
<1>6. Fits(f[n].out, n * w)
  <2> HIDE DEF Fits
  <2> QED BY <1>5 DEF Good
<1> QED BY <1>1, <1>6

LEMMA RepeatBounds ==
  ASSUME NEW p \in Providers, NEW read, NEW n \in Nat, Reader(read), NEW w \in Nat, NEW S,
         Bounded(read, w, S)
  PROVE  LET out == Repeat(read, p, n).out
         IN Len(out) <= n * w /\ \A i \in 1..Len(out) : out[i] \in S
<1> DEFINE reads == [k \in 1..n |-> read]
<1>1. reads \in [1..n -> {read}]
  OBVIOUS
<1>2. Len(reads) = n
  <2> HIDE DEF reads
  <2> QED BY <1>1, FunctionIsSeq
<1>3. \A k \in 1..n : reads[k] = read
  OBVIOUS
<1>4. Repeat(read, p, n) = InTurn(reads, p)
  BY DEF Repeat
<1> HIDE DEF reads
<1>5. \A k \in 1..n : Reader(reads[k]) /\ Bounded(reads[k], w, S)
  BY <1>3
<1>6. LET out == InTurn(reads, p).out
      IN Len(out) <= n * w /\ \A i \in 1..Len(out) : out[i] \in S
  BY <1>2, <1>5, InTurnBounds
<1> QED BY <1>4, <1>6

LEMMA RoundedUp ==
  ASSUME NEW a \in Int, NEW m \in Nat, NEW w \in Nat \ {0}, a <= m * w
  PROVE  (a + w - 1) \div w <= m
<1> DEFINE q == (a + w - 1) \div w
           b == a + w - 1
<1>1. q \in Int /\ w * q <= b
  <2>1. b \in Int
    OBVIOUS
  <2> HIDE DEF b
  <2>2. b \div w \in Int /\ w * (b \div w) <= b
    BY <2>1
  <2> QED BY <2>2 DEF b
<1> HIDE DEF q
<1> SUFFICES ASSUME q >= m + 1 PROVE FALSE
  BY <1>1 DEF q
<1>2. w * q >= w * (m + 1)
  BY <1>1
<1>3. w * (m + 1) = m * w + w
  OBVIOUS
<1>4. m * w \in Int
  OBVIOUS
<1> DEFINE mw == m * w
           wq == w * q
<1>5. mw \in Int /\ wq \in Int /\ wq >= mw + w /\ wq <= a + w - 1 /\ a <= mw
  BY <1>1, <1>2, <1>3, <1>4
<1> HIDE DEF mw, wq
<1> QED BY <1>5

LEMMA NegativeProduct ==
  ASSUME NEW m \in Int, m < 0, NEW w \in Nat \ {0}
  PROVE  m * w < 0
  OBVIOUS

LEMMA NotNegative ==
  ASSUME NEW a \in Nat, NEW w \in Nat \ {0}
  PROVE  a \div w \in Nat
  OBVIOUS

LEMMA ArrayLengthBounds ==
  ASSUME NEW p \in Providers, NEW max \in Int, NEW width \in Nat \ {0}
  PROVE  /\ ArrayLength(p, max, width) \in Int
         /\ ArrayLength(p, max, width) <= IF max < 0 THEN 0 ELSE max
<1> DEFINE mw == max * width
           a == Smaller(p.left, mw)
           n == ArrayLength(p, max, width)
<1>1. n \in Int
  BY ArrayLengthFacts
<1>2. mw \in Int /\ p.left \in Nat /\ width \in Int
  <2>1. width \in Int
    OBVIOUS
  <2> QED BY <2>1, IntProducts, ProviderFacts
<1>3. n = IF a < 0 THEN -((-a) \div width) ELSE (a + width - 1) \div width
  BY DEF ArrayLength
<1> HIDE DEF n
<1>4. a \in Int /\ a <= mw /\ (a = p.left \/ a = mw)
  <2> HIDE DEF mw
  <2>1. p.left \in Int
    BY <1>2
  <2> QED BY <1>2, <2>1, SmallerFacts
<1> HIDE DEF a
<1>5. CASE max < 0
  <2>1. mw < 0
    BY <1>5, NegativeProduct
  <2>2. a < 0 /\ -a \in Nat
    BY <1>2, <1>4, <2>1
  <2>3. (-a) \div width \in Nat
    BY <2>2, NotNegative
  <2>4. n <= 0
    BY <1>3, <2>2, <2>3
  <2> QED BY <1>1, <1>5, <2>4 DEF n
<1>6. CASE ~(max < 0)
  <2>1. max \in Nat
    BY <1>6
  <2>2. mw \in Nat
    BY <2>1, Products
  <2>3. a >= 0
    BY <1>2, <1>4, <2>2
  <2>4. (a + width - 1) \div width <= max
    BY <1>4, <2>1, RoundedUp
  <2>5. n <= max
    BY <1>3, <1>4, <2>3, <2>4
  <2> QED BY <1>1, <1>6, <2>5 DEF n
<1> QED BY <1>5, <1>6

LEMMA AtMostFacts ==
  ASSUME NEW out \in Seq(Int), NEW max \in Int, NEW n \in Int, n <= IF max < 0 THEN 0 ELSE max,
         IF n < 0 THEN Len(out) = 0 ELSE Len(out) <= n
  PROVE  AtMost(out, max)
<1>1. Len(out) \in Nat
  OBVIOUS
<1> QED BY <1>1 DEF AtMost

LEMMA IntegralsBounds ==
  ASSUME NEW p \in Providers, NEW max \in Int, NEW width \in Nat \ {0}, NEW signed \in BOOLEAN
  PROVE  /\ AtMost(ConsumeIntegrals(p, max, width, signed).out, max)
         /\ AtMost(ConsumeBigIntegrals(p, max, width, signed).out, max)
<1> DEFINE n == ArrayLength(p, max, width)
<1>1. n \in Int /\ n <= IF max < 0 THEN 0 ELSE max
  BY ArrayLengthBounds
<1> HIDE DEF n
<1>2. ASSUME NEW read, Reader(read), \A q \in Providers : read[q].out = <<>> \/ Len(read[q].out) = 1,
             NEW m \in Nat
      PROVE  Repeat(read, p, m).out \in Seq(Int) /\ Len(Repeat(read, p, m).out) <= m
  <2>1. Bounded(read, 1, Int)
    <3> SUFFICES ASSUME NEW q \in Providers
                 PROVE  /\ Len(read[q].out) <= 1
                        /\ \A i \in 1..Len(read[q].out) : read[q].out[i] \in Int
      BY DEF Bounded
    <3>1. read[q] \in UsedUp(q)
      BY <1>2 DEF Reader
    <3>2. read[q].out \in Seq(Int)
      BY <3>1, FieldFacts
    <3>3. read[q].out = <<>> \/ Len(read[q].out) = 1
      BY <1>2
    <3> DEFINE out == read[q].out
    <3>4. out \in Seq(Int) /\ (out = <<>> \/ Len(out) = 1)
      BY <3>2, <3>3
    <3> HIDE DEF out
    <3>5. Len(out) <= 1 /\ \A i \in 1..Len(out) : out[i] \in Int
      BY <3>4
    <3> QED BY <3>5 DEF out
  <2>2. Len(Repeat(read, p, m).out) <= m * 1
    <3>1. 1 \in Nat
      OBVIOUS
    <3> QED BY <1>2, <2>1, <3>1, RepeatBounds
  <2>3. Repeat(read, p, m) \in UsedUp(p)
    BY <1>2, RepeatFacts
  <2> QED BY <2>2, <2>3, FieldFacts
<1>3. AtMost(ConsumeIntegrals(p, max, width, signed).out, max)
  <2> DEFINE read == [q \in Providers |-> IntegralLEorBE(q, width, signed, FALSE)]
             m == IF n < 0 THEN 0 ELSE n
  <2>1. ASSUME NEW q \in Providers
        PROVE  read[q] \in UsedUp(q) /\ (read[q].out = <<>> \/ Len(read[q].out) = 1)
    <3>1. width \in Int /\ width # 0 /\ FALSE \in BOOLEAN
      OBVIOUS
    <3> DEFINE r == IntegralLEorBE(q, width, signed, FALSE)
    <3>2. r \in UsedUp(q) /\ Yields(r, Lowest(width, signed), Lowest(width, signed) + ValuesOf(width) - 1)
      BY <3>1, IntegralFacts
    <3>3. r.out = <<>> \/ Len(r.out) = 1
      BY <3>2 DEF Yields
    <3> QED BY <3>2, <3>3
  <2>2. m \in Nat
    BY <1>1
  <2>3. ConsumeIntegrals(p, max, width, signed) = Repeat(read, p, m)
    BY DEF ConsumeIntegrals, n
  <2> HIDE DEF read, m
  <2>4. Reader(read) /\ \A q \in Providers : read[q].out = <<>> \/ Len(read[q].out) = 1
    BY <2>1 DEF Reader
  <2> DEFINE out == Repeat(read, p, m).out
  <2>5. out \in Seq(Int) /\ Len(out) <= m
    BY <1>2, <2>2, <2>4
  <2> HIDE DEF out
  <2>6. Len(out) \in Nat
    BY <2>5
  <2>7. AtMost(out, max)
    BY <1>1, <2>5, <2>6, AtMostFacts DEF m
  <2> QED BY <2>3, <2>7 DEF out
<1>4. AtMost(ConsumeBigIntegrals(p, max, width, signed).out, max)
  <2> DEFINE read == [q \in Providers |-> BigIntegralLEorBE(q, width, signed, FALSE)]
  <2>1. ASSUME NEW q \in Providers
        PROVE  read[q] \in UsedUp(q) /\ (read[q].out = <<>> \/ Len(read[q].out) = 1)
    <3>1. width \in Nat /\ width # 0 /\ FALSE \in BOOLEAN
      OBVIOUS
    <3> DEFINE r == BigIntegralLEorBE(q, width, signed, FALSE)
    <3>2. r \in UsedUp(q) /\ Yields(r, Lowest(width, signed), HighestBig(width, signed))
      BY <3>1, BigIntegralFacts
    <3>3. r.out = <<>> \/ Len(r.out) = 1
      BY <3>2 DEF Yields
    <3> QED BY <3>2, <3>3
  <2>2. ConsumeBigIntegrals(p, max, width, signed) = IF n < 0 THEN Throws(p) ELSE Repeat(read, p, n)
    BY DEF ConsumeBigIntegrals, n
  <2> HIDE DEF read
  <2>3. Reader(read) /\ \A q \in Providers : read[q].out = <<>> \/ Len(read[q].out) = 1
    BY <2>1 DEF Reader
  <2>4. CASE n < 0
    <3>1. ConsumeBigIntegrals(p, max, width, signed).out = <<>>
      BY <2>2, <2>4, ThrowsFacts
    <3>2. <<>> \in Seq(Int) /\ Len(<<>>) = 0
      OBVIOUS
    <3> QED BY <1>1, <2>4, <3>1, <3>2, AtMostFacts
  <2>5. CASE ~(n < 0)
    <3>1. n \in Nat
      BY <1>1, <2>5
    <3> DEFINE out == Repeat(read, p, n).out
    <3>2. out \in Seq(Int) /\ Len(out) <= n
      BY <1>2, <2>3, <3>1
    <3>3. AtMost(out, max)
      <4> HIDE DEF out
      <4> QED BY <1>1, <2>5, <3>2, AtMostFacts
    <3> QED BY <2>2, <2>5, <3>3
  <2> QED BY <2>4, <2>5
<1> QED BY <1>3, <1>4

LEMMA ScaledLength ==
  ASSUME NEW n \in Nat, NEW max \in Nat, NEW w \in Nat, n <= max
  PROVE  n * w <= max * w /\ n * w \in Nat /\ max * w \in Nat
  OBVIOUS

LEMMA NumbersBounds ==
  ASSUME NEW p \in Providers, NEW max \in Int
  PROVE  AtMost(ConsumeNumbers(p, max).out, max * DoubleBytes)
<1> DEFINE n == ArrayLength(p, max, DoubleBytes)
           read == [q \in Providers |-> NumberBE(q)]
           out == ConsumeNumbers(p, max).out
           limit == max * DoubleBytes
<1>1. DoubleBytes \in Nat \ {0} /\ DoubleBytes \in Nat /\ DoubleBytes \in Int
  BY SizeFacts
<1>2. n \in Int /\ n <= IF max < 0 THEN 0 ELSE max
  BY <1>1, ArrayLengthBounds
<1>3. ConsumeNumbers(p, max) = IF n < 0 THEN Throws(p) ELSE Repeat(read, p, n)
  BY DEF ConsumeNumbers
<1>4. limit \in Int
  BY <1>1, IntProducts
<1>5. ASSUME NEW q \in Providers
      PROVE  read[q] \in UsedUp(q) /\ Len(read[q].out) <= DoubleBytes
             /\ \A i \in 1..Len(read[q].out) : read[q].out[i] \in Int
  <2> DEFINE r == NumberBE(q)
  <2>1. r \in UsedUp(q) /\ Len(r.out) = DoubleBytes
    BY NumberBEFacts
  <2> HIDE DEF r
  <2>2. r.out \in Seq(Int)
    BY <2>1, FieldFacts
  <2>3. Len(r.out) <= DoubleBytes /\ \A i \in 1..Len(r.out) : r.out[i] \in Int
    BY <1>1, <2>1, <2>2
  <2>4. read[q] = r
    BY DEF r
  <2> QED BY <2>1, <2>3, <2>4
<1> HIDE DEF n, read
<1>6. Reader(read) /\ Bounded(read, DoubleBytes, Int)
  BY <1>5 DEF Reader, Bounded
<1>7. out \in Seq(Int)
  <2>1. ConsumeNumbers(p, max) \in UsedUp(p)
    BY ArraysUsed
  <2> QED BY <2>1, FieldFacts
<1>8. Len(out) \in Nat
  BY <1>7
<1>9. CASE n < 0
  <2>1. out = <<>>
    BY <1>3, <1>9, ThrowsFacts
  <2>2. Len(out) = 0
    BY <2>1
  <2> HIDE DEF out, limit
  <2>3. AtMost(out, limit)
    BY <1>4, <2>2 DEF AtMost
  <2> QED BY <2>3 DEF out, limit
<1>10. CASE ~(n < 0)
  <2>1. n \in Nat
    BY <1>2, <1>10
  <2>2. Len(Repeat(read, p, n).out) <= n * DoubleBytes
    BY <1>1, <1>6, <2>1, RepeatBounds
  <2>3. out = Repeat(read, p, n).out
    BY <1>3, <1>10
  <2> HIDE DEF out
  <2>4. CASE max < 0
    <3>1. n = 0
      BY <1>2, <2>1, <2>4
    <3>2. n * DoubleBytes = 0
      BY <1>1, <3>1
    <3>3. Len(out) = 0
      BY <1>8, <2>2, <2>3, <3>2
    <3> HIDE DEF limit
    <3>4. AtMost(out, limit)
      BY <1>4, <3>3 DEF AtMost
    <3> QED BY <3>4 DEF out, limit
  <2>5. CASE ~(max < 0)
    <3>1. max \in Nat /\ n <= max
      BY <1>2, <2>5
    <3>2. n * DoubleBytes <= limit /\ n * DoubleBytes \in Nat /\ limit \in Nat
      BY <1>1, <2>1, <3>1, ScaledLength
    <3> DEFINE size == n * DoubleBytes
    <3>3. Len(out) <= size /\ size <= limit /\ size \in Nat /\ limit \in Nat
      BY <2>2, <2>3, <3>2
    <3> HIDE DEF limit, size
    <3>4. AtMost(out, limit)
      BY <1>8, <3>3 DEF AtMost
    <3> QED BY <3>4 DEF out, limit
  <2> QED BY <2>4, <2>5
<1> QED BY <1>9, <1>10

LEMMA StringsBounds ==
  ASSUME NEW p \in Providers, NEW max \in Int, NEW long \in Int
  PROVE  /\ AtMost(ConsumeStringArray(p, max, long).out, max)
         /\ Within(ConsumeStringArray(p, max, long).out, 0, long)
<1> DEFINE read == [q \in Providers |-> NextString(q, long)]
           m == IF max < 0 THEN 0 ELSE max
           out == Repeat(read, p, m).out
<1>1. ASSUME NEW q \in Providers
      PROVE  NextString(q, long) \in UsedUp(q) /\ Len(NextString(q, long).out) <= 1
             /\ \A i \in 1..Len(NextString(q, long).out) : NextString(q, long).out[i] \in 0..long
  <2> DEFINE r == ConsumeString(q, long, FALSE)
             t == NextString(q, long)
  <2>1. /\ r \in UsedUp(q)
        /\ IF long < 0 THEN r = Throws(q) ELSE ~r.threw /\ Len(r.out) <= long
    BY StringFacts
  <2>2. t = IF q.left = 0 THEN Result(q, <<>>, {})
            ELSE IF r.threw THEN r ELSE [r EXCEPT !.out = <<Len(r.out)>>]
    BY DEF NextString
  <2> HIDE DEF r, t
  <2>3. r.out \in Seq(Int) /\ Len(r.out) \in Nat
    <3>1. r.out \in Seq(Int)
      BY <2>1, FieldFacts
    <3> QED BY <3>1
  <2>4. Throws(q).threw /\ Throws(q).out = <<>>
    BY ThrowsFacts
  <2>5. <<>> \in Seq(Int) /\ Len(<<>>) = 0
    OBVIOUS
  <2>6. CASE q.left = 0
    <3>1. t = Result(q, <<>>, {})
      BY <2>2, <2>6
    <3>2. t.out = <<>> /\ t \in UsedUp(q)
      BY <2>5, <3>1, StayFacts DEF Result
    <3> QED BY <2>5, <3>2 DEF t
  <2>7. CASE q.left # 0 /\ long < 0
    <3>1. r = Throws(q)
      BY <2>1, <2>7
    <3>2. t = r /\ r.out = <<>>
      BY <2>2, <2>4, <2>7, <3>1
    <3> QED BY <2>1, <2>5, <3>2 DEF t
  <2>8. CASE q.left # 0 /\ ~(long < 0)
    <3>1. ~r.threw /\ Len(r.out) <= long
      BY <2>1, <2>8
    <3> DEFINE one == <<Len(r.out)>>
    <3>2. one \in Seq(Int) /\ Len(one) = 1 /\ one[1] = Len(r.out)
      BY <2>3, Singleton
    <3>3. t = [r EXCEPT !.out = one]
      BY <2>2, <2>8, <3>1
    <3> HIDE DEF one
    <3>4. t \in UsedUp(q) /\ t.out = one
      BY <2>1, <3>2, <3>3, ReoutFacts
    <3>5. one[1] \in 0..long
      BY <2>3, <3>1, <3>2
    <3>6. Len(one) <= 1 /\ \A i \in 1..Len(one) : one[i] \in 0..long
      <4>1. \A i \in 1..1 : i = 1
        OBVIOUS
      <4> QED BY <3>2, <3>5, <4>1
    <3> QED BY <3>4, <3>6, Zenon DEF t
  <2> QED BY <2>6, <2>7, <2>8
<1>2. m \in Nat /\ m \in Int /\ m <= IF max < 0 THEN 0 ELSE max
  OBVIOUS
<1>3. ConsumeStringArray(p, max, long) = Repeat(read, p, m)
  BY DEF ConsumeStringArray
<1>4. Reader(read) /\ Bounded(read, 1, 0..long)
  BY <1>1 DEF Reader, Bounded
<1> HIDE DEF read, m
<1>5. Len(out) <= m * 1 /\ \A i \in 1..Len(out) : out[i] \in 0..long
  <2>1. 1 \in Nat
    OBVIOUS
  <2> QED BY <1>2, <1>4, <2>1, RepeatBounds
<1>6. out \in Seq(Int)
  <2>1. Repeat(read, p, m) \in UsedUp(p)
    BY <1>2, <1>4, RepeatFacts
  <2> QED BY <2>1, FieldFacts
<1> HIDE DEF out
<1>7. Len(out) <= m /\ Len(out) \in Nat /\ DOMAIN out = 1..Len(out)
  BY <1>2, <1>5, <1>6
<1>8. AtMost(out, max)
  BY <1>2, <1>6, <1>7, AtMostFacts
<1>9. Within(out, 0, long)
  BY <1>5, <1>7 DEF Within
<1> QED BY <1>3, <1>8, <1>9 DEF out

-----------------------------------------------------------------------------
(* The ordinary and the big reader.                                        *)

LEMMA NextValues ==
  ASSUME NEW n \in Nat
  PROVE  ValuesOf(n + 1) = Base * ValuesOf(n)
<1>1. ByteBits \in Nat /\ n \in Nat
  BY SizeFacts
<1>2. ByteBits * n \in Nat /\ ByteBits * (n + 1) = ByteBits + ByteBits * n /\ ByteBits * 1 = ByteBits
  BY <1>1
<1> QED BY <1>1, <1>2, PowerProduct DEF Base, ValuesOf

LEMMA Shifted ==
  ASSUME NEW f \in Nat, NEW x \in Nat, NEW b \in Nat, NEW c \in Nat, NEW v \in Nat
  PROVE  f + (x * b + c) * v = (f + c * v) + x * (b * v)
  OBVIOUS

LEMMA FromTheBack ==
  ASSUME NEW a \in Int, NEW n \in Nat, NEW j \in Nat, j < n
  PROVE  /\ n - j \in 1..n /\ (a - (n - j)) + 1 = (a - n) + (j + 1)
         /\ n - j - 1 = n - (j + 1) /\ (j + 1) - 1 = j /\ j + 1 \in 1..n
  OBVIOUS

LEMMA SameDigits ==
  ASSUME NEW p \in Providers, NEW n \in 0..p.left
  PROVE  Digits(BytesAt(p, BackOf(p, n))) = ReadUInt(p, p.ptr + (p.left - n), n, TRUE)
<1> DEFINE pos == BackOf(p, n)
           b == BytesAt(p, pos)
           end == p.ptr + p.left
           from == p.ptr + (p.left - n)
<1>1. /\ p.ptr \in Int /\ p.left \in Nat /\ n \in Nat /\ end \in Int /\ from \in Int /\ from = end - n
      /\ Window(p) = p.ptr .. (p.ptr + p.left - 1)
  BY ProviderFacts
<1>2. pos \in Seq(Int) /\ Len(pos) = n /\ ToSet(pos) \subseteq Window(p)
  BY BackFacts
<1>3. \A i \in 1..n : pos[i] = end - i
  <2>1. pos = [i \in 1..n |-> p.ptr + p.left - i]
    BY DEF BackOf
  <2> HIDE DEF pos
  <2>2. ASSUME NEW i \in 1..n PROVE pos[i] = p.ptr + p.left - i
    BY <2>1
  <2>3. end = p.ptr + p.left
    OBVIOUS
  <2> HIDE DEF end
  <2>4. \A i \in 1..n : i \in Int
    BY <1>1
  <2> QED BY <1>1, <2>2, <2>3, <2>4
<1> HIDE DEF pos
<1>4. b \in Seq(Nat) /\ Len(b) = n /\ \A i \in 1..n : b[i] = p.data[pos[i] + 1]
  BY <1>2, ByteFacts
<1>5. \A i \in 1..n : b[i] \in Nat /\ b[i] = p.data[(end - i) + 1]
  <2>1. \A i \in 1..n : b[i] \in Nat
    BY <1>4, ElementOfSeq
  <2> QED BY <1>3, <1>4, <2>1
<1> HIDE DEF b, end, from
<1>6. \A j \in Nat : j < n => b[n - j] \in Nat /\ b[n - j] = p.data[from + (j + 1)]
  <2> SUFFICES ASSUME NEW j \in Nat, j < n
               PROVE  b[n - j] \in Nat /\ b[n - j] = p.data[from + (j + 1)]
    OBVIOUS
  <2>1. n - j \in 1..n /\ (end - (n - j)) + 1 = (end - n) + (j + 1)
    BY <1>1, FromTheBack
  <2> QED BY <1>1, <1>5, <2>1
<1>7. \A k \in 1..n : p.data[from + k] \in Nat
  <2> SUFFICES ASSUME NEW k \in 1..n PROVE p.data[from + k] \in Nat
    OBVIOUS
  <2>1. k - 1 \in Nat /\ k - 1 < n /\ (k - 1) + 1 = k
    BY <1>1
  <2> QED BY <1>6, <2>1
<1>8. PICK d \in [0..n -> Nat] :
        Digits(b) = d[n] /\ d[0] = 0 /\ \A k \in 1..n : d[k] = d[k - 1] * Base + b[k]
  BY <1>4, DigitsFacts
<1> DEFINE little == TRUE
           Goes(f) == \A k \in 1..n : f[k] = f[k - 1] + p.data[from + k] * ValuesOf(k - 1)
<1>9. PICK f \in [0..n -> Nat] : ReadUInt(p, from, n, TRUE) = f[n] /\ f[0] = 0 /\ Goes(f)
  <2>1. from \in Int /\ n \in Nat /\ little \in BOOLEAN
    BY <1>1
  <2> HIDE DEF little
  <2>2. PICK f \in [0..n -> Nat] :
          ReadUInt(p, from, n, little) = f[n] /\ AddsUp(f, p, from, n, little)
    BY <1>7, <2>1, ReadFacts
  <2>3. f[0] = 0 /\ Goes(f)
    BY <2>2 DEF AddsUp, little
  <2> HIDE DEF Goes
  <2> QED BY <2>2, <2>3 DEF little
<1> DEFINE Good == {j \in Nat : j <= n => d[n] = f[j] + d[n - j] * ValuesOf(j)}
<1>10. 0 \in Good
  <2>1. n - 0 = n /\ d[n] \in Nat /\ f[0] = 0 /\ ValuesOf(0) = 1
    BY <1>1, <1>8, <1>9, ValuesFacts
  <2>2. d[n] = 0 + d[n] * 1
    BY <2>1
  <2> QED BY <2>1, <2>2
<1>11. ASSUME NEW j \in Nat, j \in Good PROVE j + 1 \in Good
  <2> SUFFICES ASSUME j + 1 <= n PROVE d[n] = f[j + 1] + d[n - (j + 1)] * ValuesOf(j + 1)
    OBVIOUS
  <2>1. /\ j < n /\ n - j \in 1..n /\ n - j - 1 = n - (j + 1) /\ (j + 1) - 1 = j /\ j + 1 \in 1..n
        /\ n - (j + 1) \in 0..n /\ j \in 0..n
    BY <1>1, FromTheBack
  <2> DEFINE x == d[n - (j + 1)]
             c == b[n - j]
             v == ValuesOf(j)
             g == f[j]
  <2>2. x \in Nat /\ c \in Nat /\ v \in Nat /\ g \in Nat /\ Base \in Nat
    BY <1>6, <1>8, <1>9, <2>1, ValuesFacts
  <2>3. d[n] = g + d[n - j] * v
    BY <1>11, <2>1
  <2>4. d[n - j] = x * Base + c
    BY <1>8, <2>1
  <2>5. f[j + 1] = g + c * v
    BY <1>6, <1>9, <2>1
  <2>6. ValuesOf(j + 1) = Base * v
    BY NextValues
  <2> HIDE DEF x, c, v, g
  <2>7. g + (x * Base + c) * v = (g + c * v) + x * (Base * v)
    BY <2>2, Shifted
  <2>8. d[n] = f[j + 1] + x * ValuesOf(j + 1)
    BY <2>3, <2>4, <2>5, <2>6, <2>7
  <2> QED BY <2>8 DEF x
<1> HIDE DEF Good
<1>12. Nat \subseteq Good
  BY <1>10, <1>11, Induction
<1>13. d[n] = f[n] + d[n - n] * ValuesOf(n)
  BY <1>1, <1>12 DEF Good
<1>14. d[n - n] = 0 /\ f[n] \in Nat /\ ValuesOf(n) \in Nat
  <2>1. n - n = 0 /\ n \in 0..n
    BY <1>1
  <2> QED BY <1>1, <1>8, <1>9, <2>1, ValuesFacts
<1>15. 0 * ValuesOf(n) = 0
  BY <1>14
<1>16. d[n] = f[n]
  BY <1>13, <1>14, <1>15
<1> QED BY <1>8, <1>9, <1>16 DEF b, pos, from

LEMMA SameRange ==
  ASSUME NEW p \in Providers, NEW min \in Int, NEW max \in Int,
         NEW r, r = ConsumeIntegralInRange(p, min, max),
         NEW s, s = ConsumeBigIntegralInRange(p, min, max)
  PROVE  r.threw \/ (r.out = s.out /\ r.fdp = s.fdp)
<1> DEFINE range == max - min
           n == Smaller(p.left, BytesFor(range))
           back == BackTaken(p, n)
           d == Digits(BytesAt(p, BackOf(p, n)))
           u == ReadUInt(p, p.ptr + back.left, n, TRUE)
<1>1. r = IntegralInRangeLEorBE(p, min, max, TRUE) /\ s = BigIntegralInRangeLEorBE(p, min, max, TRUE)
  BY DEF ConsumeIntegralInRange, ConsumeBigIntegralInRange
<1>2. CASE min = max
  <2>1. r = Returns(p, min) /\ s = Returns(p, min)
    BY <1>1, <1>2 DEF IntegralInRangeLEorBE, BigIntegralInRangeLEorBE
  <2> QED BY <2>1
<1>3. CASE min > max
  <2>1. r = Throws(p)
    BY <1>1, <1>3 DEF IntegralInRangeLEorBE
  <2> QED BY <2>1, ThrowsFacts
<1>4. CASE min < max
  <2>1. range \in Nat /\ range # 0 /\ p.left \in Nat
    BY <1>4, ProviderFacts
  <2>2. n \in 0..p.left /\ n \in Int
    <3>1. n \in 0..p.left
      BY <2>1, NumberOfBytes
    <3> QED BY <2>1, <3>1
  <2>3. s = Result(back, <<min + (d % (range + 1))>>, ToSet(BackOf(p, n)))
    BY <1>1, <1>4 DEF BigIntegralInRangeLEorBE
  <2>4. CASE p.left = 0
    <3>1. r = Returns(p, min)
      BY <1>1, <1>4, <2>4 DEF IntegralInRangeLEorBE
    <3>2. n = 0
      BY <2>2, <2>4
    <3> HIDE DEF n
    <3>3. back = p
      <4>1. p = [data |-> p.data, ptr |-> p.ptr, left |-> p.left]
        BY ProviderFacts
      <4>2. p.left - 0 = p.left
        BY <2>1
      <4> QED BY <3>2, <4>1, <4>2 DEF BackTaken
    <3>4. d = 0
      <4>1. BackOf(p, n) \in Seq(Int) /\ Len(BackOf(p, n)) = 0 /\ ToSet(BackOf(p, n)) \subseteq Window(p)
        BY <2>2, <3>2, BackFacts
      <4> DEFINE b == BytesAt(p, BackOf(p, n))
      <4>2. b \in Seq(Nat) /\ Len(b) = 0
        BY <4>1, ByteFacts
      <4> HIDE DEF b
      <4>3. Digits(b) = 0
        BY <4>2, DigitsFacts
      <4> QED BY <4>3 DEF b
    <3> HIDE DEF d
    <3>5. d % (range + 1) = 0
      <4>1. 0 % (range + 1) = 0
        BY <2>1
      <4> QED BY <3>4, <4>1
    <3>6. min + 0 = min
      OBVIOUS
    <3> HIDE DEF range, back
    <3>7. r.fdp = p /\ r.out = <<min>>
      BY <3>1 DEF Returns, Result
    <3>8. s.fdp = back /\ s.out = <<min + (d % (range + 1))>>
      BY <2>3 DEF Result
    <3> QED BY <3>3, <3>5, <3>6, <3>7, <3>8
  <2>5. CASE p.left # 0 /\ (max >= TwoTo[Mantissa] \/ n > MaxBytes)
    <3>1. r = Throws(p)
      BY <1>1, <1>4, <2>5 DEF IntegralInRangeLEorBE
    <3> QED BY <3>1, ThrowsFacts
  <2>6. CASE p.left # 0 /\ ~(max >= TwoTo[Mantissa] \/ n > MaxBytes)
    <3>1. r = Result(back, <<min + (u % (range + 1))>>, ToSet(BackOf(p, n)))
      BY <1>1, <1>4, <2>6 DEF IntegralInRangeLEorBE
    <3>2. u = d
      <4>1. back.left = p.left - n
        BY <2>2, BackFacts
      <4> HIDE DEF n
      <4> QED BY <2>2, <4>1, SameDigits
    <3> HIDE DEF u, d, range, back, n
    <3>3. r = s
      BY <2>3, <3>1, <3>2
    <3> QED BY <3>3
  <2> QED BY <2>4, <2>5, <2>6
<1> QED BY <1>2, <1>3, <1>4

(* A big integral of n bytes takes no more.                                *)
LEMMA BigReads ==
  ASSUME NEW p \in Providers, NEW n \in Nat, NEW signed \in BOOLEAN, signed => n # 0,
         ByteBits * n <= Mantissa
  PROVE  Cardinality(ConsumeBigIntegral(p, n, signed).read) <= n
<1> DEFINE min == Lowest(n, signed)
           max == HighestBig(n, signed)
           range == max - min
           m == Smaller(p.left, BytesFor(range))
           r == ConsumeBigIntegral(p, n, signed)
<1>1. min \in Int /\ max \in Int /\ min <= max /\ max = min + ValuesOf(n) - 1
  BY Extents
<1>2. ValuesOf(n) \in Nat /\ ValuesOf(n) >= 1
  BY ValuesFacts
<1>3. r = BigIntegralInRangeLEorBE(p, min, max, TRUE)
  BY DEF ConsumeBigIntegral, BigIntegralLEorBE
<1> HIDE DEF min, max
<1>4. CASE min = max
  <2>1. r = Returns(p, min)
    BY <1>3, <1>4 DEF BigIntegralInRangeLEorBE
  <2>2. r.read = {}
    BY <2>1 DEF Returns, Result
  <2>3. Cardinality({}) = 0
    BY FS_EmptySet
  <2> QED BY <2>2, <2>3
<1>5. CASE min # max
  <2>1. range \in Nat /\ range # 0 /\ range < ValuesOf(n)
    BY <1>1, <1>2, <1>5
  <2>2. m \in 0..p.left /\ m <= n /\ p.left \in Nat /\ p.ptr \in Int
    <3>1. m \in 0..p.left /\ (\A k \in Nat : range < ValuesOf(k) => m <= k)
      <4> HIDE DEF range
      <4> QED BY <2>1, NumberOfBytes
    <3> QED BY <2>1, <3>1, ProviderFacts
  <2>3. r.read = ToSet(BackOf(p, m))
    BY <1>1, <1>3, <1>5 DEF BigIntegralInRangeLEorBE, Result
  <2> HIDE DEF m
  <2>4. r.read = (p.ptr + p.left - m) .. (p.ptr + p.left - 1)
    BY <2>2, <2>3, BackFacts
  <2> DEFINE a == p.ptr + p.left - m
             b == p.ptr + p.left - 1
  <2>5. a \in Int /\ b \in Int /\ b - a + 1 = m /\ m \in Nat
    BY <2>2
  <2> HIDE DEF a, b
  <2>6. Cardinality(a .. b) = IF a > b THEN 0 ELSE b - a + 1
    BY <2>5, FS_Interval
  <2>7. Cardinality(a .. b) <= n
    BY <2>2, <2>5, <2>6
  <2> QED BY <2>4, <2>7 DEF a, b
<1> QED BY <1>4, <1>5

-----------------------------------------------------------------------------
(* The calls of a provider.                                                *)

LEMMA YieldsWithin ==
  ASSUME NEW p \in Providers, NEW r \in UsedUp(p), NEW lo, NEW hi, Yields(r, lo, hi)
  PROVE  Within(r.out, lo, hi)
<1>1. r.out \in Seq(Int) /\ r.threw \in BOOLEAN
  BY FieldFacts
<1> DEFINE out == r.out
<1>2. DOMAIN out = 1..Len(out)
  BY <1>1
<1>3. CASE r.threw
  <2>1. out = <<>>
    BY <1>3 DEF Yields
  <2> QED BY <2>1 DEF Within
<1>4. CASE ~r.threw
  <2>1. Len(out) = 1 /\ out[1] \in lo..hi
    BY <1>4 DEF Yields
  <2> HIDE DEF out
  <2>2. \A i \in DOMAIN out : i = 1
    BY <1>2, <2>1
  <2>3. Within(out, lo, hi)
    BY <2>1, <2>2 DEF Within
  <2> QED BY <2>3 DEF out
<1> QED BY <1>1, <1>3, <1>4

LEMMA OneWithin ==
  ASSUME NEW out \in Seq(Int), NEW lo, NEW hi, Len(out) = 1 /\ out[1] \in lo..hi
  PROVE  Within(out, lo, hi)
<1>1. \A i \in DOMAIN out : i = 1
  OBVIOUS
<1> QED BY <1>1 DEF Within

Kept(c, p, r) == r \in UsedUp(p) /\ (r.threw \/ Promise(c, r))

LEMMA IntegralKept ==
  ASSUME NEW p \in Providers, NEW c, NEW n \in Int, NEW signed \in BOOLEAN, signed => n # 0,
         c.op = "integral", c.n = n, c.signed = signed
  PROVE  Kept(c, p, Perform(p, c))
<1> DEFINE r == Perform(p, c)
<1>1. r = IntegralLEorBE(p, n, signed, TRUE)
  BY DEF Perform, ConsumeIntegral
<1>2. r \in UsedUp(p) /\ Yields(r, Lowest(n, signed), Lowest(n, signed) + ValuesOf(n) - 1)
  BY <1>1, IntegralFacts
<1> HIDE DEF r
<1>3. Within(r.out, Lowest(n, signed), Lowest(n, signed) + ValuesOf(n) - 1)
  BY <1>2, YieldsWithin
<1>4. Promise(c, r)
  BY <1>3 DEF Promise
<1> QED BY <1>2, <1>4 DEF Kept, r

LEMMA BigIntegralKept ==
  ASSUME NEW p \in Providers, NEW c, NEW n \in Nat, NEW signed \in BOOLEAN, signed => n # 0,
         c.op = "bigIntegral", c.n = n, c.signed = signed
  PROVE  Kept(c, p, Perform(p, c))
<1> DEFINE r == Perform(p, c)
<1>1. r = BigIntegralLEorBE(p, n, signed, TRUE) /\ r = ConsumeBigIntegral(p, n, signed)
  BY DEF Perform, ConsumeBigIntegral
<1>2. /\ r \in UsedUp(p)
      /\ ByteBits * n <= Mantissa => Yields(r, Lowest(n, signed), Lowest(n, signed) + ValuesOf(n) - 1)
  BY <1>1, BigIntegralFacts
<1> HIDE DEF r
<1>3. ASSUME ByteBits * n <= Mantissa
      PROVE  /\ Within(r.out, Lowest(n, signed), Lowest(n, signed) + ValuesOf(n) - 1)
             /\ Cardinality(r.read) <= n
  <2>1. Yields(r, Lowest(n, signed), Lowest(n, signed) + ValuesOf(n) - 1)
    BY <1>2, <1>3
  <2> QED BY <1>1, <1>2, <1>3, <2>1, YieldsWithin, BigReads
<1>4. Promise(c, r)
  BY <1>3 DEF Promise
<1> QED BY <1>2, <1>4 DEF Kept, r

LEMMA RangeKept ==
  ASSUME NEW p \in Providers, NEW c, c.op \in {"inRange", "bigInRange"}, c.min \in Int, c.max \in Int
  PROVE  Kept(c, p, Perform(p, c))
<1> DEFINE r == Perform(p, c)
<1>1. \/ r = IntegralInRangeLEorBE(p, c.min, c.max, TRUE)
      \/ r = BigIntegralInRangeLEorBE(p, c.min, c.max, TRUE)
  BY DEF Perform, ConsumeIntegralInRange, ConsumeBigIntegralInRange
<1>2. r \in UsedUp(p) /\ Yields(r, c.min, c.max)
  BY <1>1, RangeFacts, BigRangeFacts
<1> HIDE DEF r
<1>3. Within(r.out, c.min, c.max)
  BY <1>2, YieldsWithin
<1>4. Promise(c, r)
  BY <1>3 DEF Promise
<1> QED BY <1>2, <1>4 DEF Kept, r

LEMMA FloatingKept ==
  ASSUME NEW p \in Providers, NEW c, c.op = "floating", c.min \in Doubles, c.max \in Doubles,
         c.n \in {FloatBytes, DoubleBytes}
  PROVE  Kept(c, p, Perform(p, c))
<1> DEFINE r == Perform(p, c)
           high == c.max + RoundingErrors * Ulp(Larger(Magnitude(c.min), Magnitude(c.max)))
<1>1. r = FloatingInRange(p, c.min, c.max, c.n)
  BY DEF Perform
<1>2. c.min \in Int /\ c.max \in Int /\ IsDouble(c.min) /\ IsDouble(c.max)
  BY DEF Doubles
<1>3. r \in UsedUp(p) /\ (~r.threw => Len(r.out) = 1 /\ r.out[1] \in c.min .. high)
  BY <1>1, <1>2, FloatingFacts
<1> HIDE DEF r
<1>4. ~r.threw => Within(r.out, c.min, high)
  <2>1. r.out \in Seq(Int)
    BY <1>3, FieldFacts
  <2> HIDE DEF high
  <2> QED BY <1>3, <2>1, OneWithin
<1>5. r.threw \/ Promise(c, r)
  BY <1>4 DEF Promise
<1> QED BY <1>3, <1>5 DEF Kept, r

LEMMA PickKept ==
  ASSUME NEW p \in Providers, NEW c, c.op = "pick", c.n \in Nat
  PROVE  Kept(c, p, Perform(p, c))
<1> DEFINE r == Perform(p, c)
<1>1. r = PickValue(p, c.n)
  BY DEF Perform
<1>2. r \in UsedUp(p) /\ (~r.threw => Len(r.out) = 1 /\ r.out[1] \in 0 .. c.n - 1)
  BY <1>1, PickValueFacts
<1> HIDE DEF r
<1>3. ~r.threw => Within(r.out, 0, c.n - 1)
  <2>1. r.out \in Seq(Int)
    BY <1>2, FieldFacts
  <2> QED BY <1>2, <2>1, OneWithin
<1>4. r.threw \/ Promise(c, r)
  BY <1>3 DEF Promise
<1> QED BY <1>2, <1>4 DEF Kept, r

LEMMA PicksKept ==
  ASSUME NEW p \in Providers, NEW c, c.op = "picks", c.size \in Nat, c.n \in Int
  PROVE  Kept(c, p, Perform(p, c))
<1> DEFINE r == Perform(p, c)
<1>1. r = PickValues(p, c.size, c.n)
  BY DEF Perform
<1>2. /\ r \in UsedUp(p)
      /\ ~r.threw => Len(r.out) = c.n /\ r.out \in Seq(1..c.size) /\ Distinct(r.out)
  BY <1>1, PicksFacts
<1> HIDE DEF r
<1>3. ASSUME ~r.threw PROVE Len(r.out) = c.n /\ IsInjective(r.out) /\ Within(r.out, 1, c.size)
  <2> DEFINE out == r.out
             S == 1..c.size
  <2>1. Len(out) = c.n /\ out \in Seq(S) /\ Distinct(out)
    BY <1>2, <1>3
  <2> HIDE DEF out, S
  <2>2. DOMAIN out = 1..Len(out) /\ \A i \in 1..Len(out) : out[i] \in S
    BY <2>1, ElementOfSeq, LenProperties
  <2>3. IsInjective(out) /\ Within(out, 1, c.size)
    BY <2>1, <2>2 DEF IsInjective, Distinct, Within, S
  <2> QED BY <2>1, <2>3 DEF out
<1>4. r.threw \/ Promise(c, r)
  BY <1>3 DEF Promise
<1> QED BY <1>2, <1>4 DEF Kept, r

LEMMA ShortKept ==
  ASSUME NEW p \in Providers, NEW c, c.op \in {"booleans", "bytes"}, c.n \in Int
  PROVE  Kept(c, p, Perform(p, c))
<1> DEFINE r == Perform(p, c)
           b == ConsumeBytes(p, c.n)
<1>1. r = Booleans(b) \/ r = b
  BY DEF Perform, ConsumeBooleans
<1>2. /\ b \in UsedUp(p)
      /\ IF c.n < 0 THEN b = Throws(p) ELSE ~b.threw /\ Len(b.out) <= c.n
  BY BytesFacts
<1> HIDE DEF r, b
<1>3. /\ Booleans(b) \in UsedUp(p) /\ Booleans(b).threw = b.threw
      /\ Len(Booleans(b).out) = Len(b.out)
  BY <1>2, BooleansFacts
<1>4. r \in UsedUp(p) /\ r.threw = b.threw /\ Len(r.out) = Len(b.out)
  BY <1>1, <1>2, <1>3
<1>5. CASE c.n < 0
  <2>1. b.threw
    BY <1>2, <1>5, ThrowsFacts
  <2>2. r.threw
    BY <1>4, <2>1, Zenon
  <2> QED BY <1>4, <2>2 DEF Kept, r
<1>6. CASE ~(c.n < 0)
  <2>1. AtMost(r.out, c.n)
    BY <1>2, <1>4, <1>6 DEF AtMost
  <2>2. Promise(c, r)
    BY <2>1 DEF Promise
  <2> QED BY <1>4, <2>2 DEF Kept, r
<1> QED BY <1>5, <1>6

LEMMA StringKept ==
  ASSUME NEW p \in Providers, NEW c, c.op = "string", c.n \in Int, c.printable \in BOOLEAN
  PROVE  Kept(c, p, Perform(p, c))
<1> DEFINE r == Perform(p, c)
           printable == c.printable
           max == c.n
<1>1. r = ConsumeString(p, max, printable)
  BY DEF Perform
<1>2. /\ r \in UsedUp(p)
      /\ IF max < 0 THEN r = Throws(p)
         ELSE /\ ~r.threw /\ Len(r.out) <= max
              /\ printable => \A i \in 1..Len(r.out) : r.out[i] \in 32..126
  <2>1. printable \in BOOLEAN /\ max \in Int
    OBVIOUS
  <2> HIDE DEF printable, max
  <2> QED BY <1>1, <2>1, StringFacts
<1> HIDE DEF r
<1>3. CASE max < 0
  <2>1. r.threw
    BY <1>2, <1>3, ThrowsFacts
  <2> QED BY <1>2, <2>1 DEF Kept, r
<1>4. CASE ~(max < 0)
  <2>1. AtMost(r.out, max)
    BY <1>2, <1>4 DEF AtMost
  <2>2. r.out \in Seq(Int)
    BY <1>2, FieldFacts
  <2>3. printable => Within(r.out, 32, 126)
    <3> SUFFICES ASSUME printable PROVE Within(r.out, 32, 126)
      OBVIOUS
    <3> DEFINE out == r.out
    <3>1. DOMAIN out = 1..Len(out)
      BY <2>2
    <3>2. \A i \in 1..Len(out) : out[i] \in 32..126
      BY <1>2, <1>4
    <3> QED BY <3>1, <3>2 DEF Within
  <2>4. Promise(c, r)
    BY <2>1, <2>3 DEF Promise
  <2> QED BY <1>2, <2>4 DEF Kept, r
<1> QED BY <1>3, <1>4

LEMMA ArraysKept ==
  ASSUME NEW p \in Providers, NEW c,
         \/ c.op \in {"integrals", "bigIntegrals"} /\ c.max \in Int /\ c.n \in Nat \ {0} /\ c.signed \in BOOLEAN
         \/ c.op = "numbers" /\ c.n \in Int
         \/ c.op = "strings" /\ c.max \in Int /\ c.n \in Int
  PROVE  Kept(c, p, Perform(p, c))
<1> DEFINE r == Perform(p, c)
<1>1. CASE c.op \in {"integrals", "bigIntegrals"} /\ c.max \in Int /\ c.n \in Nat \ {0} /\ c.signed \in BOOLEAN
  <2> DEFINE signed == c.signed
             width == c.n
             max == c.max
  <2>1. signed \in BOOLEAN /\ width \in Nat \ {0} /\ max \in Int
    BY <1>1
  <2>2. \/ r = ConsumeIntegrals(p, max, width, signed)
        \/ r = ConsumeBigIntegrals(p, max, width, signed)
    BY <1>1 DEF Perform
  <2> HIDE DEF r, signed, width, max
  <2>3. r \in UsedUp(p) /\ AtMost(r.out, max)
    <3>1. /\ AtMost(ConsumeIntegrals(p, max, width, signed).out, max)
          /\ AtMost(ConsumeBigIntegrals(p, max, width, signed).out, max)
      BY <2>1, IntegralsBounds
    <3>2. /\ ConsumeIntegrals(p, max, width, signed) \in UsedUp(p)
          /\ ConsumeBigIntegrals(p, max, width, signed) \in UsedUp(p)
      BY <2>1, ArraysUsed
    <3> QED BY <2>2, <3>1, <3>2
  <2>4. Promise(c, r)
    BY <1>1, <2>3 DEF Promise, max
  <2> QED BY <2>3, <2>4 DEF Kept, r
<1>2. CASE c.op = "numbers" /\ c.n \in Int
  <2>1. r = ConsumeNumbers(p, c.n)
    BY <1>2 DEF Perform
  <2> HIDE DEF r
  <2>2. r \in UsedUp(p) /\ AtMost(r.out, c.n * DoubleBytes)
    BY <1>2, <2>1, ArraysUsed, NumbersBounds
  <2>3. Promise(c, r)
    BY <1>2, <2>2 DEF Promise
  <2> QED BY <2>2, <2>3 DEF Kept, r
<1>3. CASE c.op = "strings" /\ c.max \in Int /\ c.n \in Int
  <2>1. r = ConsumeStringArray(p, c.max, c.n)
    BY <1>3 DEF Perform
  <2> HIDE DEF r
  <2>2. r \in UsedUp(p) /\ AtMost(r.out, c.max) /\ Within(r.out, 0, c.n)
    BY <1>3, <2>1, ArraysUsed, StringsBounds
  <2>3. Promise(c, r)
    BY <1>3, <2>2 DEF Promise
  <2> QED BY <2>2, <2>3 DEF Kept, r
<1> QED BY <1>1, <1>2, <1>3

LEMMA OthersKept ==
  ASSUME NEW p \in Providers, NEW c,
         \/ c.op \in {"boolean", "number", "rest"}
         \/ c.op = "restString" /\ c.printable \in BOOLEAN
  PROVE  Kept(c, p, Perform(p, c))
<1> DEFINE r == Perform(p, c)
<1>1. p.left \in Nat /\ p.left \in Int
  BY ProviderFacts
<1>2. Promise(c, r)
  <2>1. c.op \in {"boolean", "number", "rest", "restString"}
    OBVIOUS
  <2> HIDE DEF r
  <2> QED BY <2>1 DEF Promise
<1>3. r \in UsedUp(p)
  <2>1. CASE c.op = "boolean"
    BY <2>1, BooleanFacts DEF Perform
  <2>2. CASE c.op = "number"
    BY <2>2, NumberFacts DEF Perform
  <2>3. CASE c.op = "rest"
    <3>1. r = ConsumeBytes(p, p.left)
      BY <2>3 DEF Perform, ConsumeRemainingAsBytes
    <3> QED BY <1>1, <3>1, BytesFacts
  <2>4. CASE c.op = "restString" /\ c.printable \in BOOLEAN
    <3> DEFINE printable == c.printable
    <3>1. printable \in BOOLEAN
      BY <2>4
    <3>2. r = ConsumeString(p, p.left, printable)
      BY <2>4 DEF Perform, ConsumeRemainingAsString
    <3> HIDE DEF r, printable
    <3>3. r \in UsedUp(p)
      BY <1>1, <3>1, <3>2, StringFacts
    <3> QED BY <3>3 DEF r
  <2> QED BY <2>1, <2>2, <2>3, <2>4
<1> QED BY <1>2, <1>3 DEF Kept

LEMMA PerformKept ==
  ASSUME NEW p \in Providers, NEW c \in Readings
  PROVE  Kept(c, p, Perform(p, c))
<1>1. CASE c \in [op : {"integral"}, n : Int, signed : {FALSE}]
                  \cup [op : {"integral"}, n : Int \ {0}, signed : {TRUE}]
  <2> DEFINE n == c.n
             signed == c.signed
  <2>1. c.op = "integral" /\ n \in Int /\ signed \in BOOLEAN /\ (signed => n # 0)
    BY <1>1
  <2>2. c.n = n /\ c.signed = signed
    OBVIOUS
  <2> HIDE DEF n, signed
  <2> QED BY <2>1, <2>2, IntegralKept
<1>2. CASE c \in [op : {"bigIntegral"}, n : Nat, signed : {FALSE}]
                  \cup [op : {"bigIntegral"}, n : Nat \ {0}, signed : {TRUE}]
  <2> DEFINE n == c.n
             signed == c.signed
  <2>1. c.op = "bigIntegral" /\ n \in Nat /\ signed \in BOOLEAN /\ (signed => n # 0)
    BY <1>2
  <2>2. c.n = n /\ c.signed = signed
    OBVIOUS
  <2> HIDE DEF n, signed
  <2> QED BY <2>1, <2>2, BigIntegralKept
<1>3. CASE c \in [op : {"inRange", "bigInRange"}, min : Int, max : Int]
  BY <1>3, RangeKept
<1>4. CASE c \in {d \in [op : {"floating"}, min : Doubles, max : Doubles, n : {FloatBytes, DoubleBytes}] :
                      Span(d.min, d.max, d.n) <= MaxDouble}
  BY <1>4, FloatingKept
<1>5. CASE c \in [op : {"boolean", "number", "rest"}]
  BY <1>5, OthersKept
<1>6. CASE c \in [op : {"pick"}, n : Nat]
  BY <1>6, PickKept
<1>7. CASE c \in [op : {"picks"}, size : Nat, n : Int]
  BY <1>7, PicksKept
<1>8. CASE c \in [op : {"booleans", "bytes", "numbers"}, n : Int]
  <2>1. c.op \in {"booleans", "bytes"} \/ c.op = "numbers"
    BY <1>8
  <2>2. c.n \in Int
    BY <1>8
  <2> QED BY <2>1, <2>2, ShortKept, ArraysKept
<1>9. CASE c \in [op : {"string"}, n : Int, printable : BOOLEAN]
  BY <1>9, StringKept
<1>10. CASE c \in [op : {"restString"}, printable : BOOLEAN]
  BY <1>10, OthersKept
<1>11. CASE c \in [op : {"integrals", "bigIntegrals"}, max : Int, n : Nat \ {0}, signed : BOOLEAN]
  BY <1>11, ArraysKept
<1>12. CASE c \in [op : {"strings"}, max : Int, n : Int]
  BY <1>12, ArraysKept
<1> QED BY <1>1, <1>2, <1>3, <1>4, <1>5, <1>6, <1>7, <1>8, <1>9, <1>10, <1>11, <1>12 DEF Readings

-----------------------------------------------------------------------------
(* Constants.                                                              *)

Simple == [kind : {"Number", "String", "Boolean", "Undefined", "Null", "Function"}]

Deeper(T) == [kind : {"Object"}, fields : Seq(T)]
               \cup [kind : {"Array"}, element : T, sizeHint : Nat \cup {-1}]

LEMMA TypesFacts ==
  \A n \in 0..MaxDepth : Types[n] = Simple \cup (IF n = 0 THEN {} ELSE Deeper(Types[n - 1]))
<1> DEFINE Body(g, n) == Simple \cup (IF n = 0 THEN {} ELSE Deeper(g[n - 1]))
           Defined == {m \in Nat : m <= MaxDepth => \E g : g = [n \in 0..m |-> Body(g, n)]}
<1>1. MaxDepth \in Nat
  BY BoundsAssumption
<1>2. Types = CHOOSE g : g = [n \in 0..MaxDepth |-> Body(g, n)]
  BY DEF Types, Simple, Deeper
<1> HIDE DEF Body
<1>3. \A g, h : \A n \in Nat : (n # 0 => g[n - 1] = h[n - 1]) => Body(g, n) = Body(h, n)
  BY DEF Body
<1>4. 0 \in Defined
  <2> DEFINE e == [n \in 0..0 |-> Body(<<>>, n)]
  <2>1. \A n \in 0..0 : n = 0 /\ n \in Nat
    OBVIOUS
  <2>2. \A n \in 0..0 : Body(e, n) = Body(<<>>, n)
    BY <1>3, <2>1
  <2>3. e = [n \in 0..0 |-> Body(e, n)]
    BY <2>2
  <2> QED BY <2>3
<1>5. ASSUME NEW m \in Nat, m \in Defined PROVE m + 1 \in Defined
  <2> SUFFICES ASSUME m + 1 <= MaxDepth PROVE \E g : g = [n \in 0..(m + 1) |-> Body(g, n)]
    OBVIOUS
  <2>1. PICK g : g = [n \in 0..m |-> Body(g, n)]
    BY <1>1, <1>5
  <2> DEFINE h == [n \in 0..(m + 1) |-> Body(g, n)]
  <2>2. \A n \in 0..m : h[n] = Body(g, n) /\ g[n] = Body(g, n)
    <3>1. \A n \in 0..m : g[n] = Body(g, n)
      BY <2>1, Zenon
    <3>2. \A n \in 0..m : n \in 0..(m + 1)
      OBVIOUS
    <3> QED BY <3>1, <3>2
  <2>3. \A n \in 0..(m + 1) : n \in Nat /\ (n # 0 => n - 1 \in 0..m)
    OBVIOUS
  <2>4. h = [n \in 0..(m + 1) |-> Body(g, n)]
    OBVIOUS
  <2> HIDE DEF h
  <2>5. \A n \in 0..(m + 1) : Body(h, n) = Body(g, n)
    BY <1>3, <2>2, <2>3
  <2>6. h = [n \in 0..(m + 1) |-> Body(h, n)]
    BY <2>4, <2>5
  <2> QED BY <2>6
<1> HIDE DEF Defined
<1>6. Nat \subseteq Defined
  BY <1>4, <1>5, Induction
<1>7. \E g : g = [n \in 0..MaxDepth |-> Body(g, n)]
  BY <1>1, <1>6 DEF Defined
<1>8. Types = [n \in 0..MaxDepth |-> Body(Types, n)]
  BY <1>2, <1>7
<1>9. \A n \in 0..MaxDepth : Types[n] = Body(Types, n)
  BY <1>8, Zenon
<1> QED BY <1>9 DEF Body

LEMMA KindsFacts ==
  ASSUME NEW n \in 0..MaxDepth, NEW type \in Types[n]
  PROVE  \/ type.kind \in {"Number", "String", "Boolean", "Undefined", "Null", "Function"}
         \/ n # 0 /\ n - 1 \in 0..MaxDepth /\ type.kind = "Object" /\ type.fields \in Seq(Types[n - 1])
         \/ n # 0 /\ n - 1 \in 0..MaxDepth /\ type.kind = "Array" /\ type.element \in Types[n - 1]
            /\ type.sizeHint \in Nat \cup {-1}
<1>1. Types[n] = Simple \cup (IF n = 0 THEN {} ELSE Deeper(Types[n - 1]))
  BY TypesFacts
<1>2. n # 0 => n - 1 \in 0..MaxDepth
  BY BoundsAssumption
<1>3. CASE type \in Simple
  BY <1>3 DEF Simple
<1>4. CASE n # 0 /\ type \in Deeper(Types[n - 1])
  BY <1>2, <1>4 DEF Deeper
<1> QED BY <1>1, <1>3, <1>4

LEMMA SimpleLevel ==
  ASSUME NEW type, NEW p, NEW g, NEW h,
         type.kind \in {"Number", "String", "Boolean", "Undefined", "Null", "Function"}
  PROVE  Level(g, type, p) = Level(h, type, p)
BY DEF Level

LEMMA ConstantUnfolds ==
  \A n \in 0..MaxDepth : \A type \in Types[n] : \A p \in Providers :
    constant[n][type][p] = Level(constant[n - 1], type, p)
<1> DEFINE Body(g, n) == [type \in Types[n] |-> [p \in Providers |-> Level(g[n - 1], type, p)]]
           Defined == {m \in Nat : m <= MaxDepth => \E g : g = [n \in 0..m |-> Body(g, n)]}
<1>1. MaxDepth \in Nat
  BY BoundsAssumption
<1>2. constant = CHOOSE g : g = [n \in 0..MaxDepth |-> Body(g, n)]
  BY DEF constant
<1>3. ASSUME NEW n \in 0..MaxDepth, NEW g, NEW h, n # 0 => g[n - 1] = h[n - 1]
      PROVE  Body(g, n) = Body(h, n)
  <2>1. ASSUME NEW type \in Types[n], NEW p \in Providers
        PROVE  Level(g[n - 1], type, p) = Level(h[n - 1], type, p)
    <3>1. CASE n = 0
      <4>1. type.kind \in {"Number", "String", "Boolean", "Undefined", "Null", "Function"}
        BY <3>1, KindsFacts
      <4> QED BY <4>1, SimpleLevel
    <3>2. CASE n # 0
      BY <1>3, <3>2
    <3> QED BY <3>1, <3>2
  <2>2. \A type \in Types[n] : \A p \in Providers : Level(g[n - 1], type, p) = Level(h[n - 1], type, p)
    BY <2>1
  <2> QED BY <2>2, Zenon
<1> HIDE DEF Body
<1>4. 0 \in Defined
  <2> DEFINE e == [n \in 0..0 |-> Body(<<>>, n)]
  <2>1. \A n \in 0..0 : n = 0 /\ n \in 0..MaxDepth
    BY <1>1
  <2>2. \A n \in 0..0 : Body(e, n) = Body(<<>>, n)
    BY <1>3, <2>1
  <2>3. e = [n \in 0..0 |-> Body(e, n)]
    BY <2>2
  <2> QED BY <2>3
<1>5. ASSUME NEW m \in Nat, m \in Defined PROVE m + 1 \in Defined
  <2> SUFFICES ASSUME m + 1 <= MaxDepth PROVE \E g : g = [n \in 0..(m + 1) |-> Body(g, n)]
    OBVIOUS
  <2>1. PICK g : g = [n \in 0..m |-> Body(g, n)]
    BY <1>1, <1>5
  <2> DEFINE h == [n \in 0..(m + 1) |-> Body(g, n)]
  <2>2. \A n \in 0..m : h[n] = Body(g, n) /\ g[n] = Body(g, n)
    <3>1. \A n \in 0..m : g[n] = Body(g, n)
      BY <2>1, Zenon
    <3>2. \A n \in 0..m : n \in 0..(m + 1)
      OBVIOUS
    <3> QED BY <3>1, <3>2
  <2>3. \A n \in 0..(m + 1) : n \in 0..MaxDepth /\ (n # 0 => n - 1 \in 0..m)
    BY <1>1
  <2>4. h = [n \in 0..(m + 1) |-> Body(g, n)]
    OBVIOUS
  <2> HIDE DEF h
  <2>5. \A n \in 0..(m + 1) : Body(h, n) = Body(g, n)
    BY <1>3, <2>2, <2>3
  <2>6. h = [n \in 0..(m + 1) |-> Body(h, n)]
    BY <2>4, <2>5
  <2> QED BY <2>6
<1> HIDE DEF Defined
<1>6. Nat \subseteq Defined
  BY <1>4, <1>5, Induction
<1>7. \E g : g = [n \in 0..MaxDepth |-> Body(g, n)]
  BY <1>1, <1>6 DEF Defined
<1>8. constant = [n \in 0..MaxDepth |-> Body(constant, n)]
  BY <1>2, <1>7
<1>9. \A n \in 0..MaxDepth : constant[n] = Body(constant, n)
  BY <1>8, Zenon
<1>10. \A n \in 0..MaxDepth : \A type \in Types[n] : \A p \in Providers :
         Body(constant, n)[type][p] = Level(constant[n - 1], type, p)
  BY DEF Body
<1> QED BY <1>9, <1>10

(* A length within the bound can always be read.                           *)
LEMMA LengthFacts ==
  ASSUME NEW p \in Providers, NEW r, r = ConsumeIntegralInRange(p, 0, MaxLength)
  PROVE  r \in UsedUp(p) /\ ~r.threw /\ Len(r.out) = 1 /\ r.out[1] \in Nat
<1>1. MaxBytes \in Nat /\ MaxLength \in Nat /\ MaxLength < ValuesOf(MaxBytes)
  BY BoundsAssumption, WidthAssumption
<1> DEFINE signed == FALSE
<1>2. /\ Highest(MaxBytes, signed) = Lowest(MaxBytes, signed) + ValuesOf(MaxBytes) - 1
      /\ MaxBytes <= MaxBytes => Highest(MaxBytes, signed) < TwoTo[Mantissa]
  BY <1>1, Extents
<1>8. Lowest(MaxBytes, signed) = 0
  BY DEF Lowest
<1>3. TwoTo[Mantissa] \in Nat /\ ValuesOf(MaxBytes) \in Nat
  BY <1>1, WidthAssumption, PowerFacts, ValuesFacts
<1> HIDE DEF signed
<1>4. ValuesOf(MaxBytes) - 1 < TwoTo[Mantissa]
  <2>1. MaxBytes <= MaxBytes
    BY <1>1
  <2>2. Highest(MaxBytes, signed) = ValuesOf(MaxBytes) - 1
    BY <1>2, <1>3, <1>8
  <2> QED BY <1>2, <2>1, <2>2
<1>7. MaxLength < TwoTo[Mantissa] /\ MaxLength - 0 < ValuesOf(MaxBytes) /\ 0 <= MaxLength
  BY <1>1, <1>3, <1>4
<1>5. r = IntegralInRangeLEorBE(p, 0, MaxLength, TRUE) /\ 0 \in Int /\ MaxLength \in Int
  BY <1>1 DEF ConsumeIntegralInRange
<1>6. r \in UsedUp(p) /\ Yields(r, 0, MaxLength) /\ ~r.threw
  BY <1>5, <1>7, RangeFacts
<1> QED BY <1>1, <1>6 DEF Yields

(* A constant of a type can always be made, and uses up the bytes it reads.*)
LEMMA LevelFacts ==
  ASSUME NEW n \in 0..MaxDepth, NEW type \in Types[n], NEW p \in Providers, NEW inner,
         n # 0 => \A t \in Types[n - 1] : Reader(inner[t]) /\ Safe(inner[t])
  PROVE  Level(inner, type, p) \in UsedUp(p) /\ ~Level(inner, type, p).threw
<1> DEFINE length == IF type.sizeHint >= 0 THEN Returns(p, type.sizeHint)
                                           ELSE ConsumeIntegralInRange(p, 0, MaxLength)
           fields == [k \in DOMAIN type.fields |-> inner[type.fields[k]]]
<1>1. CASE type.kind = "Number"
  <2>1. Level(inner, type, p) = ConsumeNumber(p)
    BY <1>1 DEF Level
  <2> QED BY <2>1, NumberFacts
<1>2. CASE type.kind = "String"
  <2>1. Level(inner, type, p) = ConsumeString(p, MaxLength, TRUE)
    BY <1>2 DEF Level
  <2>2. MaxLength \in Int /\ ~(MaxLength < 0) /\ TRUE \in BOOLEAN
    BY BoundsAssumption
  <2>3. /\ ConsumeString(p, MaxLength, TRUE) \in UsedUp(p)
        /\ ~ConsumeString(p, MaxLength, TRUE).threw
    BY <2>2, StringFacts
  <2> QED BY <2>1, <2>3
<1>3. CASE type.kind = "Boolean"
  <2>1. Level(inner, type, p) = ConsumeBoolean(p)
    BY <1>3 DEF Level
  <2> QED BY <2>1, BooleanFacts
<1>4. CASE type.kind \in {"Undefined", "Null", "Function"}
  <2>1. Level(inner, type, p) = Result(p, <<>>, {}) /\ <<>> \in Seq(Int)
    BY <1>4 DEF Level, Unit
  <2>2. ~Result(p, <<>>, {}).threw
    BY DEF Result
  <2> QED BY <2>1, <2>2, StayFacts
<1>5. CASE n # 0 /\ type.kind = "Object" /\ type.fields \in Seq(Types[n - 1])
  <2>1. Level(inner, type, p) = InTurn(fields, p)
    BY <1>5 DEF Level
  <2>2. /\ DOMAIN type.fields = 1..Len(type.fields) /\ Len(type.fields) \in Nat
        /\ \A k \in 1..Len(type.fields) : type.fields[k] \in Types[n - 1]
    BY <1>5
  <2>3. \A k \in 1..Len(type.fields) : Reader(fields[k]) /\ Safe(fields[k])
    BY <1>5, <2>2
  <2>4. fields \in [1..Len(type.fields) -> {fields[k] : k \in 1..Len(type.fields)}]
    BY <2>2
  <2> HIDE DEF fields
  <2>5. Len(fields) = Len(type.fields)
    BY <2>2, <2>4, FunctionIsSeq
  <2> QED BY <2>1, <2>2, <2>3, <2>5, InTurnFacts
<1>6. CASE n # 0 /\ type.kind = "Array" /\ type.element \in Types[n - 1] /\ type.sizeHint \in Nat \cup {-1}
  <2>1. Level(inner, type, p) = Then(length, Repeat(inner[type.element], length.fdp, length.out[1]))
    BY <1>6 DEF Level
  <2>2. length \in UsedUp(p) /\ ~length.threw /\ length.out[1] \in Nat
    <3>1. CASE type.sizeHint >= 0
      <4>1. type.sizeHint \in Nat /\ type.sizeHint \in Int /\ length = Returns(p, type.sizeHint)
        BY <1>6, <3>1
      <4>2. length \in UsedUp(p) /\ ~length.threw /\ length.out = <<type.sizeHint>>
        BY <4>1, ReturnsFacts
      <4> QED BY <4>1, <4>2
    <3>2. CASE ~(type.sizeHint >= 0)
      BY <3>2, LengthFacts
    <3> QED BY <3>1, <3>2
  <2> HIDE DEF length
  <2>3. length.fdp \in Providers
    BY <2>2, FieldFacts
  <2>4. Reader(inner[type.element]) /\ Safe(inner[type.element])
    BY <1>6
  <2>5. /\ Repeat(inner[type.element], length.fdp, length.out[1]) \in UsedUp(length.fdp)
        /\ ~Repeat(inner[type.element], length.fdp, length.out[1]).threw
    BY <2>2, <2>3, <2>4, RepeatFacts
  <2> DEFINE elements == Repeat(inner[type.element], length.fdp, length.out[1])
  <2>6. Level(inner, type, p) = Then(length, elements) /\ elements \in UsedUp(length.fdp)
        /\ ~elements.threw
    BY <2>1, <2>5
  <2> HIDE DEF elements
  <2>7. /\ Then(length, elements) \in UsedUp(p)
        /\ Then(length, elements).threw = (length.threw \/ elements.threw)
    BY <2>2, <2>6, ThenFacts
  <2>8. ~Then(length, elements).threw
    BY <2>2, <2>6, <2>7, Zenon
  <2> QED BY <2>6, <2>7, <2>8, Zenon
<1>7. type.kind \in {"Number", "String", "Boolean", "Undefined", "Null", "Function"} =>
        type.kind \in {"Undefined", "Null", "Function"} \/ type.kind = "Number"
          \/ type.kind = "String" \/ type.kind = "Boolean"
  OBVIOUS
<1> HIDE DEF length, fields
<1>8. \/ type.kind \in {"Number", "String", "Boolean", "Undefined", "Null", "Function"}
      \/ n # 0 /\ type.kind = "Object" /\ type.fields \in Seq(Types[n - 1])
      \/ n # 0 /\ type.kind = "Array" /\ type.element \in Types[n - 1]
           /\ type.sizeHint \in Nat \cup {-1}
  BY KindsFacts
<1> QED BY <1>1, <1>2, <1>3, <1>4, <1>5, <1>6, <1>7, <1>8, Zenon

LEMMA ConstantFacts ==
  ASSUME NEW type \in Types[MaxDepth], NEW p \in Providers
  PROVE  Constant(p, type) \in UsedUp(p) /\ ~Constant(p, type).threw
<1> DEFINE Made(n) == \A t \in Types[n] : Reader(constant[n][t]) /\ Safe(constant[n][t])
           Good == {n \in Nat : n <= MaxDepth => Made(n)}
<1>1. MaxDepth \in Nat
  BY BoundsAssumption
<1>2. ASSUME NEW n \in 0..MaxDepth, n # 0 => Made(n - 1) PROVE Made(n)
  <2> SUFFICES ASSUME NEW t \in Types[n], NEW q \in Providers
               PROVE  constant[n][t][q] \in UsedUp(q) /\ ~constant[n][t][q].threw
    BY DEF Reader, Safe
  <2>1. constant[n][t][q] = Level(constant[n - 1], t, q)
    BY ConstantUnfolds
  <2> QED BY <1>2, <2>1, LevelFacts
<1> HIDE DEF Made
<1>3. 0 \in Good
  <2>1. 0 \in 0..MaxDepth
    BY <1>1
  <2>2. Made(0)
    BY <1>2, <2>1
  <2> QED BY <2>2
<1>4. ASSUME NEW n \in Nat, n \in Good PROVE n + 1 \in Good
  <2> SUFFICES ASSUME n + 1 <= MaxDepth PROVE Made(n + 1)
    OBVIOUS
  <2>1. n + 1 \in 0..MaxDepth /\ n <= MaxDepth /\ (n + 1) - 1 = n
    BY <1>1
  <2>2. Made(n)
    BY <1>4, <2>1
  <2> QED BY <1>2, <2>1, <2>2
<1> HIDE DEF Good
<1>5. Nat \subseteq Good
  BY <1>3, <1>4, Induction
<1>6. MaxDepth <= MaxDepth
  BY <1>1
<1>7. Made(MaxDepth)
  BY <1>1, <1>5, <1>6 DEF Good
<1> QED BY <1>7 DEF Made, Reader, Safe, Constant

-----------------------------------------------------------------------------
(* The arguments of a call.                                                *)

(* What an argument may name: a call whose result is filed under its ID.   *)
Names(arg) == "Output" \in DOMAIN arg => arg.Output \in DOMAIN objects
Filed == \A id \in DOMAIN objects : id \in Nat /\ objects[id] = id

LEMMA GetArgFacts ==
  ASSUME NEW p \in Providers, NEW arg \in Arguments, Filed, Names(arg)
  PROVE  /\ GetArg(p, arg) \in UsedUp(p) /\ ~GetArg(p, arg).threw
         /\ "Output" \in DOMAIN arg => GetArg(p, arg).out = <<arg.Output>>
<1>1. CASE "Output" \in DOMAIN arg
  <2>1. arg.Output \in Nat /\ objects[arg.Output] = arg.Output
    BY <1>1 DEF Names, Filed
  <2>2. GetArg(p, arg) = Returns(p, arg.Output)
    BY <1>1, <2>1 DEF GetArg, Names, Returns
  <2>3. arg.Output \in Int
    BY <2>1
  <2> QED BY <2>2, <2>3, ReturnsFacts
<1>2. CASE "Output" \notin DOMAIN arg
  <2>1. arg.Constant \in Types[MaxDepth]
    BY <1>2 DEF Arguments
  <2>2. GetArg(p, arg) = Constant(p, arg.Constant)
    BY <1>2 DEF GetArg
  <2> QED BY <1>2, <2>1, <2>2, ConstantFacts
<1> QED BY <1>1, <1>2

(* One more argument: its values are added, and those before it remain.    *)
Added(p, r, values, arg, a) ==
  /\ Then(r, a) \in UsedUp(p) /\ ~Then(r, a).threw
  /\ Append(values, a.out) \in Seq(Seq(Int)) /\ Len(Append(values, a.out)) = Len(values) + 1
  /\ \A i \in 1..Len(values) : Append(values, a.out)[i] = values[i]
  /\ "Output" \in DOMAIN arg => Append(values, a.out)[Len(values) + 1] = <<arg.Output>>

LEMMA NextArg ==
  ASSUME NEW p \in Providers, NEW r \in UsedUp(p), ~r.threw, NEW values \in Seq(Seq(Int)),
         NEW arg \in Arguments, Filed, Names(arg), NEW a, a = GetArg(r.fdp, arg)
  PROVE  Added(p, r, values, arg, a)
<1>1. r.fdp \in Providers
  BY FieldFacts
<1>2. /\ a \in UsedUp(r.fdp) /\ ~a.threw
      /\ "Output" \in DOMAIN arg => a.out = <<arg.Output>>
  BY <1>1, GetArgFacts
<1>3. Then(r, a) \in UsedUp(p) /\ Then(r, a).threw = (r.threw \/ a.threw)
  <2>1. Then(r, a) \in UsedUp(p)
    BY <1>2, ThenFacts
  <2>2. Then(r, a).threw = (r.threw \/ a.threw)
    BY <1>2, ThenFacts
  <2> QED BY <2>1, <2>2
<1>4. ~Then(r, a).threw
  BY <1>2, <1>3, Zenon
<1>5. a.out \in Seq(Int)
  BY <1>1, <1>2, FieldFacts
<1>6. /\ Append(values, a.out) \in Seq(Seq(Int)) /\ Len(Append(values, a.out)) = Len(values) + 1
      /\ \A i \in 1..Len(values) : Append(values, a.out)[i] = values[i]
      /\ Append(values, a.out)[Len(values) + 1] = a.out
  <2> DEFINE S == Seq(Int)
  <2>1. a.out \in S /\ values \in Seq(S)
    BY <1>5
  <2> HIDE DEF S
  <2>2. /\ Append(values, a.out) \in Seq(S) /\ Len(Append(values, a.out)) = Len(values) + 1
        /\ \A i \in 1..Len(values) : Append(values, a.out)[i] = values[i]
        /\ Append(values, a.out)[Len(values) + 1] = a.out
    BY <2>1
  <2> QED BY <2>2 DEF S
<1> QED BY <1>2, <1>3, <1>4, <1>6 DEF Added

(* The arguments of a call of a valid sequence are all made, and those     *)
(* that name calls are the results of these.                               *)
LEMMA GetArgsFacts ==
  ASSUME NEW p \in Providers, NEW args \in Seq(Arguments), Filed, \A k \in 1..Len(args) : Names(args[k])
  PROVE  LET a == GetArgs(p, args)
         IN /\ a.r \in UsedUp(p) /\ ~a.r.threw
            /\ \A k \in 1..Len(args) : "Output" \in DOMAIN args[k] => a.values[k] = <<args[k].Output>>
<1> DEFINE n == Len(args)
           S == {y \in [r : UsedUp(p), values : Seq(Seq(Int))] : ~y.r.threw}
           start == [r |-> Unit(p), values |-> <<>>]
           next(k, y) == [r      |-> Then(y.r, GetArg(y.r.fdp, args[k])),
                          values |-> Append(y.values, GetArg(y.r.fdp, args[k]).out)]
           step == [k \in 1..n |-> [y \in S |-> next(k, y)]]
           Body(g, k) == IF k = 0 THEN start ELSE next(k, g[k - 1])
           d == CHOOSE g : g = [k \in 0..n |-> Body(g, k)]
           Upto(y, k) == /\ y \in S /\ Len(y.values) = k
                         /\ \A i \in 1..k : "Output" \in DOMAIN args[i] => y.values[i] = <<args[i].Output>>
<1>1. n \in Nat /\ \A k \in 1..n : args[k] \in Arguments /\ Names(args[k])
  OBVIOUS
<1>2. Upto(start, 0)
  <2>1. <<>> \in Seq(Int) /\ <<>> \in Seq(Seq(Int)) /\ Len(<<>>) = 0
    OBVIOUS
  <2>2. Unit(p) \in UsedUp(p) /\ ~Unit(p).threw
    BY <2>1, StayFacts DEF Unit, Result
  <2> QED BY <2>1, <2>2
<1>3. ASSUME NEW k \in 1..n, NEW y \in S
      PROVE  next(k, y) \in S /\ (Upto(y, k - 1) => Upto(next(k, y), k))
  <2> DEFINE a == GetArg(y.r.fdp, args[k])
  <2>1. y.r \in UsedUp(p) /\ ~y.r.threw /\ y.values \in Seq(Seq(Int))
    OBVIOUS
  <2>2. args[k] \in Arguments /\ Names(args[k])
    BY <1>1
  <2>3. /\ Then(y.r, a) \in UsedUp(p) /\ ~Then(y.r, a).threw
        /\ Append(y.values, a.out) \in Seq(Seq(Int))
        /\ Len(Append(y.values, a.out)) = Len(y.values) + 1
        /\ \A i \in 1..Len(y.values) : Append(y.values, a.out)[i] = y.values[i]
        /\ "Output" \in DOMAIN args[k] =>
             Append(y.values, a.out)[Len(y.values) + 1] = <<args[k].Output>>
    <3> DEFINE r == y.r
               values == y.values
               arg == args[k]
    <3>1. /\ r \in UsedUp(p) /\ ~r.threw /\ values \in Seq(Seq(Int))
          /\ arg \in Arguments /\ Names(arg) /\ a = GetArg(r.fdp, arg)
      BY <2>1, <2>2
    <3> HIDE DEF r, values, arg, a
    <3>2. Added(p, r, values, arg, a)
      BY <3>1, NextArg
    <3> QED BY <3>2 DEF r, values, arg, Added
  <2>4. next(k, y).r = Then(y.r, a) /\ next(k, y).values = Append(y.values, a.out)
        /\ next(k, y) = [r |-> Then(y.r, a), values |-> Append(y.values, a.out)]
    OBVIOUS
  <2> HIDE DEF a, next
  <2>5. next(k, y) \in S
    BY <2>3, <2>4
  <2>6. ASSUME Upto(y, k - 1) PROVE Upto(next(k, y), k)
    <3>1. Len(y.values) = k - 1 /\ k - 1 \in Nat /\ (k - 1) + 1 = k
      BY <2>6
    <3>2. \A i \in 1..k : i \in 1..(k - 1) \/ i = k
      OBVIOUS
    <3>3. ASSUME NEW i \in 1..k, "Output" \in DOMAIN args[i]
          PROVE  next(k, y).values[i] = <<args[i].Output>>
      <4>1. CASE i = k
        BY <2>3, <2>4, <3>1, <3>3, <4>1
      <4>2. CASE i \in 1..(k - 1)
        BY <2>3, <2>4, <2>6, <3>1, <3>3, <4>2
      <4> QED BY <3>2, <4>1, <4>2
    <3>4. Len(next(k, y).values) = k
      BY <2>3, <2>4, <3>1
    <3> QED BY <2>5, <3>3, <3>4
  <2> QED BY <2>5, <2>6
<1>4. GetArgs(p, args) = d[n]
  BY DEF GetArgs
<1>5. \A y : Upto(y, 0) => y \in S
  OBVIOUS
<1> HIDE DEF S, start, next, n
<1>6. PICK f \in [0..n -> S] : Iterates(f, 0..n, start, step)
  <2>1. \A k \in 1..n : \A y \in S : step[k][y] \in S
    BY <1>3
  <2>2. start \in S
    BY <1>2, <1>5
  <2> HIDE DEF step, Upto
  <2> QED BY <1>1, <2>1, <2>2, IterationTo
<1>7. f = [k \in 0..n |-> Body(f, k)]
  <2>1. f = [k \in 0..n |-> IF k = 0 THEN start ELSE step[k][f[k - 1]]]
    BY <1>6 DEF Iterates
  <2>2. \A k \in 0..n : k # 0 => k \in 1..n /\ f[k - 1] \in S
    BY <1>1
  <2>3. \A k \in 0..n : (IF k = 0 THEN start ELSE step[k][f[k - 1]]) = Body(f, k)
    BY <2>2
  <2> QED BY <2>1, <2>3
<1> HIDE DEF Body
<1>8. d = [k \in 0..n |-> Body(d, k)]
  BY <1>7
<1> HIDE DEF d
<1>9. \A k \in 0..n : d[k] = Body(d, k)
  BY <1>8, Zenon
<1>10. d[0] = start /\ \A k \in 1..n : d[k] = next(k, d[k - 1])
  BY <1>1, <1>9 DEF Body
<1>11. \A y, k : Upto(y, k) => y \in S
  OBVIOUS
<1> HIDE DEF Upto
<1> DEFINE Good == {k \in Nat : k <= n => Upto(d[k], k)}
<1>12. 0 \in Good
  BY <1>2, <1>10
<1>13. ASSUME NEW k \in Nat, k \in Good PROVE k + 1 \in Good
  <2> SUFFICES ASSUME k + 1 <= n PROVE Upto(d[k + 1], k + 1)
    OBVIOUS
  <2>1. k + 1 \in 1..n /\ (k + 1) - 1 = k /\ Upto(d[k], k)
    BY <1>1, <1>13
  <2>2. d[k + 1] = next(k + 1, d[k])
    BY <1>10, <2>1
  <2>3. d[k] \in S
    BY <1>11, <2>1
  <2> QED BY <1>3, <2>1, <2>2, <2>3
<1> HIDE DEF Good
<1>14. n \in Good
  BY <1>1, <1>12, <1>13, Induction
<1>15. Upto(d[n], n)
  BY <1>1, <1>14 DEF Good
<1> QED BY <1>4, <1>15 DEF Upto, S, n

-----------------------------------------------------------------------------
(* The inductive invariant.                                                *)

(* The latest read is what its call returns on the provider before it.     *)
Honest(u) ==
  LET r == Perform(u.before, u.call)
  IN /\ u.before \in Providers /\ u.call \in Readings /\ u.op = u.call.op
     /\ u.out = r.out /\ u.threw = r.threw /\ u.read = r.read

UsedInv ==
  /\ fdp \in Providers
  /\ used.op \in {"none", "args"} \/ Honest(used)

(* The results of the calls that returned are filed, no other.             *)
Before(s, n) == {s[j].id : j \in 1 .. n - 1}

Passes(arg, values) == "Output" \in DOMAIN arg => values = <<arg.Output>>

CallsInv ==
  /\ mode \in {"bytes", "sequence"} /\ ~thrown.own
  /\ seq \in Seq(Calls) /\ IsValid(seq) /\ at \in 1 .. Len(seq) + 1
  /\ objects = [id \in Before(seq, at) |-> id]
  /\ phase = "call" \/ (phase = "target" /\ mode = "sequence") => at <= Len(seq)
  /\ mode = "sequence" /\ phase = "target" =>
       \A i \in DOMAIN seq[at].args : Passes(seq[at].args[i], passed[i])

HitsInv ==
  /\ edges \in Nat /\ hit \in SUBSET Nat
  /\ shm = [valid |-> shm.valid, calls |-> shm.calls, total |-> shm.total, coverage |-> shm.coverage]
  /\ shm.coverage \in [0..MapSize-1 -> Nat] /\ shm.total \in Nat /\ shm.total <= edges
  /\ attached => \A k \in 0..MapSize-1 : shm.coverage[k] # 0 <=> \E e \in hit : e % MapSize = k

IInv == UsedInv /\ CallsInv /\ HitsInv

LEMMA NewFacts ==
  ASSUME NEW b \in Bytes
  PROVE  New(b) \in Providers
<1>1. Len(b) \in Nat /\ -1 \in Int /\ 0 \in Int
  BY DEF Bytes
<1>2. New(b) \in [data : Bytes, ptr : Int, left : Nat] /\ New(b).data = b
  BY <1>1 DEF New
<1>3. b # <<>> => New(b).ptr = 0 /\ New(b).left = Len(b)
  BY DEF New
<1>4. b = <<>> => New(b) = New(<<>>)
  OBVIOUS
<1> HIDE DEF New
<1> QED BY <1>1, <1>2, <1>3, <1>4 DEF Providers

LEMMA EmptyFacts ==
  /\ <<>> \in Bytes /\ <<>> \in Seq(Calls) /\ Len(<<>>) = 0 /\ IsValid(<<>>)
  /\ Empty = [id \in Before(<<>>, 1) |-> id] /\ \A s : Empty = [id \in Before(s, 1) |-> id]
<1>1. <<>> \in Bytes /\ <<>> \in Seq(Calls) /\ Len(<<>>) = 0
  BY DEF Bytes
<1>2. IsValid(<<>>)
  BY <1>1 DEF IsValid
<1>3. \A s : Before(s, 1) = {}
  BY DEF Before
<1> QED BY <1>1, <1>2, <1>3 DEF Empty

LEMMA OpFacts ==
  ASSUME NEW c \in Readings
  PROVE  c.op \notin {"none", "args"}
BY DEF Readings

(* The call of a valid sequence that is about to be made.                  *)
LEMMA NextCall ==
  ASSUME CallsInv, at <= Len(seq)
  PROVE  /\ at \in 1..Len(seq) /\ seq[at] \in Calls /\ seq[at].args \in Seq(Arguments) /\ seq[at].id \in Nat
         /\ Filed /\ \A k \in 1..Len(seq[at].args) : Names(seq[at].args[k])
         /\ ~(seq[at].conv = "Method" /\ seq[at].args = <<>>)
         /\ DOMAIN objects = Before(seq, at) /\ seq[at].id \notin Before(seq, at)
<1>1. seq \in Seq(Calls) /\ IsValid(seq) /\ at \in 1 .. Len(seq) + 1
      /\ objects = [id \in Before(seq, at) |-> id] /\ Len(seq) \in Nat
  BY DEF CallsInv
<1>2. at \in 1..Len(seq) /\ \A j \in 1..Len(seq) : seq[j] \in Calls
  BY <1>1
<1>3. \A j \in 1..Len(seq) : seq[j].id \in Nat /\ seq[j].args \in Seq(Arguments)
  BY <1>2 DEF Calls
<1>4. DOMAIN objects = Before(seq, at) /\ \A id \in Before(seq, at) : objects[id] = id
  BY <1>1
<1>5. \A j \in 1 .. at - 1 : j \in 1..Len(seq)
  BY <1>2
<1>6. Filed
  BY <1>3, <1>4, <1>5 DEF Filed, Before
<1>7. ASSUME NEW k \in 1..Len(seq[at].args) PROVE Names(seq[at].args[k])
  <2>1. DOMAIN seq[at].args = 1..Len(seq[at].args)
    BY <1>2, <1>3
  <2>2. "Output" \in DOMAIN seq[at].args[k] =>
          \E j \in 1 .. at - 1 : seq[j].id = seq[at].args[k].Output
    BY <1>1, <1>2, <2>1 DEF IsValid
  <2> QED BY <1>4, <2>2 DEF Names, Before
<1>8. /\ ~(seq[at].conv = "Method" /\ seq[at].args = <<>>)
      /\ \A j \in 1 .. at - 1 : seq[j].id # seq[at].id
  BY <1>1, <1>2 DEF IsValid
<1>9. seq[at].id \notin Before(seq, at)
  BY <1>8 DEF Before
<1> QED BY <1>2, <1>3, <1>4, <1>6, <1>7, <1>8, <1>9

(* Its arguments are all made, from bytes that are used up.                *)
LEMMA ArgsMade ==
  ASSUME UsedInv, CallsInv, phase = "call", NEW a, a = GetArgs(fdp, seq[at].args)
  PROVE  /\ a.r \in UsedUp(fdp) /\ ~a.r.threw
         /\ ~(a.r.threw \/ (seq[at].conv = "Method" /\ seq[at].args = <<>>))
         /\ \A i \in DOMAIN seq[at].args : Passes(seq[at].args[i], a.values[i])
<1>1. at <= Len(seq) /\ fdp \in Providers
  BY DEF CallsInv, UsedInv
<1> DEFINE args == seq[at].args
<1>2. /\ args \in Seq(Arguments) /\ Filed /\ \A k \in 1..Len(args) : Names(args[k])
      /\ ~(seq[at].conv = "Method" /\ args = <<>>)
  BY <1>1, NextCall
<1> HIDE DEF args
<1>3. /\ a.r \in UsedUp(fdp) /\ ~a.r.threw
      /\ \A k \in 1..Len(args) : "Output" \in DOMAIN args[k] => a.values[k] = <<args[k].Output>>
  <2>1. a = GetArgs(fdp, args)
    BY DEF args
  <2> QED BY <1>1, <1>2, <2>1, GetArgsFacts
<1>4. DOMAIN args = 1..Len(args)
  BY <1>2
<1> QED BY <1>2, <1>3, <1>4 DEF args, Passes

LEMMA UsedInit == Init => UsedInv
BY NewFacts, EmptyFacts DEF Init, UsedInv, NotRead

LEMMA UsedStep ==
  ASSUME IInv, [Next]_vars
  PROVE  UsedInv'
<1> USE DEF IInv
<1>1. fdp \in Providers /\ (used.op \in {"none", "args"} \/ Honest(used))
  BY DEF UsedInv
<1>2. NotRead.op = "none"
  BY DEF NotRead
<1>3. CASE Execute
  <2>1. PICK b \in Buffers : fdp' = New(b)
    BY <1>3 DEF Execute
  <2>2. used' = NotRead
    BY <1>3 DEF Execute
  <2>3. fdp' \in Providers
    BY <2>1, BuffersAssumption, NewFacts
  <2> QED BY <1>2, <2>2, <2>3 DEF UsedInv
<1>4. CASE ReadBytes
  <2>1. PICK c \in Reads :
          LET r == Perform(fdp, c)
          IN /\ fdp' = r.fdp
             /\ used' = [op |-> c.op, call |-> c, before |-> fdp, out |-> r.out,
                         threw |-> r.threw, read |-> r.read]
    BY <1>4 DEF ReadBytes
  <2> DEFINE r == Perform(fdp, c)
  <2>2. c \in Readings
    BY ReadsAssumption
  <2>3. r \in UsedUp(fdp)
    BY <1>1, <2>2, PerformKept DEF Kept
  <2>4. fdp' \in Providers
    BY <1>1, <2>1, <2>3, FieldFacts
  <2>5. /\ used'.before = fdp /\ used'.call = c /\ used'.op = c.op
        /\ used'.out = r.out /\ used'.threw = r.threw /\ used'.read = r.read
    BY <2>1
  <2>6. Honest(used')
    BY <1>1, <2>2, <2>5 DEF Honest
  <2> QED BY <2>4, <2>6 DEF UsedInv, Honest
<1>5. CASE Call
  <2> DEFINE a == GetArgs(fdp, seq[at].args)
  <2>1. fdp' = a.r.fdp /\ used'.op = "args"
    BY <1>5 DEF Call
  <2>2. a.r \in UsedUp(fdp)
    BY <1>5, ArgsMade DEF Call
  <2>3. fdp' \in Providers
    BY <1>1, <2>1, <2>2, FieldFacts
  <2> QED BY <2>1, <2>3 DEF UsedInv
<1>6. CASE Returned
  BY <1>1, <1>2, <1>6 DEF Returned, UsedInv
<1>7. CASE Threw
  BY <1>1, <1>2, <1>7 DEF Threw, UsedInv
<1>8. CASE Settle
  BY <1>2, <1>8, NewFacts, EmptyFacts DEF Settle, UsedInv
<1>9. CASE UNCHANGED <<fdp, used>>
  BY <1>1, <1>9 DEF UsedInv
<1> QED BY <1>3, <1>4, <1>5, <1>6, <1>7, <1>8, <1>9 DEF Next, vars, run, Load, RecordHit

LEMMA CallsInit == Init => CallsInv
<1> SUFFICES ASSUME Init PROVE CallsInv
  OBVIOUS
<1>1. /\ mode \in {"bytes", "sequence"} /\ ~thrown.own
      /\ seq = <<>> /\ at = 1 /\ objects = Empty /\ phase = "idle"
  BY DEF Init, Nothing
<1> QED BY <1>1, EmptyFacts DEF CallsInv

LEMMA CallsStep ==
  ASSUME IInv, [Next]_vars
  PROVE  CallsInv'
<1> USE DEF IInv
<1>1. /\ ~thrown.own /\ seq \in Seq(Calls) /\ IsValid(seq) /\ at \in 1 .. Len(seq) + 1
      /\ objects = [id \in Before(seq, at) |-> id] /\ mode \in {"bytes", "sequence"}
  BY DEF CallsInv
<1>10. UNCHANGED mode \/ mode' \in {"bytes", "sequence"}
  BY <1>1 DEF Next, Execute, ReadBytes, Call, Returned, Threw, Settle, Load, RecordHit, vars
<1>2. ~Nothing.own
  BY DEF Nothing
<1>3. CASE Execute
  <2>1. thrown' = Nothing /\ at' = 1 /\ objects' = Empty
    BY <1>3 DEF Execute
  <2>2. \/ mode' = "bytes" /\ phase' = "target" /\ seq' = <<>>
        \/ seq' \in Seqs /\ phase' = IF seq' = <<>> THEN "settle" ELSE "call"
    BY <1>3 DEF Execute
  <2>3. seq' \in Seq(Calls) /\ IsValid(seq')
    BY <2>2, EmptyFacts, SeqsAssumption
  <2>4. Len(seq') \in Nat /\ (seq' # <<>> => 1 <= Len(seq'))
    BY <2>3
  <2>5. objects' = [id \in Before(seq', at') |-> id]
    BY <2>1, EmptyFacts
  <2>6. ~(phase' = "target" /\ mode' = "sequence") /\ (phase' = "call" => seq' # <<>>)
    BY <2>2
  <2>7. IsValid(seq)'
    BY <2>3 DEF IsValid
  <2>8. (objects = [id \in Before(seq, at) |-> id])'
    BY <2>5 DEF Before
  <2> QED BY <1>1, <1>10, <1>2, <2>1, <2>3, <2>4, <2>6, <2>7, <2>8 DEF CallsInv
<1>4. CASE Call
  <2> DEFINE a == GetArgs(fdp, seq[at].args)
  <2>1. phase = "call"
    BY <1>4 DEF Call
  <2>2. /\ ~(a.r.threw \/ (seq[at].conv = "Method" /\ seq[at].args = <<>>))
        /\ \A i \in DOMAIN seq[at].args : Passes(seq[at].args[i], a.values[i])
    BY <2>1, ArgsMade
  <2>3. passed' = a.values /\ thrown' = thrown /\ phase' = "target"
        /\ UNCHANGED <<mode, seq, at, objects>>
    BY <1>4, <2>2 DEF Call
  <2>4. at <= Len(seq)
    BY <2>1 DEF CallsInv
  <2> QED BY <1>1, <2>2, <2>3, <2>4 DEF CallsInv, Passes, IsValid, Before
<1>5. CASE Returned
  <2>1. CASE mode = "bytes"
    BY <1>1, <1>5, <2>1 DEF Returned, Settles, CallsInv, IsValid, Before
  <2>2. CASE mode # "bytes" /\ at <= Len(seq)
    <3> DEFINE id0 == seq[at].id
    <3>1. /\ at \in 1..Len(seq) /\ DOMAIN objects = Before(seq, at) /\ id0 \notin Before(seq, at)
      BY <2>2, NextCall
    <3>2. /\ objects' = [id \in DOMAIN objects \cup {id0} |-> IF id = id0 THEN id ELSE objects[id]]
          /\ at' = at + 1 /\ phase' = (IF at = Len(seq) THEN "settle" ELSE "call")
          /\ thrown' = thrown /\ UNCHANGED <<mode, seq>>
      BY <1>5, <2>2, <3>1 DEF Returned
    <3>3. Before(seq, at + 1) = Before(seq, at) \cup {id0}
      <4>1. \A j : j \in 1 .. (at + 1) - 1 <=> j \in 1 .. at - 1 \/ j = at
        BY <3>1
      <4> QED BY <4>1 DEF Before
    <3>4. objects' = [id \in Before(seq, at + 1) |-> id]
      <4>1. \A id \in Before(seq, at) \cup {id0} : (IF id = id0 THEN id ELSE objects[id]) = id
        BY <1>1
      <4> QED BY <3>1, <3>2, <3>3, <4>1
    <3>5. (objects = [id \in Before(seq, at) |-> id])'
      <4>1. seq' = seq /\ at' = at + 1
        BY <3>2
      <4>2. Before(seq, at + 1) = Before(seq, at)'
        BY <4>1 DEF Before
      <4> QED BY <3>4, <4>2
    <3>6. at' \in 1 .. Len(seq) + 1 /\ (phase' = "call" => at' <= Len(seq)) /\ phase' # "target"
      BY <3>1, <3>2
    <3> QED BY <1>1, <3>2, <3>5, <3>6 DEF CallsInv, IsValid
  <2>3. mode # "bytes" => at <= Len(seq)
    BY <1>5 DEF Returned, CallsInv
  <2> QED BY <2>1, <2>2, <2>3
<1>6. CASE Threw
  <2>1. ~thrown'.own /\ phase' = "settle" /\ UNCHANGED <<mode, seq, at, objects>>
    BY <1>6 DEF Threw, Settles
  <2> QED BY <1>1, <2>1 DEF CallsInv, IsValid, Before
<1>7. CASE Settle
  <2>1. thrown' = Nothing /\ phase' = "idle" /\ seq' = <<>> /\ at' = 1 /\ objects' = Empty
    BY <1>7 DEF Settle
  <2>2. IsValid(seq)'
    BY <2>1, EmptyFacts DEF IsValid
  <2>3. (objects = [id \in Before(seq, at) |-> id])'
    BY <2>1, EmptyFacts DEF Before
  <2> QED BY <1>1, <1>10, <1>2, <2>1, <2>2, <2>3, EmptyFacts DEF CallsInv
<1>8. CASE UNCHANGED <<mode, phase, seq, at, objects, passed, thrown>>
  BY <1>8 DEF CallsInv, Passes, IsValid, Before
<1>9. ReadBytes => UNCHANGED <<mode, phase, seq, at, objects, passed, thrown>>
  BY DEF ReadBytes
<1> QED BY <1>3, <1>4, <1>5, <1>6, <1>7, <1>8, <1>9 DEF Next, vars, run, Load, RecordHit

LEMMA HitsInit == Init => HitsInv
<1> SUFFICES ASSUME Init PROVE HitsInv
  OBVIOUS
<1>1. /\ edges = 0 /\ hit = {} /\ shm.total = 0 /\ shm.coverage = [k \in 0..MapSize-1 |-> 0]
      /\ shm = [valid |-> shm.valid, calls |-> shm.calls, total |-> shm.total, coverage |-> shm.coverage]
  BY DEF Init
<1> QED BY <1>1 DEF HitsInv

LEMMA HitsStep ==
  ASSUME IInv, [Next]_vars
  PROVE  HitsInv'
<1> USE DEF IInv
<1>1. MapSize \in Nat \ {0} /\ HitLimit \in Nat \ {0}
  BY BoundsAssumption
<1>2. /\ edges \in Nat /\ hit \in SUBSET Nat
      /\ shm = [valid |-> shm.valid, calls |-> shm.calls, total |-> shm.total, coverage |-> shm.coverage]
      /\ shm.coverage \in [0..MapSize-1 -> Nat] /\ shm.total \in Nat /\ shm.total <= edges
      /\ attached => \A k \in 0..MapSize-1 : shm.coverage[k] # 0 <=> \E e \in hit : e % MapSize = k
  BY DEF HitsInv
<1>3. CASE Execute
  <2>1. /\ hit' = {} /\ UNCHANGED <<attached, edges>>
        /\ shm' = IF attached THEN [shm EXCEPT !.coverage = [k \in 0..MapSize-1 |-> 0]] ELSE shm
    BY <1>3 DEF Execute
  <2>2. CASE attached
    <3>1. shm' = [valid |-> shm.valid, calls |-> shm.calls, total |-> shm.total,
                  coverage |-> [k \in 0..MapSize-1 |-> 0]]
      BY <1>2, <2>1, <2>2
    <3> DEFINE zeros == [k \in 0..MapSize-1 |-> 0]
    <3>2. zeros \in [0..MapSize-1 -> Nat] /\ \A k \in 0..MapSize-1 : zeros[k] = 0
      OBVIOUS
    <3>3. shm'.total = shm.total /\ shm'.coverage = zeros
          /\ shm' = [valid |-> shm'.valid, calls |-> shm'.calls, total |-> shm'.total,
                     coverage |-> shm'.coverage]
      BY <3>1
    <3> HIDE DEF zeros
    <3> QED BY <1>2, <2>1, <3>2, <3>3 DEF HitsInv
  <2>3. CASE ~attached
    BY <1>2, <2>1, <2>3 DEF HitsInv
  <2> QED BY <2>2, <2>3
<1>4. CASE Settle
  <2> DEFINE valid == thrown = Nothing \/ IsBug(thrown)
             calls == IF mode = "bytes" THEN shm.calls ELSE made
  <2>1. /\ UNCHANGED <<attached, edges, hit>>
        /\ shm' = IF attached THEN [shm EXCEPT !.valid = valid, !.calls = calls] ELSE shm
    BY <1>4 DEF Settle
  <2> HIDE DEF valid, calls
  <2>2. shm'.total = shm.total /\ shm'.coverage = shm.coverage
        /\ shm' = [valid |-> shm'.valid, calls |-> shm'.calls, total |-> shm'.total,
                   coverage |-> shm'.coverage]
    BY <1>2, <2>1
  <2> QED BY <1>2, <2>1, <2>2 DEF HitsInv
<1>5. ASSUME NEW intercepted \in BOOLEAN, NEW n \in 1..MaxEdges, Load(intercepted, n)
      PROVE  HitsInv'
  <2>1. /\ edges' = (IF intercepted THEN edges + n ELSE edges) /\ UNCHANGED <<attached, shm, hit>>
        /\ n \in Nat
    BY <1>5, BoundsAssumption DEF Load, run
  <2>2. edges' \in Nat /\ edges <= edges'
    BY <1>2, <2>1
  <2>3. shm.total <= edges'
    BY <1>2, <2>2
  <2> QED BY <1>2, <2>1, <2>2, <2>3 DEF HitsInv
<1>6. ASSUME NEW e \in 0..MaxEdges-1, RecordHit(e)
      PROVE  HitsInv'
  <2> DEFINE slot == e % MapSize
  <2>1. /\ shm' = [shm EXCEPT !.total = edges, !.coverage[e % MapSize] = Bumped(@)]
        /\ hit' = hit \cup {e} /\ UNCHANGED <<attached, edges>> /\ attached
    BY <1>6 DEF RecordHit, run
  <2>2. e \in Nat /\ slot \in 0..MapSize-1
    BY <1>1, BoundsAssumption
  <2>3. shm'.total = edges /\ shm'.coverage = [shm.coverage EXCEPT ![slot] = Bumped(@)]
        /\ shm' = [valid |-> shm'.valid, calls |-> shm'.calls, total |-> shm'.total,
                   coverage |-> shm'.coverage]
    BY <1>2, <2>1
  <2>4. Bumped(shm.coverage[slot]) \in Nat /\ Bumped(shm.coverage[slot]) # 0
    BY <1>1, <1>2, <2>2 DEF Bumped
  <2> HIDE DEF slot
  <2>5. shm'.coverage \in [0..MapSize-1 -> Nat]
    BY <1>2, <2>2, <2>3, <2>4
  <2>6. \A k \in 0..MapSize-1 : shm'.coverage[k] = IF k = slot THEN Bumped(shm.coverage[k]) ELSE shm.coverage[k]
    BY <1>2, <2>3
  <2>7. ASSUME NEW k \in 0..MapSize-1
        PROVE  shm'.coverage[k] # 0 <=> \E d \in hit' : d % MapSize = k
    <3>1. CASE k = slot
      BY <2>1, <2>4, <2>6, <3>1 DEF slot
    <3>2. CASE k # slot
      <4>1. shm'.coverage[k] = shm.coverage[k]
        BY <2>6, <3>2
      <4>2. (\E d \in hit' : d % MapSize = k) <=> (\E d \in hit : d % MapSize = k)
        BY <2>1, <3>2 DEF slot
      <4>3. shm.coverage[k] # 0 <=> \E d \in hit : d % MapSize = k
        BY <1>2, <2>1
      <4> QED BY <4>1, <4>2, <4>3
    <3> QED BY <3>1, <3>2
  <2>8. edges <= edges
    BY <1>2
  <2> QED BY <1>2, <2>1, <2>2, <2>3, <2>5, <2>7, <2>8 DEF HitsInv
<1>7. CASE UNCHANGED <<attached, shm, edges, hit>>
  BY <1>7 DEF HitsInv
<1>8. ReadBytes \/ Call \/ Returned \/ Threw => UNCHANGED <<attached, shm, edges, hit>>
  BY DEF ReadBytes, Call, Returned, Threw
<1> QED BY <1>3, <1>4, <1>5, <1>6, <1>7, <1>8 DEF Next, vars

LEMMA Invariance == Spec => []IInv
<1>1. Init => IInv
  BY UsedInit, CallsInit, HitsInit DEF IInv
<1>2. IInv /\ [Next]_vars => IInv'
  BY UsedStep, CallsStep, HitsStep DEF IInv
<1> QED BY <1>1, <1>2, PTL DEF Spec

-----------------------------------------------------------------------------
(* Every byte of an input is used once (FuzzedDataProvider.ts): a call of  *)
(* the provider reads only bytes that remain and exactly those it takes    *)
(* away, whichever of the two ends it, and the calls before it, read from; *)
(* and so do the arguments of a call of the interpreter, taken together.   *)
THEOREM ReadsOnce == Spec => BytesOnce
<1> DEFINE A == fdp'.data = fdp.data /\ phase # "idle" /\ fdp' # fdp
                  => /\ Window(fdp') \subseteq Window(fdp)
                     /\ used'.read = Window(fdp) \ Window(fdp')
<1>1. ASSUME IInv, [Next]_vars PROVE [A]_vars
  <2>1. UsedInv /\ CallsInv /\ fdp \in Providers
    BY <1>1 DEF IInv, UsedInv
  <2>2. CASE ReadBytes
    <3>1. PICK c \in Reads :
            LET r == Perform(fdp, c)
            IN /\ fdp' = r.fdp
               /\ used' = [op |-> c.op, call |-> c, before |-> fdp, out |-> r.out,
                           threw |-> r.threw, read |-> r.read]
      BY <2>2 DEF ReadBytes
    <3> DEFINE r == Perform(fdp, c)
    <3>2. c \in Readings
      BY ReadsAssumption
    <3>3. r \in UsedUp(fdp)
      BY <2>1, <3>2, PerformKept DEF Kept
    <3>4. fdp' = r.fdp /\ used'.read = r.read
      BY <3>1
    <3> HIDE DEF r
    <3> QED BY <2>1, <3>3, <3>4, FieldFacts
  <2>3. CASE Call
    <3> DEFINE a == GetArgs(fdp, seq[at].args)
    <3>1. fdp' = a.r.fdp /\ used'.read = a.r.read
      BY <2>3 DEF Call
    <3>2. a.r \in UsedUp(fdp)
      BY <2>1, <2>3, ArgsMade DEF Call
    <3> HIDE DEF a
    <3> QED BY <2>1, <3>1, <3>2, FieldFacts
  <2>4. CASE Settle
    <3>1. fdp' = New(<<>>) /\ fdp'.data = <<>>
      BY <2>4 DEF Settle, New
    <3> QED BY <2>1, <3>1, ProviderFacts
  <2>5. CASE Execute
    BY <2>5 DEF Execute
  <2>6. CASE UNCHANGED fdp
    BY <2>6
  <2>7. Returned \/ Threw \/ UNCHANGED vars => UNCHANGED fdp
    BY DEF Returned, Threw, vars, run
  <2>8. \A intercepted, n : Load(intercepted, n) => UNCHANGED fdp
    BY DEF Load, run
  <2>9. \A e : RecordHit(e) => UNCHANGED fdp
    BY DEF RecordHit, run
  <2> QED BY <1>1, <2>2, <2>3, <2>4, <2>5, <2>6, <2>7, <2>8, <2>9 DEF Next
<1> QED BY <1>1, Invariance, PTL DEF Spec, BytesOnce

(* The promise speaks of the values and the bytes read alone.              *)
LEMMA PromiseFacts ==
  ASSUME NEW c, NEW r, NEW u, u.out = r.out, u.read = r.read, Promise(c, r)
  PROVE  Promise(c, u)
BY DEF Promise

(* The values a target reads are in the ranges it asked for, arrays and    *)
(* strings no longer than it asked for, picks distinct; and the ordinary   *)
(* and the big reader of a range read the same number.                     *)
THEOREM ReadsPromised == Spec => []AsPromised
<1>1. ASSUME UsedInv PROVE AsPromised
  <2>1. ASSUME used.op \notin {"none", "args"} PROVE used.threw \/ Promise(used.call, used)
    <3> DEFINE r == Perform(used.before, used.call)
    <3>1. used.before \in Providers /\ used.call \in Readings
          /\ used.out = r.out /\ used.threw = r.threw /\ used.read = r.read
      BY <1>1, <2>1 DEF UsedInv, Honest
    <3>2. r.threw \/ Promise(used.call, r)
      BY <3>1, PerformKept DEF Kept
    <3> HIDE DEF r
    <3>3. CASE r.threw
      BY <3>1, <3>3, Zenon
    <3>4. CASE Promise(used.call, r)
      BY <3>1, <3>4, PromiseFacts
    <3> QED BY <3>2, <3>3, <3>4
  <2>2. ASSUME used.op \in {"inRange", "bigInRange"}
        PROVE  LET ordinary == ConsumeIntegralInRange(used.before, used.call.min, used.call.max)
                   big      == ConsumeBigIntegralInRange(used.before, used.call.min, used.call.max)
               IN ordinary.threw \/ (ordinary.out = big.out /\ ordinary.fdp = big.fdp)
    <3>1. used.before \in Providers /\ used.call \in Readings /\ used.call.op \in {"inRange", "bigInRange"}
      BY <1>1, <2>2 DEF UsedInv, Honest
    <3>2. used.call.min \in Int /\ used.call.max \in Int
      BY <3>1 DEF Readings
    <3> QED BY <3>1, <3>2, SameRange
  <2> QED BY <2>1, <2>2 DEF AsPromised
<1> QED BY <1>1, Invariance, PTL DEF IInv

(* A call is made with the results of the very calls its arguments name,   *)
(* which have all returned, and a sequence the fuzzer holds for valid      *)
(* never fails an assertion of the interpreter (worker/sequence.ts).       *)
THEOREM CallsHold == Spec => []CallsAsWritten
<1>1. ASSUME CallsInv PROVE CallsAsWritten
  <2>1. ~thrown.own
    BY <1>1 DEF CallsInv
  <2>2. ASSUME mode = "sequence", phase = "target", NEW i \in DOMAIN seq[at].args,
               "Output" \in DOMAIN seq[at].args[i]
        PROVE  /\ passed[i] = <<seq[at].args[i].Output>>
               /\ \E j \in 1 .. at - 1 : seq[j].id = seq[at].args[i].Output
    <3>1. IsValid(seq) /\ at \in 1..Len(seq) /\ Passes(seq[at].args[i], passed[i])
      BY <1>1, <2>2 DEF CallsInv
    <3> QED BY <2>2, <3>1 DEF IsValid, Passes
  <2> QED BY <2>1, <2>2 DEF CallsAsWritten
<1> QED BY <1>1, Invariance, PTL DEF IInv

(* A counter of the coverage map is zero iff no edge that shares it was    *)
(* hit by the run, however often edges are hit, and the number of edges    *)
(* published never exceeds that of the counters handed out (record_hit).   *)
THEOREM HitsHold == Spec => []HitsShow
<1>1. HitsInv => HitsShow
  BY DEF HitsInv, HitsShow
<1> QED BY <1>1, Invariance, PTL DEF IInv

=============================================================================
