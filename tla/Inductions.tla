----------------------------- MODULE Inductions -----------------------------
(***************************************************************************)
(* Induction over the natural numbers as a statement about sets, which     *)
(* the proofs of the other modules use for what recursive functions        *)
(* compute, and what they all need of sequences, maxima and sums.          *)
(***************************************************************************)
EXTENDS Integers, Sequences, FiniteSetsExt, SequencesExt, SequenceTheorems, FiniteSetTheorems,
        WellFoundedInduction, TLAPS

(* A set of natural numbers that is not empty has a least element.         *)
LEMMA LeastNatural ==
  ASSUME NEW S \in SUBSET Nat, S # {}
  PROVE  \E m \in S : \A k \in S : m <= k
<1> DEFINE Less == {p \in Nat \X Nat : p[1] < p[2]}
<1>1. IsWellFoundedOn(Less, Nat)
  BY NatLessThanWellFounded DEF OpToRel
<1> HIDE DEF Less
<1>2. PICK m \in S : \A k \in S : <<k, m>> \notin Less
  BY <1>1, WFMin
<1>3. \A k \in S : ~(k < m)
  BY <1>2 DEF Less
<1> QED BY <1>3

(* What holds of 0 and of the successor of what it holds of.               *)
LEMMA Induction ==
  ASSUME NEW S, 0 \in S, \A n \in Nat : n \in S => n + 1 \in S
  PROVE  Nat \subseteq S
<1> SUFFICES ASSUME Nat \ S # {} PROVE FALSE
  OBVIOUS
<1>1. PICK m \in Nat \ S : \A k \in Nat \ S : m <= k
  BY LeastNatural
<1>2. m # 0 /\ m - 1 \in Nat /\ m - 1 \notin Nat \ S
  BY <1>1
<1> QED BY <1>2

(* A function defined by recursion from an element x of S, with steps that *)
(* stay in S.                                                              *)
Iterates(f, D, x, step) ==
  f = [k \in D |-> IF k = 0 THEN x ELSE step[k][f[k - 1]]]

LEMMA IterationTo ==
  ASSUME NEW S, NEW x \in S, NEW n \in Nat, NEW step,
         \A k \in 1..n : \A y \in S : step[k][y] \in S
  PROVE  \E f \in [0..n -> S] : Iterates(f, 0..n, x, step)
<1> DEFINE Defined == {m \in Nat : m <= n => \E f \in [0..m -> S] : Iterates(f, 0..m, x, step)}
<1>1. 0 \in Defined
  <2> DEFINE f == [k \in 0..0 |-> x]
  <2>1. f \in [0..0 -> S]
    OBVIOUS
  <2>2. \A k \in 0..0 : (IF k = 0 THEN x ELSE step[k][f[k - 1]]) = x
    OBVIOUS
  <2>3. Iterates(f, 0..0, x, step)
    BY <2>2 DEF Iterates
  <2> HIDE DEF f
  <2> QED BY <2>1, <2>3
<1>2. ASSUME NEW m \in Nat, m \in Defined PROVE m + 1 \in Defined
  <2> SUFFICES ASSUME m + 1 <= n
               PROVE  \E f \in [0..(m + 1) -> S] : Iterates(f, 0..(m + 1), x, step)
    OBVIOUS
  <2>1. PICK g \in [0..m -> S] : Iterates(g, 0..m, x, step)
    BY <1>2
  <2> DEFINE f == [k \in 0..(m + 1) |-> IF k = m + 1 THEN step[m + 1][g[m]] ELSE g[k]]
  <2>2. \A k \in 0..m : g[k] \in S /\ g[k] = IF k = 0 THEN x ELSE step[k][g[k - 1]]
    <3>1. g = [k \in 0..m |-> IF k = 0 THEN x ELSE step[k][g[k - 1]]]
      BY <2>1 DEF Iterates
    <3>2. \A k \in 0..m : g[k] = [l \in 0..m |-> IF l = 0 THEN x ELSE step[l][g[l - 1]]][k]
      BY <3>1
    <3> QED BY <3>2
  <2>3. \A k \in 0..m : f[k] = g[k]
    OBVIOUS
  <2>4. f[m + 1] = step[m + 1][g[m]] /\ m \in 0..m /\ m + 1 \in 1..n /\ g[m] \in S
    OBVIOUS
  <2>5. \A k \in 0..(m + 1) : f[k] \in S
    <3>1. f[m + 1] \in S
      BY <2>4
    <3>2. \A k \in 0..(m + 1) : k = m + 1 \/ k \in 0..m
      OBVIOUS
    <3> HIDE DEF f
    <3> QED BY <2>2, <2>3, <3>1, <3>2
  <2>6. \A k \in 0..(m + 1) : f[k] = IF k = 0 THEN x ELSE step[k][f[k - 1]]
    <3>1. \A k \in 0..m : k # 0 => k - 1 \in 0..m
      OBVIOUS
    <3>2. \A k \in 0..(m + 1) : k = m + 1 \/ k \in 0..m
      OBVIOUS
    <3>3. m + 1 # 0 /\ (m + 1) - 1 = m
      OBVIOUS
    <3>4. f[m + 1] = step[m + 1][f[m]]
      BY <2>3, <2>4
    <3> HIDE DEF f
    <3>5. ASSUME NEW k \in 0..m PROVE f[k] = IF k = 0 THEN x ELSE step[k][f[k - 1]]
      <4>1. f[k] = g[k] /\ (k # 0 => f[k - 1] = g[k - 1])
        BY <2>3, <3>1
      <4> QED BY <2>2, <4>1
    <3> QED BY <3>2, <3>3, <3>4, <3>5
  <2>7. f = [k \in 0..(m + 1) |-> f[k]]
    OBVIOUS
  <2> HIDE DEF f
  <2>8. f \in [0..(m + 1) -> S]
    BY <2>5, <2>7
  <2>9. Iterates(f, 0..(m + 1), x, step)
    BY <2>6, <2>7 DEF Iterates
  <2> QED BY <2>8, <2>9
<1>3. n \in Defined
  <2> HIDE DEF Defined
  <2> QED BY <1>1, <1>2, Induction
<1> QED BY <1>3

(* The same for all natural numbers.                                       *)
LEMMA Iteration ==
  ASSUME NEW S, NEW x \in S, NEW step, \A k \in Nat : \A y \in S : step[k][y] \in S
  PROVE  \E f \in [Nat -> S] : Iterates(f, Nat, x, step)
<1> DEFINE Goes(g, n) == g \in [0..n -> S] /\ Iterates(g, 0..n, x, step)
           To(n) == CHOOSE g : Goes(g, n)
           f == [n \in Nat |-> To(n)[n]]
<1>1. \A n \in Nat : Goes(To(n), n)
  <2>1. ASSUME NEW n \in Nat PROVE \E g : Goes(g, n)
    <3>1. \A k \in 1..n : \A y \in S : step[k][y] \in S
      OBVIOUS
    <3>2. \E g \in [0..n -> S] : Iterates(g, 0..n, x, step)
      BY <3>1, IterationTo
    <3> QED BY <3>2
  <2> HIDE DEF Goes
  <2> QED BY <2>1
<1>2. ASSUME NEW n \in Nat, NEW g, Goes(g, n)
      PROVE  \A k \in 0..n : g[k] \in S /\ g[k] = IF k = 0 THEN x ELSE step[k][g[k - 1]]
  <2>1. g = [k \in 0..n |-> IF k = 0 THEN x ELSE step[k][g[k - 1]]]
    BY <1>2 DEF Iterates
  <2>2. \A k \in 0..n : g[k] = [l \in 0..n |-> IF l = 0 THEN x ELSE step[l][g[l - 1]]][k]
    BY <2>1
  <2> QED BY <1>2, <2>2
<1> HIDE DEF Goes, To
<1> DEFINE Same == {k \in Nat : \A n \in Nat : k <= n => To(n)[k] = f[k]}
<1>3. Nat \subseteq Same
  <2>1. 0 \in Same
    <3>1. \A n \in Nat : To(n)[0] = x
      <4>1. \A n \in Nat : 0 \in 0..n
        OBVIOUS
      <4> QED BY <1>1, <1>2, <4>1
    <3> QED BY <3>1
  <2>2. ASSUME NEW k \in Nat, k \in Same PROVE k + 1 \in Same
    <3>1. ASSUME NEW n \in Nat, k + 1 <= n PROVE To(n)[k + 1] = step[k + 1][f[k]]
      <4>1. k + 1 \in 0..n /\ k + 1 # 0 /\ (k + 1) - 1 = k /\ k <= n
        BY <3>1
      <4>2. To(n)[k + 1] = step[k + 1][To(n)[k]]
        BY <1>1, <1>2, <4>1
      <4>3. To(n)[k] = f[k]
        BY <2>2, <4>1
      <4> QED BY <4>2, <4>3
    <3>2. f[k + 1] = To(k + 1)[k + 1] /\ k + 1 \in Nat /\ k + 1 <= k + 1
      OBVIOUS
    <3>3. \A n \in Nat : k + 1 <= n => To(n)[k + 1] = f[k + 1]
      BY <3>1, <3>2
    <3> QED BY <3>2, <3>3
  <2> HIDE DEF Same
  <2> QED BY <2>1, <2>2, Induction
<1>4. ASSUME NEW n \in Nat
      PROVE  f[n] \in S /\ f[n] = IF n = 0 THEN x ELSE step[n][f[n - 1]]
  <2>1. n \in 0..n /\ f[n] = To(n)[n]
    OBVIOUS
  <2>2. To(n)[n] \in S /\ To(n)[n] = IF n = 0 THEN x ELSE step[n][To(n)[n - 1]]
    BY <1>1, <1>2, <2>1
  <2>3. n # 0 => n - 1 \in Same /\ n - 1 <= n
    BY <1>3
  <2>4. n # 0 => To(n)[n - 1] = f[n - 1]
    BY <2>3
  <2> HIDE DEF f
  <2> QED BY <2>1, <2>2, <2>4
<1>5. f = [n \in Nat |-> f[n]]
  OBVIOUS
<1> HIDE DEF f
<1>6. f \in [Nat -> S]
  BY <1>4, <1>5
<1>7. Iterates(f, Nat, x, step)
  BY <1>4, <1>5 DEF Iterates
<1> QED BY <1>6, <1>7

(* A function on an initial segment of the positive numbers is a sequence. *)
LEMMA FunctionIsSeq ==
  ASSUME NEW S, NEW n \in Nat, NEW f \in [1..n -> S]
  PROVE  f \in Seq(S) /\ Len(f) = n /\ DOMAIN f = 1..n
<1>1. f \in Seq(S)
  BY SeqDef
<1>2. DOMAIN f = 1..n /\ DOMAIN f = 1..Len(f) /\ Len(f) \in Nat
  BY <1>1, LenProperties
<1> QED BY <1>1, <1>2

(* Two sequences one after the other.                                      *)
LEMMA Concatenated ==
  ASSUME NEW S, NEW s \in Seq(S), NEW t \in Seq(S)
  PROVE  /\ s \o t \in Seq(S) /\ Len(s \o t) = Len(s) + Len(t)
         /\ Len(s) \in Nat /\ Len(t) \in Nat
         /\ DOMAIN (s \o t) = 1..(Len(s) + Len(t))
         /\ \A i \in 1..Len(s) : (s \o t)[i] = s[i]
         /\ \A i \in 1..Len(t) : (s \o t)[Len(s) + i] = t[i]
<1>1. /\ s \o t \in Seq(S) /\ Len(s \o t) = Len(s) + Len(t)
      /\ \A i \in 1..Len(s) + Len(t) :
           (s \o t)[i] = IF i <= Len(s) THEN s[i] ELSE t[i - Len(s)]
  BY ConcatProperties
<1>2. Len(s) \in Nat /\ Len(t) \in Nat /\ DOMAIN (s \o t) = 1..(Len(s) + Len(t))
  BY <1>1, LenProperties
<1>3. \A i \in 1..Len(s) : i \in 1..(Len(s) + Len(t)) /\ i <= Len(s)
  BY <1>2
<1>4. \A i \in 1..Len(t) : /\ Len(s) + i \in 1..(Len(s) + Len(t)) /\ ~(Len(s) + i <= Len(s))
                           /\ (Len(s) + i) - Len(s) = i
  BY <1>2
<1> QED BY <1>1, <1>2, <1>3, <1>4

(* Flattening, clause by clause.                                           *)
LEMMA FlattenDefined ==
  ASSUME NEW s, NEW n \in Nat, n # 0, Len(s) = n
  PROVE  \E f : /\ FlattenSeq(s) = f[n] /\ f[1] = s[1]
                /\ \A i \in 2..n : f[i] = f[i - 1] \o s[i]
<1> DEFINE Body(g, i) == IF i = 1 THEN s[i] ELSE g[i - 1] \o s[i]
           f == CHOOSE g : g = [i \in 1..n |-> Body(g, i)]
           Defined == {m \in Nat : \E g : g = [i \in 1..m |-> Body(g, i)]}
<1>1. FlattenSeq(s) = f[n]
  BY DEF FlattenSeq
<1>2. 0 \in Defined
  <2>1. [i \in 1..0 |-> 0] = [i \in 1..0 |-> Body([j \in 1..0 |-> 0], i)]
    OBVIOUS
  <2> HIDE DEF Body
  <2> QED BY <2>1
<1>3. ASSUME NEW m \in Nat, m \in Defined PROVE m + 1 \in Defined
  <2>1. PICK g : g = [i \in 1..m |-> Body(g, i)]
    BY <1>3
  <2> DEFINE h == [i \in 1..(m + 1) |-> IF i = m + 1 THEN Body(g, i) ELSE g[i]]
  <2>2. \A i \in 1..(m + 1) : h[i] = Body(h, i)
    <3>1. \A i \in 1..m : h[i] = g[i]
      OBVIOUS
    <3>2. \A i \in 2..(m + 1) : h[i - 1] = g[i - 1]
      BY <3>1
    <3>3. \A i \in 1..(m + 1) : Body(h, i) = Body(g, i)
      BY <3>2
    <3> HIDE DEF Body
    <3>4. \A i \in 1..m : g[i] = Body(g, i)
      BY <2>1, Zenon
    <3>5. \A i \in 1..(m + 1) : h[i] = Body(g, i)
      BY <3>4
    <3> QED BY <3>3, <3>5
  <2> HIDE DEF h, Body
  <2>3. h = [i \in 1..(m + 1) |-> h[i]]
    BY DEF h
  <2>4. h = [i \in 1..(m + 1) |-> Body(h, i)]
    BY <2>2, <2>3
  <2> QED BY <2>4
<1> HIDE DEF Body
<1>4. n \in Defined
  <2> HIDE DEF Defined
  <2> QED BY <1>2, <1>3, Induction
<1>5. f = [i \in 1..n |-> Body(f, i)]
  BY <1>4
<1> HIDE DEF f
<1>6. \A i \in 1..n : f[i] = Body(f, i)
  BY <1>5, Zenon
<1>7. f[1] = s[1]
  <2>1. 1 \in 1..n
    OBVIOUS
  <2> QED BY <1>6, <2>1 DEF Body
<1>8. \A i \in 2..n : f[i] = f[i - 1] \o s[i]
  <2>1. \A i \in 2..n : i \in 1..n /\ i # 1
    OBVIOUS
  <2> QED BY <1>6, <2>1 DEF Body
<1> QED BY <1>1, <1>7, <1>8

LEMMA FlattenOne ==
  ASSUME NEW x
  PROVE  FlattenSeq(<<x>>) = x
<1> DEFINE s == <<x>>
<1>1. Len(s) = 1 /\ s[1] = x /\ 1 \in Nat /\ 1 # 0
  OBVIOUS
<1> HIDE DEF s
<1>2. \E f : /\ FlattenSeq(s) = f[1] /\ f[1] = s[1]
             /\ \A i \in 2..1 : f[i] = f[i - 1] \o s[i]
  BY <1>1, FlattenDefined
<1>3. FlattenSeq(s) = x
  BY <1>1, <1>2
<1> QED BY <1>3 DEF s

(* Short sequences, and prefixes.                                          *)
LEMMA Singles == ASSUME NEW x PROVE Append(<<>>, x) = <<x>>
<1>1. <<>> \in Seq({x}) /\ Len(<<>>) = 0
  OBVIOUS
<1>2. Append(<<>>, x) \in Seq({x}) /\ Len(Append(<<>>, x)) = 1 /\ Append(<<>>, x)[1] = x
  BY <1>1, AppendProperties
<1>3. <<x>> \in Seq({x}) /\ Len(<<x>>) = 1 /\ <<x>>[1] = x
  OBVIOUS
<1>4. \A i \in 1..1 : i = 1
  OBVIOUS
<1> QED BY <1>2, <1>3, <1>4, SeqEqual

LEMMA Pairs ==
  ASSUME NEW S, NEW x \in S, NEW y \in S
  PROVE  <<x>> \o <<y>> = <<x, y>> /\ <<x, y>> \in Seq(S)
<1>1. <<x>> \in Seq(S) /\ <<y>> \in Seq(S) /\ Len(<<x>>) = 1 /\ Len(<<y>>) = 1 /\ <<x>>[1] = x /\ <<y>>[1] = y
  OBVIOUS
<1>2. <<x, y>> \in Seq(S) /\ Len(<<x, y>>) = 2 /\ <<x, y>>[1] = x /\ <<x, y>>[2] = y
  OBVIOUS
<1>3. /\ <<x>> \o <<y>> \in Seq(S) /\ Len(<<x>> \o <<y>>) = 2
      /\ (<<x>> \o <<y>>)[1] = x /\ (<<x>> \o <<y>>)[2] = y
  <2>1. 1 \in 1..Len(<<x>>) /\ 1 \in 1..Len(<<y>>) /\ Len(<<x>>) + 1 = 2
    BY <1>1
  <2> QED BY <1>1, <2>1, Concatenated
<1>4. \A i \in 1..2 : i = 1 \/ i = 2
  OBVIOUS
<1>5. <<x>> \o <<y>> = <<x, y>>
  BY <1>2, <1>3, <1>4, SeqEqual
<1> QED BY <1>2, <1>5

LEMMA Triples ==
  ASSUME NEW S, NEW x \in S, NEW y \in S, NEW z \in S
  PROVE  <<x, y>> \o <<z>> = <<x, y, z>>
<1>1. /\ <<x, y>> \in Seq(S) /\ Len(<<x, y>>) = 2 /\ <<x, y>>[1] = x /\ <<x, y>>[2] = y
      /\ <<z>> \in Seq(S) /\ Len(<<z>>) = 1 /\ <<z>>[1] = z
  OBVIOUS
<1>2. <<x, y, z>> \in Seq(S) /\ Len(<<x, y, z>>) = 3
      /\ <<x, y, z>>[1] = x /\ <<x, y, z>>[2] = y /\ <<x, y, z>>[3] = z
  OBVIOUS
<1>3. /\ <<x, y>> \o <<z>> \in Seq(S) /\ Len(<<x, y>> \o <<z>>) = 3
      /\ (<<x, y>> \o <<z>>)[1] = x /\ (<<x, y>> \o <<z>>)[2] = y /\ (<<x, y>> \o <<z>>)[3] = z
  <2>1. 1 \in 1..Len(<<x, y>>) /\ 2 \in 1..Len(<<x, y>>) /\ 1 \in 1..Len(<<z>>) /\ Len(<<x, y>>) + 1 = 3
    BY <1>1
  <2> QED BY <1>1, <2>1, Concatenated
<1>4. \A i \in 1..3 : i = 1 \/ i = 2 \/ i = 3
  OBVIOUS
<1> QED BY <1>2, <1>3, <1>4, SeqEqual

LEMMA Growing ==
  ASSUME NEW S, NEW s \in Seq(S)
  PROVE  /\ SubSeq(s, 1, 0) = <<>> /\ SubSeq(s, 1, Len(s)) = s /\ Len(s) \in Nat
         /\ \A k \in 1..Len(s) : Append(SubSeq(s, 1, k - 1), s[k]) = SubSeq(s, 1, k)
<1>1. SubSeq(s, 1, 0) = <<>> /\ SubSeq(s, 1, Len(s)) = s /\ Len(s) \in Nat
  BY SubSeqEmpty, SubSeqFull
<1>2. ASSUME NEW k \in 1..Len(s) PROVE Append(SubSeq(s, 1, k - 1), s[k]) = SubSeq(s, 1, k)
  <2>1. 1 \in 1..Len(s) /\ k \in 1..Len(s)
    BY <1>1
  <2>2. SubSeq(s, 1, k) = SubSeq(s, 1, k - 1) \o <<s[k]>>
    BY <2>1, SubSeqRecursiveSecond
  <2>3. s[k] \in S /\ SubSeq(s, 1, k - 1) \in Seq(S)
    <3>1. \A i \in 1 .. (k - 1) : s[i] \in S
      BY <1>1
    <3> QED BY <1>1, <3>1, SubSeqProperties
  <2>4. \A t \in Seq(S), x \in S : Append(t, x) = t \o <<x>>
    OBVIOUS
  <2> QED BY <2>2, <2>3, <2>4
<1> QED BY <1>1, <1>2

(* A sequence made from another, element by element.                       *)
LEMMA EachIsSeq ==
  ASSUME NEW S, NEW T, NEW s \in Seq(S), NEW f, \A x \in S : f[x] \in T
  PROVE  LET each == [k \in DOMAIN s |-> f[s[k]]]
         IN each \in Seq(T) /\ Len(each) = Len(s) /\ DOMAIN each = DOMAIN s
<1> DEFINE each == [k \in DOMAIN s |-> f[s[k]]]
<1>1. Len(s) \in Nat /\ DOMAIN s = 1..Len(s) /\ \A k \in 1..Len(s) : s[k] \in S
  BY LenProperties, ElementOfSeq
<1>2. each \in [1..Len(s) -> T]
  BY <1>1
<1> HIDE DEF each
<1>3. each \in Seq(T) /\ Len(each) = Len(s) /\ DOMAIN each = 1..Len(s)
  BY <1>1, <1>2, FunctionIsSeq
<1> QED BY <1>1, <1>3 DEF each

-----------------------------------------------------------------------------
(* Extremes.                                                               *)

(* A finite set of natural numbers has a greatest element.                 *)
LEMMA MaxFacts ==
  ASSUME NEW S \in SUBSET Nat, IsFiniteSet(S), S # {}
  PROVE  Max(S) \in S /\ \A y \in S : y <= Max(S)
<1> DEFINE HasMax(T) == \E x \in T : \A y \in T : x >= y
           Good == {n \in Nat : \A T \in SUBSET Nat :
                      IsFiniteSet(T) /\ T # {} /\ Cardinality(T) <= n => HasMax(T)}
<1>1. 0 \in Good
  BY FS_EmptySet, FS_CardinalityType
<1>2. ASSUME NEW n \in Nat, n \in Good PROVE n + 1 \in Good
  <2> SUFFICES ASSUME NEW T \in SUBSET Nat, IsFiniteSet(T), T # {}, Cardinality(T) <= n + 1
               PROVE  HasMax(T)
    OBVIOUS
  <2>1. PICK t \in T : TRUE
    OBVIOUS
  <2>2. IsFiniteSet(T \ {t}) /\ Cardinality(T \ {t}) = Cardinality(T) - 1 /\ Cardinality(T) \in Nat
    BY FS_RemoveElement, FS_CardinalityType
  <2>3. CASE T \ {t} = {}
    <3>1. T = {t}
      BY <2>1, <2>3
    <3> QED BY <3>1
  <2>4. CASE T \ {t} # {}
    <3>1. HasMax(T \ {t})
      BY <1>2, <2>2, <2>4
    <3>2. PICK x \in T \ {t} : \A y \in T \ {t} : x >= y
      BY <3>1
    <3>3. CASE x >= t
      BY <3>2, <3>3
    <3>4. CASE ~(x >= t)
      BY <3>2, <3>4, <2>1
    <3> QED BY <3>3, <3>4
  <2> QED BY <2>3, <2>4
<1>3. Cardinality(S) \in Nat
  BY FS_CardinalityType
<1> HIDE DEF HasMax, Good
<1>4. Cardinality(S) \in Good
  BY <1>1, <1>2, <1>3, Induction
<1>5. HasMax(S)
  BY <1>3, <1>4 DEF Good
<1> QED BY <1>5 DEF HasMax, Max

(* A finite set of natural numbers has a least element.                 *)
LEMMA MinFacts ==
  ASSUME NEW S \in SUBSET Nat, IsFiniteSet(S), S # {}
  PROVE  Min(S) \in S /\ \A y \in S : Min(S) <= y
<1> DEFINE HasMin(T) == \E x \in T : \A y \in T : x <= y
           Good == {n \in Nat : \A T \in SUBSET Nat :
                      IsFiniteSet(T) /\ T # {} /\ Cardinality(T) <= n => HasMin(T)}
<1>1. 0 \in Good
  BY FS_EmptySet, FS_CardinalityType
<1>2. ASSUME NEW n \in Nat, n \in Good PROVE n + 1 \in Good
  <2> SUFFICES ASSUME NEW T \in SUBSET Nat, IsFiniteSet(T), T # {}, Cardinality(T) <= n + 1
               PROVE  HasMin(T)
    OBVIOUS
  <2>1. PICK t \in T : TRUE
    OBVIOUS
  <2>2. IsFiniteSet(T \ {t}) /\ Cardinality(T \ {t}) = Cardinality(T) - 1 /\ Cardinality(T) \in Nat
    BY FS_RemoveElement, FS_CardinalityType
  <2>3. CASE T \ {t} = {}
    <3>1. T = {t}
      BY <2>1, <2>3
    <3> QED BY <3>1
  <2>4. CASE T \ {t} # {}
    <3>1. HasMin(T \ {t})
      BY <1>2, <2>2, <2>4
    <3>2. PICK x \in T \ {t} : \A y \in T \ {t} : x <= y
      BY <3>1
    <3>3. CASE x <= t
      BY <3>2, <3>3
    <3>4. CASE ~(x <= t)
      BY <3>2, <3>4, <2>1
    <3> QED BY <3>3, <3>4
  <2> QED BY <2>3, <2>4
<1>3. Cardinality(S) \in Nat
  BY FS_CardinalityType
<1> HIDE DEF HasMin, Good
<1>4. Cardinality(S) \in Good
  BY <1>1, <1>2, <1>3, Induction
<1>5. HasMin(S)
  BY <1>3, <1>4 DEF Good
<1> QED BY <1>5 DEF HasMin, Min

-----------------------------------------------------------------------------
(* Sums over finite sets.                                                  *)

Total(w, m, S) == MapThenSumSet(LAMBDA x : w[x][m], S)

(* The sum, clause by clause.                                              *)
SumsUp(f, w, m, S) ==
  \A T \in SUBSET S :
    f[T] = IF T = {} THEN 0 ELSE LET c == CHOOSE x \in T : TRUE IN w[c][m] + f[T \ {c}]

LEMMA SumDefined ==
  ASSUME NEW w, NEW m, NEW S, IsFiniteSet(S)
  PROVE  \E f : Total(w, m, S) = f[S] /\ SumsUp(f, w, m, S)
<1> DEFINE Pick(T) == CHOOSE x \in T : TRUE
           Body(g, T) == IF T = {} THEN 0 ELSE w[Pick(T)][m] + g[T \ {Pick(T)}]
           UpTo(n) == {T \in SUBSET S : Cardinality(T) <= n}
           f == CHOOSE g : g = [T \in SUBSET S |-> Body(g, T)]
           Defined == {n \in Nat : \E g : g = [T \in UpTo(n) |-> Body(g, T)]}
<1>1. Total(w, m, S) = f[S]
  BY DEF Total, MapThenSumSet, MapThenFoldSet
<1>2. \A T \in SUBSET S : IsFiniteSet(T) /\ Cardinality(T) \in Nat
  BY FS_Subset, FS_CardinalityType
<1>3. \A T \in SUBSET S : T # {} =>
        Pick(T) \in T /\ T \ {Pick(T)} \in SUBSET S
        /\ Cardinality(T \ {Pick(T)}) = Cardinality(T) - 1
  BY <1>2, FS_RemoveElement
<1>4. \A T \in SUBSET S : Cardinality(T) = 0 => T = {}
  BY <1>2, FS_EmptySet
<1> HIDE DEF Pick
<1>5. 0 \in Defined
  <2>1. \A T \in UpTo(0) : T = {}
    BY <1>2, <1>4
  <2>2. [T \in UpTo(0) |-> 0] = [T \in UpTo(0) |-> Body([U \in UpTo(0) |-> 0], T)]
    BY <2>1
  <2> HIDE DEF UpTo, Body
  <2> QED BY <2>2
<1>6. ASSUME NEW n \in Nat, n \in Defined PROVE n + 1 \in Defined
  <2>1. PICK g : g = [T \in UpTo(n) |-> Body(g, T)]
    BY <1>6
  <2> DEFINE h == [T \in UpTo(n + 1) |-> IF T \in UpTo(n) THEN g[T] ELSE Body(g, T)]
  <2>2. \A T \in UpTo(n + 1) : h[T] = Body(h, T)
    <3>1. \A T \in UpTo(n) : h[T] = g[T]
      BY <1>2
    <3>2. \A T \in UpTo(n + 1) : T # {} => T \ {Pick(T)} \in UpTo(n)
      BY <1>2, <1>3
    <3>3. \A T \in UpTo(n + 1) : Body(h, T) = Body(g, T)
      <4> HIDE DEF h, UpTo
      <4> QED BY <3>1, <3>2
    <3> HIDE DEF Body
    <3>4. \A T \in UpTo(n) : g[T] = Body(g, T)
      <4> HIDE DEF UpTo
      <4> QED BY <2>1, Zenon
    <3>5. \A T \in UpTo(n + 1) : h[T] = Body(g, T)
      <4> HIDE DEF UpTo
      <4> QED BY <3>4
    <3> QED BY <3>3, <3>5
  <2> HIDE DEF h, Body, UpTo
  <2>3. h = [T \in UpTo(n + 1) |-> h[T]]
    BY DEF h
  <2>4. h = [T \in UpTo(n + 1) |-> Body(h, T)]
    BY <2>2, <2>3
  <2> QED BY <2>4
<1>7. Cardinality(S) \in Defined
  <2> HIDE DEF Defined
  <2>1. Nat \subseteq Defined
    BY <1>5, <1>6, Induction
  <2> QED BY <1>2, <2>1
<1>8. UpTo(Cardinality(S)) = SUBSET S
  BY FS_Subset
<1> HIDE DEF Body
<1>9. \E g : g = [T \in SUBSET S |-> Body(g, T)]
  BY <1>7, <1>8
<1>10. f = [T \in SUBSET S |-> Body(f, T)]
  BY <1>9
<1> HIDE DEF f
<1>11. \A T \in SUBSET S : f[T] = Body(f, T)
  BY <1>10, Zenon
<1> QED BY <1>1, <1>11 DEF Body, Pick, SumsUp

(* A sum of natural numbers is one, whichever element is taken out first.  *)
Splits(f, w, m, T) == f[T] \in Nat /\ \A y \in T : f[T] = w[y][m] + f[T \ {y}]

LEMMA SumSplits ==
  ASSUME NEW w, NEW m, NEW S, IsFiniteSet(S), \A x \in S : w[x][m] \in Nat,
         NEW f, SumsUp(f, w, m, S)
  PROVE  \A T \in SUBSET S : Splits(f, w, m, T)
<1> DEFINE Good == {n \in Nat : \A T \in SUBSET S : Cardinality(T) <= n =>
                      f[T] \in Nat /\ \A y \in T : f[T] = w[y][m] + f[T \ {y}]}
<1>1. \A T \in SUBSET S : IsFiniteSet(T) /\ Cardinality(T) \in Nat
  BY FS_Subset, FS_CardinalityType
<1>2. \A T \in SUBSET S : \A y \in T : Cardinality(T \ {y}) = Cardinality(T) - 1
  BY <1>1, FS_RemoveElement
<1>3. 0 \in Good
  <2>1. \A T \in SUBSET S : Cardinality(T) = 0 => T = {}
    BY <1>1, FS_EmptySet
  <2>2. f[{}] = 0
    BY DEF SumsUp
  <2> SUFFICES ASSUME NEW T \in SUBSET S, Cardinality(T) <= 0
               PROVE  f[T] \in Nat /\ \A y \in T : f[T] = w[y][m] + f[T \ {y}]
    OBVIOUS
  <2>3. T = {}
    BY <1>1, <2>1
  <2> QED BY <2>2, <2>3
<1>4. ASSUME NEW n \in Nat, n \in Good PROVE n + 1 \in Good
  <2> SUFFICES ASSUME NEW T \in SUBSET S, Cardinality(T) <= n + 1, Cardinality(T) # 0
               PROVE  f[T] \in Nat /\ \A y \in T : f[T] = w[y][m] + f[T \ {y}]
    <3>1. \A T \in SUBSET S : Cardinality(T) = 0 => Cardinality(T) <= 0
      OBVIOUS
    <3>2. \A T \in SUBSET S : Cardinality(T) = 0 =>
            f[T] \in Nat /\ \A y \in T : f[T] = w[y][m] + f[T \ {y}]
      BY <1>3, <3>1
    <3> QED BY <3>2
  <2> DEFINE c == CHOOSE x \in T : TRUE
  <2>1. T # {} /\ c \in T
    <3>1. T # {}
      BY FS_EmptySet
    <3> QED BY <3>1
  <2>2. f[T] = w[c][m] + f[T \ {c}]
    BY <2>1 DEF SumsUp
  <2> HIDE DEF c
  <2>3. \A y \in T : Cardinality(T \ {y}) <= n /\ T \ {y} \in SUBSET S
    BY <1>1, <1>2
  <2>4. \A y \in T : f[T \ {y}] \in Nat /\ \A z \in T \ {y} : f[T \ {y}] = w[z][m] + f[(T \ {y}) \ {z}]
    BY <1>4, <2>3
  <2>5. f[T] \in Nat
    BY <2>1, <2>2, <2>4
  <2>6. ASSUME NEW y \in T, y # c PROVE f[T] = w[y][m] + f[T \ {y}]
    <3>1. f[T \ {c}] = w[y][m] + f[(T \ {c}) \ {y}]
      BY <2>1, <2>4, <2>6
    <3>2. f[T \ {y}] = w[c][m] + f[(T \ {y}) \ {c}]
      BY <2>1, <2>4, <2>6
    <3>3. (T \ {c}) \ {y} = (T \ {y}) \ {c}
      OBVIOUS
    <3>4. w[c][m] \in Nat /\ w[y][m] \in Nat
      BY <2>1
    <3>5. (T \ {c}) \ {y} \in SUBSET S /\ Cardinality((T \ {c}) \ {y}) <= n
      <4>1. Cardinality((T \ {c}) \ {y}) = Cardinality(T \ {c}) - 1
        BY <1>2, <2>1, <2>3, <2>6
      <4>2. Cardinality(T \ {c}) \in Nat
        BY <1>1, <2>3, <2>1
      <4> QED BY <2>1, <2>3, <4>1, <4>2
    <3>7. f[(T \ {c}) \ {y}] \in Nat
      BY <1>4, <3>5
    <3> DEFINE rest == f[(T \ {c}) \ {y}]
    <3>8. rest \in Nat /\ f[T \ {c}] = w[y][m] + rest /\ f[T \ {y}] = w[c][m] + rest
      BY <3>1, <3>2, <3>3, <3>7
    <3> HIDE DEF rest
    <3> QED BY <2>2, <3>4, <3>8
  <2> QED BY <2>2, <2>5, <2>6
<1> HIDE DEF Good
<1>5. Nat \subseteq Good
  BY <1>3, <1>4, Induction
<1>6. \A T \in SUBSET S : f[T] \in Nat /\ \A y \in T : f[T] = w[y][m] + f[T \ {y}]
  BY <1>1, <1>5 DEF Good
<1> QED BY <1>6 DEF Splits

LEMMA SumTakes ==
  ASSUME NEW w, NEW m, NEW S, IsFiniteSet(S), \A x \in S : w[x][m] \in Nat,
         NEW f, SumsUp(f, w, m, S), NEW x \in S
  PROVE  f[S] \in Nat /\ f[S] = w[x][m] + f[S \ {x}]
<1>1. S \in SUBSET S
  OBVIOUS
<1>2. Splits(f, w, m, S)
  BY <1>1, SumSplits
<1> QED BY <1>2 DEF Splits

(* The clauses determine the sum.                                          *)
LEMMA SumIsOne ==
  ASSUME NEW w, NEW m, NEW S, IsFiniteSet(S), NEW f, NEW g, SumsUp(f, w, m, S), SumsUp(g, w, m, S)
  PROVE  f[S] = g[S]
<1> DEFINE Good == {n \in Nat : \A T \in SUBSET S : Cardinality(T) = n => f[T] = g[T]}
<1>1. \A T \in SUBSET S : IsFiniteSet(T) /\ Cardinality(T) \in Nat
  BY FS_Subset, FS_CardinalityType
<1>2. 0 \in Good
  <2>1. \A T \in SUBSET S : Cardinality(T) = 0 => T = {}
    BY <1>1, FS_EmptySet
  <2> QED BY <2>1 DEF SumsUp
<1>3. ASSUME NEW n \in Nat, n \in Good PROVE n + 1 \in Good
  <2> SUFFICES ASSUME NEW T \in SUBSET S, Cardinality(T) = n + 1
               PROVE  f[T] = g[T]
    OBVIOUS
  <2> DEFINE c == CHOOSE x \in T : TRUE
  <2>1. T # {} /\ c \in T
    <3>1. T # {}
      BY FS_EmptySet
    <3> QED BY <3>1
  <2>2. f[T] = w[c][m] + f[T \ {c}] /\ g[T] = w[c][m] + g[T \ {c}]
    BY <2>1 DEF SumsUp
  <2> HIDE DEF c
  <2>3. Cardinality(T \ {c}) = n /\ T \ {c} \in SUBSET S
    <3>1. Cardinality(T \ {c}) = Cardinality(T) - 1
      BY <1>1, <2>1, FS_RemoveElement
    <3> QED BY <3>1
  <2>4. f[T \ {c}] = g[T \ {c}]
    BY <1>3, <2>3
  <2> QED BY <2>2, <2>4
<1> HIDE DEF Good
<1>4. Nat \subseteq Good
  BY <1>2, <1>3, Induction
<1>5. Cardinality(S) \in Good
  BY <1>1, <1>4
<1> QED BY <1>5 DEF Good

(* One element more.                                                       *)
LEMMA SumAdds ==
  ASSUME NEW w, NEW m, NEW S, NEW x, IsFiniteSet(S), x \notin S,
         \A y \in S \cup {x} : w[y][m] \in Nat
  PROVE  /\ Total(w, m, S) \in Nat
         /\ Total(w, m, S \cup {x}) = w[x][m] + Total(w, m, S)
<1>1. IsFiniteSet(S \cup {x})
  BY FS_AddElement
<1>2. PICK f : Total(w, m, S) = f[S] /\ SumsUp(f, w, m, S)
  BY SumDefined
<1>3. PICK g : Total(w, m, S \cup {x}) = g[S \cup {x}] /\ SumsUp(g, w, m, S \cup {x})
  BY <1>1, SumDefined
<1>4. SumsUp(g, w, m, S)
  BY <1>3 DEF SumsUp
<1>5. f[S] \in Nat
  BY <1>2, SumSplits DEF Splits
<1>6. g[S \cup {x}] = w[x][m] + g[(S \cup {x}) \ {x}]
  BY <1>1, <1>3, SumTakes
<1>7. (S \cup {x}) \ {x} = S
  OBVIOUS
<1>8. f[S] = g[S]
  BY <1>2, <1>4, SumIsOne
<1> QED BY <1>2, <1>3, <1>5, <1>6, <1>7, <1>8

(* Nothing sums up to zero.                                                *)
LEMMA SumEmpty ==
  ASSUME NEW w, NEW m
  PROVE  Total(w, m, {}) = 0
<1>1. PICK f : Total(w, m, {}) = f[{}] /\ SumsUp(f, w, m, {})
  BY SumDefined, FS_EmptySet
<1> QED BY <1>1 DEF SumsUp

=============================================================================
