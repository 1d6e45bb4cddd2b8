---------------------------- MODULE Counts_proofs ----------------------------
(***************************************************************************)
(* Machine-checked proofs about what is stored of the counts of a process: *)
(* the ranges of its dumps, their merge, and the join with the arms.       *)
(***************************************************************************)
EXTENDS Coverage_proofs

-----------------------------------------------------------------------------
(* The counts of ranges.  The ranges of a function that cover an extent    *)
(* lie one in the other, and the least of them tells what ran there.       *)
Over(S, x, y) == {s \in S : s.from <= x /\ y <= s.to}
Least(k, C) == k \in C /\ \A s \in C : Within(k, s)
Reach(p, run, n) == IF p[n].kind = "Function" THEN run.past[n] ELSE run.in[n]
HomeOf(p, n) == IF n = 1 THEN 1 ELSE FunctionOf(p, p[n].up)
CoverNode(p, run, f, n) == Over(AllRanges(p, run, f), From(p, n), To(p, n))

(* The ranges of a function that cover a node: those of arms around it,    *)
(* and the gaps behind constructs before it.                               *)
OwnCover(p, run, f, n, r) ==
  \E m \in Upwards(p, n) : FunctionOf(p, m) = f /\ Counted(p, m) /\ r = Range1(From(p, m), To(p, m), run.in[m])
ArmCover(p, run, f, n, r) ==
  \E m \in Upwards(p, n) : /\ p[m].kind = "Function" /\ p[m].slot \in ArmSlots /\ FunctionOf(p, p[m].up) = f
                           /\ r = Range1(From(p, m), To(p, m), run.past[m])
GapCover(p, run, f, n, r) ==
  \E c \in DOMAIN p : /\ FunctionOf(p, c) = f /\ GapRange(p, r, c)
                      /\ r = Range1(To(p, c), To(p, Around(p, c)), run.past[c])
                      /\ Around(p, c) \in Upwards(p, n) /\ Around(p, c) # n /\ LastIn(p, c) < n

LEMMA CoverCases ==
  ASSUME NEW p, Tree(p), Grammar(p), Shape(p), NEW run, NEW f, NEW n \in DOMAIN p, NEW r
  PROVE  r \in CoverNode(p, run, f, n) <=>
           OwnCover(p, run, f, n, r) \/ ArmCover(p, run, f, n, r) \/ GapCover(p, run, f, n, r)
<1> DEFINE Covers == r.from <= From(p, n) /\ To(p, n) <= r.to
           Mine(m) == FunctionOf(p, m) = f /\ Counted(p, m) /\ r = Range1(From(p, m), To(p, m), run.in[m])
           Arms1(m) == /\ p[m].kind = "Function" /\ p[m].slot \in ArmSlots /\ FunctionOf(p, p[m].up) = f
                       /\ r = Range1(From(p, m), To(p, m), run.past[m])
           Gaps(c) == /\ FunctionOf(p, c) = f /\ GapRange(p, r, c)
                      /\ r = Range1(To(p, c), To(p, Around(p, c)), run.past[c])
<1>1. \A x, y, z : Range1(x, y, z).from = x /\ Range1(x, y, z).to = y
  BY DEF Range1
<1>2. \A m \in DOMAIN p : Mine(m) \/ Arms1(m) => (Covers <=> m \in Upwards(p, n))
  <2> SUFFICES ASSUME NEW m \in DOMAIN p, Mine(m) \/ Arms1(m) PROVE Covers <=> m \in Upwards(p, n)
    OBVIOUS
  <2>1. r.from = From(p, m) /\ r.to = To(p, m)
    BY <1>1
  <2> QED BY <2>1, HoldsFacts DEF Holds
<1>3. \A c \in DOMAIN p : Gaps(c) => (Covers <=> Around(p, c) \in Upwards(p, n) /\ Around(p, c) # n /\ LastIn(p, c) < n)
  <2> SUFFICES ASSUME NEW c \in DOMAIN p, Gaps(c)
               PROVE Covers <=> Around(p, c) \in Upwards(p, n) /\ Around(p, c) # n /\ LastIn(p, c) < n
    OBVIOUS
  <2>1. r.from = To(p, c) /\ r.to = To(p, Around(p, c))
    BY <1>1
  <2> QED BY <2>1, GapHolds
<1>4. Upwards(p, n) \subseteq DOMAIN p
  BY UpwardsFacts
<1>5. r \in AllRanges(p, run, f) <=> (\E m \in DOMAIN p : Mine(m)) \/ (\E m \in DOMAIN p : Arms1(m)) \/ (\E m \in DOMAIN p : Gaps(m))
  BY RangeCases
<1>6. r \in CoverNode(p, run, f, n) <=> r \in AllRanges(p, run, f) /\ Covers
  BY DEF CoverNode, Over
<1>7. /\ OwnCover(p, run, f, n, r) <=> \E m \in Upwards(p, n) : Mine(m)
      /\ ArmCover(p, run, f, n, r) <=> \E m \in Upwards(p, n) : Arms1(m)
      /\ GapCover(p, run, f, n, r) <=> \E c \in DOMAIN p : /\ Gaps(c) /\ Around(p, c) \in Upwards(p, n)
                                                            /\ Around(p, c) # n /\ LastIn(p, c) < n
  BY DEF OwnCover, ArmCover, GapCover
<1> HIDE DEF Covers, Mine, Arms1, Gaps
<1> QED BY <1>2, <1>3, <1>4, <1>5, <1>6, <1>7

(* What is calm holds, outside functions, what is calm only.               *)
LEMMA CalmInside ==
  ASSUME NEW p, Tree(p), Grammar(p), Shape(p), NEW x \in DOMAIN p, Calm(p, x),
         NEW c \in DOMAIN p, x \in Upwards(p, c)
  PROVE  Calm(p, c) \/ \E f \in Upwards(p, c) : p[f].kind = "Function" /\ f # x /\ x \in Upwards(p, f)
<1> DEFINE Between(m) == \E f \in Upwards(p, m) : p[f].kind = "Function" /\ f # x /\ x \in Upwards(p, f)
           S == {m \in DOMAIN p : x \in Upwards(p, m) => Calm(p, m) \/ Between(m)}
<1>1. ASSUME NEW m \in DOMAIN p, m = 1 \/ p[m].up \in S PROVE m \in S
  <2> SUFFICES ASSUME x \in Upwards(p, m), x # m, m # 1 PROVE Calm(p, m) \/ Between(m)
    <3>1. x \in Upwards(p, m) /\ x # m => m # 1
      BY UpwardsFacts, TreeFacts
    <3> QED BY <3>1
  <2> DEFINE u == p[m].up
  <2>1. u \in DOMAIN p /\ x \in Upwards(p, u) /\ Upwards(p, m) = {m} \cup Upwards(p, u) /\ m \in 2..Len(p)
    BY UpwardsFacts, UpwardsDefined, TreeFacts
  <2>2. Calm(p, u) \/ Between(u)
    BY <1>1, <2>1
  <2>3. CASE Between(u)
    BY <2>1, <2>3
  <2>4. CASE Calm(p, u) /\ p[m].kind = "Function"
    <3>1. m \in Upwards(p, m)
      BY UpwardsFacts
    <3> QED BY <2>4, <3>1
  <2>5. CASE Calm(p, u) /\ p[m].kind # "Function"
    <3>1. p[u].kind \notin Lists \cup Loops \cup {"If", "Switch", "Try", "Catch", "Function"}
      <4>1. p[u].kind # "Block"
        BY <2>1, <2>5 DEF Calm, Below
      <4> QED BY <2>5, <4>1 DEF Calm, Diverts, Lists, Loops
    <3>2. p[m].kind \notin {"Program", "Case", "Default", "Catch"}
      <4>1. p[m].slot = "handler" <=> p[m].kind = "Catch"
        BY <2>1 DEF Grammar
      <4>2. p[m].slot = "handler" => p[u].kind = "Try"
        BY <2>1 DEF Grammar
      <4>3. p[m].kind # "Program" /\ (p[m].kind \in {"Case", "Default"} <=> p[u].kind = "Switch")
        BY <2>1 DEF Grammar
      <4> QED BY <3>1, <4>1, <4>2, <4>3
    <3>3. p[m].kind \notin {"If", "Switch", "Try", "Return", "Throw", "Break"} \cup Loops
      BY <2>1, <3>1 DEF Shape
    <3>4. p[m].kind # "Block"
      BY <2>1, <3>1 DEF Shape
    <3> QED BY <2>5, <3>2, <3>3, <3>4 DEF Calm, Diverts
  <2> QED BY <2>2, <2>3, <2>4, <2>5
<1> HIDE DEF S
<1>2. DOMAIN p \subseteq S
  BY <1>1, TreeInduction
<1> QED BY <1>2 DEF S

(* An operand in the test of a loop that has no arm of its own there.      *)
Late(p, n) ==
  \E m \in Upwards(p, n) :
    /\ p[m].slot = "test" /\ p[p[m].up].kind \in Loops
    /\ \A k \in Upwards(p, n) : Counted(p, k) /\ (k = n => p[k].kind # "Function") => k < m

(* Statements are not.                                                     *)
LEMMA NeverLate ==
  ASSUME NEW p, Tree(p), Grammar(p), Shape(p), NEW n \in DOMAIN p,
         n = 1 \/ p[n].slot = "list" \/ p[n].kind \in {"Block", "Try"}
  PROVE  ~Late(p, n)
<1> DEFINE Statement(m) == m = 1 \/ p[m].slot = "list" \/ p[m].kind \in {"Block", "Try"}
           S == {m \in DOMAIN p : Statement(m) => ~Late(p, m)}
<1>1. ASSUME NEW m \in DOMAIN p, m = 1 \/ p[m].up \in S PROVE m \in S
  <2> SUFFICES ASSUME Statement(m), Late(p, m) PROVE FALSE
    OBVIOUS
  <2> DEFINE u == p[m].up
  <2>1. PICK t \in Upwards(p, m) :
          /\ p[t].slot = "test" /\ p[p[t].up].kind \in Loops
          /\ \A k \in Upwards(p, m) : Counted(p, k) /\ (k = m => p[k].kind # "Function") => k < t
    BY DEF Late
  <2>2. t \in DOMAIN p /\ t \in Nat /\ m \in Nat /\ t <= m /\ m \in Upwards(p, m)
    BY UpwardsFacts, TreeFacts
  <2>3. ~(Counted(p, m) /\ p[m].kind # "Function")
    BY <2>1, <2>2
  <2>4. m # 1
    BY <2>2, <2>3, TreeFacts DEF Counted, Scopes
  <2>5. u \in DOMAIN p /\ u \in Nat /\ u < m /\ Upwards(p, m) = {m} \cup Upwards(p, u) /\ u \in Upwards(p, u) /\ m \in 2..Len(p)
    BY <2>4, UpwardsFacts, UpwardsDefined, TreeFacts
  <2>6. t # m
    <3>1. p[m].kind = "Block" => p[m].slot \notin {"test", "param"}
      BY <2>5 DEF Shape
    <3>2. p[m].kind = "Try" => p[m].slot # "test"
      BY <2>5 DEF Shape
    <3> QED BY <2>1, <2>4, <3>1, <3>2
  <2>7. t \in Upwards(p, u) /\ t <= u
    BY <2>5, <2>6, UpwardsFacts
  <2>8. ~Counted(p, u)
    BY <2>1, <2>2, <2>5, <2>7
  <2>9. Late(p, u)
    <3>1. m \notin Upwards(p, u)
      BY <2>4, UpwardsFacts
    <3>2. \A k \in Upwards(p, u) : Counted(p, k) => k < t
      BY <2>1, <2>5, <3>1
    <3> QED BY <2>1, <2>7, <3>2 DEF Late
  <2>10. ~Statement(u)
    BY <1>1, <2>4, <2>9
  <2>11. /\ p[u].kind \notin {"Program", "Function", "Case", "Default", "Block", "Try"}
         /\ p[m].slot \notin ArmSlots \/ p[m].kind = "Function"
         /\ ~(p[m].slot = "body" /\ p[u].kind \in Loops \cup {"Catch"}) \/ p[m].kind = "Function"
    BY <2>3, <2>8, <2>10 DEF Counted, Scopes
  <2>12. CASE p[m].slot = "list"
    <3>1. p[u].kind \in Lists \cup {"Switch"} /\ (p[m].kind \in {"Case", "Default"} <=> p[u].kind = "Switch")
      BY <2>5, <2>12 DEF Grammar
    <3>2. p[m].kind \in {"Case", "Default"}
      BY <2>11, <3>1 DEF Lists
    <3> QED BY <2>3, <3>2 DEF Counted
  <2>13. CASE p[m].kind = "Block" /\ p[m].slot # "list"
    <3>1. p[u].kind \in Lists \cup {"If", "Try", "Catch", "Function"} \cup Loops /\ p[m].slot \in Slots(p[u].kind)
          /\ p[m].slot # "test"
      BY <2>5, <2>13 DEF Shape
    <3>2. p[u].kind \in {"If", "Catch", "While", "ForOf"}
      BY <2>11, <3>1 DEF Lists, Loops
    <3> QED BY <2>11, <2>13, <3>1, <3>2 DEF Slots, Lists, ArmSlots, Loops
  <2>14. CASE p[m].kind = "Try" /\ p[m].slot # "list"
    <3>1. p[u].kind \in Lists \cup {"If"} \cup Loops /\ p[m].slot \in Slots(p[u].kind)
          /\ p[m].slot # "test"
      BY <2>5, <2>14 DEF Shape
    <3>2. p[u].kind \in {"If", "While", "ForOf"}
      BY <2>11, <3>1 DEF Lists, Loops
    <3> QED BY <2>11, <2>14, <3>1, <3>2 DEF Slots, Lists, ArmSlots, Loops
  <2> QED BY <2>4, <2>12, <2>13, <2>14
<1> HIDE DEF S
<1>2. DOMAIN p \subseteq S
  BY <1>1, TreeInduction
<1> QED BY <1>2 DEF S

(* The least range of its function around a node counts what reaches it;   *)
(* less at an operand of a loop's test that has no arm of its own.         *)
Levelled(p, run, n) ==
  n = 1 \/ p[n].slot \notin {"param", "handler"} =>
    \E r \in CoverNode(p, run, HomeOf(p, n), n) :
      /\ Least(r, CoverNode(p, run, HomeOf(p, n), n))
      /\ r.count <= Reach(p, run, n) /\ (r.count = Reach(p, run, n) \/ Late(p, n))

(* What the counts of a process satisfy between its calls (FlowInv).       *)
Follows(p, run, n) ==
  /\ run.in[n] \in Nat /\ run.past[n] \in Nat
  /\ Calm(p, n) => run.past[n] = run.in[n]
  /\ n # 1 =>
       LET up == p[n].up IN
       /\ First(p, n) => run.in[up] <= Reach(p, run, n)
                         /\ (p[up].kind \notin Loops => run.in[up] = Reach(p, run, n))
       /\ p[n].slot = "body" /\ p[up].kind = "Function" => Reach(p, run, n) = run.in[up]
       /\ p[up].kind \in Lists /\ Next1(p, n) # {} => Reach(p, run, Min(Next1(p, n))) = run.past[n]
       /\ p[up].kind = "Block" /\ Next1(p, n) = {} => run.past[up] = run.past[n]

(* The function around a node.                                             *)
LEMMA HomeFacts ==
  ASSUME NEW p, Tree(p), NEW n \in DOMAIN p
  PROVE  /\ HomeOf(p, n) \in DOMAIN p
         /\ p[n].kind # "Function" => FunctionOf(p, n) = HomeOf(p, n)
         /\ p[n].kind = "Function" => /\ FunctionOf(p, n) = n /\ n # 1 /\ n # HomeOf(p, n)
                                      /\ HomeOf(p, n) = FunctionOf(p, p[n].up) /\ HomeOf(p, n) < n
<1>1. /\ FunctionOf(p, n) \in Upwards(p, n) /\ FunctionOf(p, n) <= n /\ n \in Nat /\ FunctionOf(p, n) \in Nat
      /\ FunctionOf(p, n) = 1 \/ p[FunctionOf(p, n)].kind = "Function"
  BY FunctionFacts, UpwardsFacts, TreeFacts
<1>2. CASE n = 1
  <2>1. FunctionOf(p, 1) = 1
    <3>1. 1 \in DOMAIN p /\ FunctionOf(p, 1) <= 1 /\ FunctionOf(p, 1) \in DOMAIN p
      BY TreeFacts, FunctionFacts, UpwardsFacts
    <3> QED BY <3>1, TreeFacts
  <2> QED BY <1>2, <2>1, TreeFacts DEF HomeOf
<1>3. CASE n # 1
  <2> DEFINE u == p[n].up
  <2>1. u \in DOMAIN p /\ u \in Nat /\ u < n /\ Upwards(p, n) = {n} \cup Upwards(p, u) /\ n \in Upwards(p, n)
    BY <1>3, UpwardsFacts, UpwardsDefined, TreeFacts
  <2>2. HomeOf(p, n) = FunctionOf(p, u)
    BY <1>3 DEF HomeOf
  <2>3. FunctionOf(p, u) \in DOMAIN p /\ FunctionOf(p, u) <= u /\ FunctionOf(p, u) \in Nat
    BY <2>1, FunctionFacts, UpwardsFacts, TreeFacts
  <2>4. ASSUME p[n].kind # "Function" PROVE FunctionOf(p, n) = FunctionOf(p, u)
    <3>1. FunctionOf(p, n) # n
      BY <1>1, <1>3, <2>4
    <3>2. FunctionOf(p, n) \in Upwards(p, u)
      BY <1>1, <2>1, <3>1
    <3>3. FunctionOf(p, u) \in Upwards(p, n) /\ u \in Upwards(p, n)
      BY <2>1, FunctionFacts, UpwardsFacts
    <3> QED BY <3>2, <3>3, FunctionFacts
  <2>5. p[n].kind = "Function" => FunctionOf(p, n) = n
    <3>1. p[n].kind = "Function" => n <= FunctionOf(p, n)
      BY <2>1, FunctionFacts
    <3> QED BY <1>1, <3>1
  <2> QED BY <1>1, <1>3, <2>1, <2>2, <2>3, <2>4, <2>5
<1> QED BY <1>2, <1>3

LEMMA CountTyped ==
  ASSUME NEW p, Tree(p), NEW run, \A k \in DOMAIN p : Follows(p, run, k), NEW f, NEW r \in AllRanges(p, run, f)
  PROVE  r.count \in Nat
<1>1. \A x, y, z : Range1(x, y, z).count = z
  BY DEF Range1
<1>2. PICK k \in DOMAIN p : r.count = run.in[k] \/ r.count = run.past[k]
  BY <1>1, RangeCases
<1> QED BY <1>2 DEF Follows

(* A node that is counted has a range of its own.                          *)
LEMMA OwnLevel ==
  ASSUME NEW p, Tree(p), Grammar(p), Shape(p), NEW run, NEW n \in DOMAIN p, Follows(p, run, n),
         \/ Counted(p, n) /\ p[n].kind # "Function"
         \/ p[n].kind = "Function" /\ p[n].slot \in ArmSlots
  PROVE  Levelled(p, run, n)
<1> DEFINE r == Range1(From(p, n), To(p, n), Reach(p, run, n))
           C == CoverNode(p, run, HomeOf(p, n), n)
<1>1. n \in Upwards(p, n)
  BY UpwardsFacts
<1>2. r \in C
  <2>1. CASE Counted(p, n) /\ p[n].kind # "Function"
    <3>1. OwnCover(p, run, HomeOf(p, n), n, r)
      BY <1>1, <2>1, HomeFacts DEF OwnCover, Reach
    <3> QED BY <3>1, CoverCases
  <2>2. CASE p[n].kind = "Function" /\ p[n].slot \in ArmSlots
    <3>1. ArmCover(p, run, HomeOf(p, n), n, r)
      BY <1>1, <2>2, HomeFacts DEF ArmCover, Reach
    <3> QED BY <3>1, CoverCases
  <2> QED BY <2>1, <2>2
<1>3. Least(r, C)
  BY <1>2 DEF Least, CoverNode, Over, Within, Range1
<1>4. r.count = Reach(p, run, n) /\ Reach(p, run, n) \in Nat
  BY DEF Range1, Reach, Follows
<1>5. r.count <= Reach(p, run, n)
  BY <1>4
<1> QED BY <1>2, <1>3, <1>4, <1>5 DEF Levelled

(* What covers a node and what covers its parent, if it has no range of    *)
(* its own in the function around it.                                      *)
Plainly(p, n) == ~(Counted(p, n) /\ p[n].kind # "Function") /\ ~(p[n].kind = "Function" /\ p[n].slot \in ArmSlots)
LEMMA CoverAbove ==
  ASSUME NEW p, Tree(p), Grammar(p), Shape(p), NEW run, NEW n \in DOMAIN p, n # 1, Plainly(p, n), NEW r
  PROVE  LET u == p[n].up f == HomeOf(p, n) IN
         /\ OwnCover(p, run, f, n, r) <=> OwnCover(p, run, f, u, r)
         /\ ArmCover(p, run, f, n, r) <=> ArmCover(p, run, f, u, r)
<1> DEFINE u == p[n].up
           f == HomeOf(p, n)
<1>1. Upwards(p, n) = {n} \cup Upwards(p, u)
  BY UpwardsDefined
<1>2. ~(FunctionOf(p, n) = f /\ Counted(p, n))
  BY HomeFacts DEF Plainly
<1>3. ~(p[n].kind = "Function" /\ p[n].slot \in ArmSlots)
  BY DEF Plainly
<1> HIDE DEF f, u
<1>4. OwnCover(p, run, f, n, r) <=> OwnCover(p, run, f, u, r)
  BY <1>1, <1>2 DEF OwnCover
<1>5. ArmCover(p, run, f, n, r) <=> ArmCover(p, run, f, u, r)
  BY <1>1, <1>3 DEF ArmCover
<1> QED BY <1>4, <1>5 DEF f, u

(* The body of a function runs when the function is called.                *)
LEMMA BodyLevel ==
  ASSUME NEW p, Tree(p), Grammar(p), Shape(p), NEW run, NEW n \in DOMAIN p, Follows(p, run, n),
         n # 1, p[p[n].up].kind = "Function", Plainly(p, n)
  PROVE  Levelled(p, run, n)
<1> DEFINE u == p[n].up
           r == Range1(From(p, u), To(p, u), run.in[u])
           C == CoverNode(p, run, u, n)
<1> SUFFICES ASSUME p[n].slot \notin {"param", "handler"} PROVE Levelled(p, run, n)
  BY DEF Levelled
<1>1. u \in DOMAIN p /\ u \in Nat /\ n \in Nat /\ n \in 2..Len(p) /\ u < n /\ u \in Upwards(p, u) /\ u \in Upwards(p, n)
  BY UpwardsFacts, UpwardsDefined, TreeFacts
<1>2. FunctionOf(p, u) = u /\ u # 1 /\ Counted(p, u) /\ HomeOf(p, n) = u /\ HomeOf(p, u) < u
  <2>1. FunctionOf(p, u) = u /\ u # 1 /\ HomeOf(p, u) < u
    BY <1>1, HomeFacts
  <2> QED BY <2>1 DEF Counted, Scopes, HomeOf
<1>3. p[n].slot = "body"
  BY <1>1 DEF Shape, Slots, Lists
<1>4. ASSUME NEW m \in Upwards(p, u), FunctionOf(p, m) = u PROVE m = u
  <2>1. m \in DOMAIN p /\ u \in Upwards(p, m) /\ m <= u /\ m \in Nat
    BY <1>1, <1>4, FunctionFacts, UpwardsFacts, TreeFacts
  <2>2. u <= m
    BY <2>1, UpwardsFacts
  <2> QED BY <1>1, <2>1, <2>2
<1>5. ASSUME NEW s, OwnCover(p, run, u, n, s) PROVE s = r
  <2>1. OwnCover(p, run, u, u, s)
    BY <1>2, <1>5, CoverAbove
  <2> QED BY <1>4, <2>1 DEF OwnCover
<1>6. ASSUME NEW s, ArmCover(p, run, u, n, s) PROVE FALSE
  <2>1. ArmCover(p, run, u, u, s)
    BY <1>2, <1>6, CoverAbove
  <2>2. PICK m \in Upwards(p, u) : p[m].kind = "Function" /\ FunctionOf(p, p[m].up) = u
    BY <2>1 DEF ArmCover
  <2>3. m \in DOMAIN p /\ m <= u /\ m \in Nat
    BY <1>1, UpwardsFacts, TreeFacts
  <2>4. HomeOf(p, m) = u /\ HomeOf(p, m) < m
    BY <2>2, <2>3, HomeFacts
  <2> QED BY <1>1, <2>3, <2>4
<1>7. ASSUME NEW s, GapCover(p, run, u, n, s) PROVE FALSE
  <2>1. PICK c \in DOMAIN p : /\ FunctionOf(p, c) = u /\ GapRange(p, s, c)
                              /\ Around(p, c) \in Upwards(p, n) /\ Around(p, c) # n /\ LastIn(p, c) < n
    BY <1>7 DEF GapCover
  <2>2. u \in Upwards(p, c) /\ u # c /\ c \in Nat
    <3>1. u \in Upwards(p, c) /\ p[c].kind # "Function"
      BY <2>1, FunctionFacts DEF GapRange, Diverts, Loops
    <3> QED BY <3>1, TreeFacts
  <2>3. PICK d \in Below(p, u) : d \in Upwards(p, c)
    BY <1>1, <2>2, PartAbove
  <2>4. d \in DOMAIN p /\ p[d].up = u /\ d \in 2..Len(p) /\ d # 1
    <3>1. d \in DOMAIN p /\ p[d].up = u /\ d # 1
      BY <1>1, <2>3, PartFacts
    <3>2. Len(p) \in Nat /\ d \in 1..Len(p)
      BY <3>1, TreeFacts
    <3> QED BY <3>1, <3>2
  <2>5. d # n
    <3>1. LastIn(p, c) \in Nat /\ c <= LastIn(p, c)
      BY InnerFacts
    <3>2. d <= c
      BY <2>3, UpwardsFacts
    <3> QED BY <1>1, <2>1, <2>2, <2>4, <3>1, <3>2
  <2>6. p[d].slot = "param"
    <3>1. p[d].slot \in {"param", "body"}
      BY <2>4 DEF Shape, Slots, Lists
    <3>2. PICK b \in Below(p, u) : \A e \in Below(p, u) : p[e].slot = "body" => e = b
      BY <1>1, OnlyBody
    <3>3. n \in Below(p, u)
      BY DEF Below
    <3> QED BY <1>3, <2>3, <2>5, <3>1, <3>2, <3>3
  <2>7. c = d
    <3>1. Below(p, d) = {}
      BY <2>4, <2>6 DEF Shape
    <3> QED BY <2>3, <3>1, PartAbove
  <2>8. p[c].kind \in {"If", "Switch", "Try", "Return", "Throw", "Break"} \cup Loops
    BY <2>1 DEF GapRange, Diverts
  <2> QED BY <2>4, <2>7, <2>8 DEF Shape, Lists, Loops
<1>8. r \in C
  <2>1. OwnCover(p, run, u, n, r)
    BY <1>1, <1>2 DEF OwnCover
  <2> QED BY <2>1, CoverCases
<1>9. C = {r}
  BY <1>5, <1>6, <1>7, <1>8, CoverCases
<1>10. Least(r, C)
  <2>1. r.from \in Nat /\ r.to \in Nat
    BY <1>1, TextFacts DEF Range1
  <2> HIDE DEF C, r
  <2> QED BY <1>9, <2>1 DEF Least, Within
<1>11. r.count = Reach(p, run, n) /\ Reach(p, run, n) \in Nat
  BY <1>3 DEF Range1, Reach, Follows
<1>12. r.count <= Reach(p, run, n)
  BY <1>11
<1> HIDE DEF r
<1> QED BY <1>2, <1>8, <1>10, <1>11, <1>12 DEF Levelled

(* A first part is reached with its construct; a loop's test more often.   *)
LEMMA FirstLevel ==
  ASSUME NEW p, Tree(p), Grammar(p), Shape(p), NEW run, \A k \in DOMAIN p : Follows(p, run, k),
         NEW n \in DOMAIN p, n # 1, Plainly(p, n), First(p, n), Levelled(p, run, p[n].up)
  PROVE  Levelled(p, run, n)
<1> DEFINE u == p[n].up
           f == HomeOf(p, n)
<1>1. /\ u \in DOMAIN p /\ u \in Nat /\ n \in Nat /\ n \in 2..Len(p) /\ n = u + 1
      /\ u \in Upwards(p, u) /\ u \in Upwards(p, n) /\ n \in Upwards(p, n)
      /\ Upwards(p, n) = {n} \cup Upwards(p, u) /\ p[n].slot \in Firsts
      /\ u # 1 => u \in 2..Len(p)
  <2>1. u \in DOMAIN p /\ u \in Nat /\ n \in Nat /\ n \in 2..Len(p) /\ (u # 1 => u \in 2..Len(p))
    BY UpwardsFacts, TreeFacts
  <2> QED BY <2>1, UpwardsFacts, UpwardsDefined DEF First
<1>2. p[u].kind # "Function" /\ (u = 1 \/ p[u].slot \notin {"param", "handler"})
  <2>1. p[n].slot \in Slots(p[u].kind)
    BY <1>1 DEF Shape
  <2>2. p[u].kind # "Function"
    BY <1>1, <2>1 DEF Slots, Lists, Firsts
  <2>3. u # 1 /\ p[u].slot = "param" => FALSE
    <3>1. u # 1 /\ p[u].slot = "param" => Below(p, u) = {}
      BY <1>1 DEF Shape
    <3>2. n \in Below(p, u)
      BY DEF Below
    <3> QED BY <3>1, <3>2
  <2>4. u # 1 /\ p[u].slot = "handler" => FALSE
    <3>1. u # 1 /\ p[u].slot = "handler" => p[u].kind = "Catch"
      BY <1>1 DEF Grammar
    <3>2. p[u].kind = "Catch" => p[n].slot = "body"
      BY <1>1 DEF Grammar
    <3> QED BY <1>1, <3>1, <3>2 DEF Firsts
  <2> QED BY <2>2, <2>3, <2>4
<1>3. HomeOf(p, u) = f
  BY <1>1, <1>2, HomeFacts DEF HomeOf
<1>4. ASSUME NEW c \in DOMAIN p, LastIn(p, c) < n
      PROVE  LastIn(p, c) < u /\ Around(p, c) # u
  <2>1. c <= LastIn(p, c) /\ LastIn(p, c) \in Nat /\ c \in Nat /\ LastIn(p, u) \in Nat /\ n <= LastIn(p, u)
    BY <1>1, InnerFacts, BehindFacts, TreeFacts
  <2>2. c \notin Upwards(p, u)
    <3>1. c \in Upwards(p, u) => LastIn(p, u) <= LastIn(p, c)
      BY <1>1, BehindFacts
    <3> QED BY <1>1, <1>4, <2>1, <3>1
  <2>3. c <= u /\ u <= LastIn(p, c) => c \in Upwards(p, u)
    BY <1>1, BehindFacts
  <2>4. Around(p, c) <= c /\ Around(p, c) \in Upwards(p, c) /\ Around(p, c) \in Nat
    BY AroundFacts, UpwardsFacts, TreeFacts
  <2>5. c <= u
    BY <1>1, <1>4, <2>1
  <2>6. LastIn(p, c) < u
    BY <1>1, <2>1, <2>2, <2>3, <2>5
  <2> QED BY <1>1, <2>1, <2>4, <2>6
<1>5. ASSUME NEW s PROVE GapCover(p, run, f, n, s) <=> GapCover(p, run, f, u, s)
  <2> DEFINE Gaps(c) == /\ FunctionOf(p, c) = f /\ GapRange(p, s, c)
                        /\ s = Range1(To(p, c), To(p, Around(p, c)), run.past[c])
  <2>1. ASSUME NEW c \in DOMAIN p
        PROVE  Around(p, c) \in Upwards(p, n) /\ Around(p, c) # n /\ LastIn(p, c) < n
                 <=> Around(p, c) \in Upwards(p, u) /\ Around(p, c) # u /\ LastIn(p, c) < u
    <3>1. LastIn(p, c) \in Nat
      BY InnerFacts
    <3>2. n \notin Upwards(p, u)
      BY UpwardsFacts
    <3> QED BY <1>1, <1>4, <3>1, <3>2
  <2>2. /\ GapCover(p, run, f, n, s) <=> \E c \in DOMAIN p : /\ Gaps(c) /\ Around(p, c) \in Upwards(p, n)
                                                             /\ Around(p, c) # n /\ LastIn(p, c) < n
        /\ GapCover(p, run, f, u, s) <=> \E c \in DOMAIN p : /\ Gaps(c) /\ Around(p, c) \in Upwards(p, u)
                                                             /\ Around(p, c) # u /\ LastIn(p, c) < u
    BY DEF GapCover
  <2> HIDE DEF Gaps
  <2> QED BY <2>1, <2>2
<1> DEFINE C == CoverNode(p, run, f, n)
<1>6. C = CoverNode(p, run, f, u)
  <2>1. \A s : s \in C <=> s \in CoverNode(p, run, f, u)
    BY <1>1, <1>5, CoverAbove, CoverCases
  <2>2. C \subseteq AllRanges(p, run, f) /\ CoverNode(p, run, f, u) \subseteq AllRanges(p, run, f)
    BY DEF CoverNode, Over
  <2> QED BY <2>1, <2>2
<1>7. PICK r \in C : Least(r, C) /\ r.count <= Reach(p, run, u) /\ (r.count = Reach(p, run, u) \/ Late(p, u))
  BY <1>2, <1>3, <1>6 DEF Levelled
<1>8. Reach(p, run, u) = run.in[u] /\ run.in[u] \in Nat /\ Reach(p, run, n) \in Nat
  BY <1>1, <1>2 DEF Reach, Follows
<1>9. run.in[u] <= Reach(p, run, n) /\ (p[u].kind \notin Loops => run.in[u] = Reach(p, run, n))
  <2>1. Follows(p, run, n)
    OBVIOUS
  <2> QED BY <2>1 DEF Follows
<1>10. ~(Counted(p, n) /\ p[n].kind # "Function")
  BY DEF Plainly
<1>11. Late(p, u) => Late(p, n)
  <2> SUFFICES ASSUME NEW m \in Upwards(p, u), p[m].slot = "test", p[p[m].up].kind \in Loops,
                      \A k \in Upwards(p, u) : Counted(p, k) /\ (k = u => p[k].kind # "Function") => k < m
               PROVE  Late(p, n)
    BY DEF Late
  <2>1. \A k \in Upwards(p, n) : Counted(p, k) /\ (k = n => p[k].kind # "Function") => k < m
    BY <1>1, <1>2, <1>10
  <2> QED BY <1>1, <2>1 DEF Late
<1>12. p[u].kind \in Loops => Late(p, n)
  <2> SUFFICES ASSUME p[u].kind \in Loops PROVE Late(p, n)
    OBVIOUS
  <2>1. p[n].slot = "test"
    <3>1. p[n].slot \in Slots(p[u].kind)
      BY <1>1 DEF Shape
    <3> QED BY <1>1, <3>1 DEF Slots, Loops, Lists, Firsts
  <2>2. \A k \in Upwards(p, n) : Counted(p, k) /\ (k = n => p[k].kind # "Function") => k < n
    <3>1. \A k \in Upwards(p, n) : k <= n /\ k \in Nat
      BY UpwardsFacts, TreeFacts
    <3> QED BY <1>1, <1>10, <3>1
  <2> QED BY <1>1, <2>1, <2>2 DEF Late
<1>13. r.count <= Reach(p, run, n)
  <2>1. CASE p[u].kind \notin Loops
    BY <1>7, <1>8, <1>9, <2>1
  <2>2. CASE r.count = Reach(p, run, u)
    BY <1>8, <1>9, <2>2
  <2>3. r.count \in Nat
    <3>1. r \in AllRanges(p, run, f)
      BY DEF CoverNode, Over
    <3> QED BY <3>1, CountTyped
  <2> QED BY <1>7, <1>8, <1>9, <2>3
<1>14. r.count = Reach(p, run, n) \/ Late(p, n)
  BY <1>7, <1>8, <1>9, <1>11, <1>12
<1> QED BY <1>7, <1>13, <1>14 DEF Levelled

(* The last of what comes before a statement: the statement before it, or  *)
(* the last one in the block that this is.                                 *)
Trails(p, q, x) ==
  /\ q \in DOMAIN p /\ q # 1 /\ x \in DOMAIN p /\ x # 1 /\ q \in Upwards(p, x)
  /\ LastIn(p, x) = LastIn(p, q) /\ p[x].slot = "list" /\ p[p[x].up].kind \in Lists
  /\ \A b \in Upwards(p, x) : b # x /\ q \in Upwards(p, b) => p[b].kind = "Block" /\ p[b].slot = "list"

LEMMA TrailFacts ==
  ASSUME NEW p, Tree(p), Grammar(p), Shape(p), NEW q, NEW x, Trails(p, q, x)
  PROVE  LET u == p[q].up IN
         /\ u \in DOMAIN p /\ u < x /\ Upwards(p, u) \subseteq Upwards(p, x) /\ x \notin Upwards(p, u)
         /\ x \in Nat /\ x \in 2..Len(p)
         /\ \A b \in Upwards(p, x) :
              b \in Upwards(p, u) \/ b = x \/ (p[b].kind = "Block" /\ ~Counted(p, b) /\ ~Diverts(p, b))
         /\ HomeOf(p, x) = FunctionOf(p, u)
<1> DEFINE u == p[q].up
           v == p[x].up
<1>1. /\ q \in DOMAIN p /\ q # 1 /\ x \in DOMAIN p /\ x # 1 /\ q \in Upwards(p, x)
      /\ \A b \in Upwards(p, x) : b # x /\ q \in Upwards(p, b) => p[b].kind = "Block" /\ p[b].slot = "list"
  BY DEF Trails
<1>2. /\ u \in DOMAIN p /\ u \in Nat /\ u < q /\ q \in Nat /\ x \in Nat /\ x \in 2..Len(p) /\ q <= x
      /\ Upwards(p, q) = {q} \cup Upwards(p, u) /\ Upwards(p, q) \subseteq Upwards(p, x)
      /\ v \in DOMAIN p /\ Upwards(p, x) = {x} \cup Upwards(p, v) /\ x \notin Upwards(p, v)
  <2>1. u \in DOMAIN p /\ u \in Nat /\ u < q /\ q \in Nat /\ x \in Nat /\ x \in 2..Len(p)
    BY <1>1, TreeFacts
  <2>2. q <= x /\ Upwards(p, q) \subseteq Upwards(p, x) /\ v \in DOMAIN p /\ x \notin Upwards(p, v)
    BY <1>1, UpwardsFacts
  <2>3. Upwards(p, q) = {q} \cup Upwards(p, u) /\ Upwards(p, x) = {x} \cup Upwards(p, v)
    BY <1>1, UpwardsDefined
  <2> QED BY <2>1, <2>2, <2>3
<1>3. Upwards(p, u) \subseteq Upwards(p, x) /\ x \notin Upwards(p, u) /\ u < x
  <2>1. \A b \in Upwards(p, u) : b <= u /\ b \in Nat
    BY <1>2, UpwardsFacts, TreeFacts
  <2> QED BY <1>2, <2>1
<1>4. ASSUME NEW b \in Upwards(p, x)
      PROVE  b \in Upwards(p, u) \/ b = x \/ (p[b].kind = "Block" /\ ~Counted(p, b) /\ ~Diverts(p, b))
  <2>1. b \in Upwards(p, q) \/ q \in Upwards(p, b)
    BY <1>1, ChainFacts
  <2>2. q \in Upwards(p, q) /\ (b \in Upwards(p, q) => b \in Upwards(p, u) \/ b = q)
    BY <1>1, <1>2, UpwardsFacts
  <2>3. b \in Upwards(p, u) \/ b = x \/ (p[b].kind = "Block" /\ p[b].slot = "list")
    BY <1>1, <2>1, <2>2
  <2> QED BY <2>3 DEF Counted, Diverts, Scopes, ArmSlots, Loops
<1>5. HomeOf(p, x) = FunctionOf(p, v)
  BY <1>1 DEF HomeOf
<1>6. FunctionOf(p, v) \in Upwards(p, u)
  <2>1. FunctionOf(p, v) \in Upwards(p, v) /\ (FunctionOf(p, v) = 1 \/ p[FunctionOf(p, v)].kind = "Function")
    BY <1>2, FunctionFacts
  <2>2. 1 \in Upwards(p, u)
    BY <1>2, UpwardsFacts
  <2> QED BY <1>2, <1>4, <2>1, <2>2
<1>7. u \in Upwards(p, v)
  <2>1. u \in Upwards(p, x)
    BY <1>2, <1>3, UpwardsFacts
  <2> QED BY <1>2, <1>3, <2>1
<1>8. FunctionOf(p, u) = FunctionOf(p, v)
  BY <1>2, <1>6, <1>7, FunctionFacts
<1> QED BY <1>2, <1>3, <1>4, <1>5, <1>8

(* What ends before a statement ends before what trails it, but for what   *)
(* is in that.                                                             *)
LEMMA TrailEnds ==
  ASSUME NEW p, Tree(p), Grammar(p), Shape(p), NEW q, NEW x, Trails(p, q, x),
         NEW n \in DOMAIN p, n = LastIn(p, q) + 1, p[q].up = p[n].up, n # 1,
         NEW c \in DOMAIN p, LastIn(p, c) < n, Diverts(p, c)
  PROVE  LastIn(p, c) < x \/ x \in Upwards(p, c)
<1>1. /\ x \in DOMAIN p /\ LastIn(p, x) = LastIn(p, q) /\ x \in Nat
  BY TrailFacts DEF Trails
<1>2. /\ LastIn(p, c) \in Nat /\ c <= LastIn(p, c) /\ c \in Nat /\ n \in Nat
      /\ LastIn(p, x) \in Nat /\ n = LastIn(p, x) + 1
  BY <1>1, InnerFacts, TreeFacts
<1>3. \/ c \in Upwards(p, x) \/ x \in Upwards(p, c)
      \/ LastIn(p, x) < c \/ LastIn(p, c) < x
  BY <1>1, BehindFacts
<1>4. ASSUME c \in Upwards(p, x), c # x PROVE FALSE
  <2>1. c \in Upwards(p, p[n].up)
    BY <1>4, TrailFacts
  <2>2. n \in Upwards(p, n) /\ c \in Upwards(p, n)
    BY <2>1, UpwardsFacts, UpwardsDefined
  <2>3. n <= LastIn(p, c)
    BY <2>2, BehindFacts
  <2> QED BY <1>2, <2>3
<1>5. x \in Upwards(p, x)
  BY <1>1, UpwardsFacts
<1> QED BY <1>2, <1>3, <1>4, <1>5

Tells(C, count) == \E r \in C : Least(r, C) /\ r.count = count

(* Behind a construct that control may not come out of, its gap is the     *)
(* least range.                                                            *)
LEMMA GapTrail ==
  ASSUME NEW p, Tree(p), Grammar(p), Shape(p), NEW run, NEW q, NEW x, Trails(p, q, x), Diverts(p, x),
         NEW n \in DOMAIN p, n = LastIn(p, q) + 1, p[q].up = p[n].up, n # 1, Plainly(p, n)
  PROVE  Tells(CoverNode(p, run, HomeOf(p, n), n), run.past[x])
<1> DEFINE u == p[n].up
           f == HomeOf(p, n)
           C == CoverNode(p, run, f, n)
           a == Around(p, x)
           r == Range1(To(p, x), To(p, a), run.past[x])
<1>1. /\ x \in DOMAIN p /\ LastIn(p, x) = LastIn(p, q) /\ x \in Nat /\ p[x].slot = "list"
      /\ u \in DOMAIN p /\ Upwards(p, u) \subseteq Upwards(p, x) /\ x \notin Upwards(p, u)
      /\ HomeOf(p, x) = FunctionOf(p, u)
  BY TrailFacts DEF Trails
<1>2. f = FunctionOf(p, u) /\ f = FunctionOf(p, x)
  <2>1. p[x].kind # "Function"
    BY DEF Diverts, Loops
  <2> QED BY <1>1, <2>1, HomeFacts DEF HomeOf
<1>3. Upwards(p, n) = {n} \cup Upwards(p, u) /\ n \notin Upwards(p, u) /\ n \in Upwards(p, n)
  BY UpwardsFacts, UpwardsDefined
<1>4. LastIn(p, x) < n
  BY <1>1, InnerFacts
<1>5. a \in Upwards(p, u) /\ a \in DOMAIN p /\ Counted(p, a)
  <2>1. a \in Upwards(p, x) /\ a \in DOMAIN p /\ Counted(p, a)
    BY <1>1, AroundFacts
  <2>2. ~Counted(p, x)
    BY <1>1 DEF Diverts, Counted, Scopes, ArmSlots, Loops
  <2> QED BY <2>1, <2>2, TrailFacts
<1>6. /\ To(p, x) < From(p, n) /\ From(p, n) < To(p, n) /\ To(p, n) <= To(p, a)
      /\ To(p, x) \in Nat /\ From(p, n) \in Nat /\ To(p, n) \in Nat /\ To(p, a) \in Nat /\ From(p, x) \in Nat
      /\ From(p, x) < To(p, x)
  <2>1. To(p, x) < From(p, n)
    BY <1>1, <1>4, TextFacts
  <2>2. To(p, n) <= To(p, a)
    BY <1>3, <1>5, TextFacts DEF Holds
  <2> QED BY <1>1, <1>5, <2>1, <2>2, TextFacts
<1>7. r \in C
  <2>1. To(p, x) < To(p, a)
    BY <1>6
  <2>2. GapRange(p, r, x)
    BY <2>1 DEF GapRange, Range1
  <2>3. GapCover(p, run, f, n, r)
    BY <1>1, <1>2, <1>3, <1>4, <1>5, <2>2 DEF GapCover
  <2> QED BY <2>3, CoverCases
<1>8. r.from = To(p, x) /\ r.to = To(p, a) /\ r.count = run.past[x]
  BY DEF Range1
<1>9. ASSUME NEW s \in C PROVE s.from <= To(p, x) /\ To(p, a) <= s.to
  <2>1. ASSUME NEW m \in Upwards(p, u), Counted(p, m)
        PROVE  From(p, m) <= To(p, x) /\ To(p, a) <= To(p, m)
    <3>1. m \in Upwards(p, x) /\ m \in DOMAIN p
      BY <1>1, UpwardsFacts
    <3>2. m \in Upwards(p, a)
      BY <1>1, <2>1, <3>1, AroundFacts
    <3>3. To(p, a) <= To(p, m) /\ From(p, m) <= From(p, x)
      BY <1>1, <1>5, <3>1, <3>2, TextFacts DEF Holds
    <3> QED BY <1>6, <3>1, <3>3, TextFacts
  <2>2. CASE OwnCover(p, run, f, n, s)
    <3>1. OwnCover(p, run, f, u, s)
      BY <2>2, CoverAbove
    <3>2. PICK m \in Upwards(p, u) : Counted(p, m) /\ s.from = From(p, m) /\ s.to = To(p, m)
      BY <3>1 DEF OwnCover, Range1
    <3> QED BY <2>1, <3>2
  <2>3. CASE ArmCover(p, run, f, n, s)
    <3>1. ArmCover(p, run, f, u, s)
      BY <2>3, CoverAbove
    <3>2. PICK m \in Upwards(p, u) : p[m].kind = "Function" /\ s.from = From(p, m) /\ s.to = To(p, m)
      BY <3>1 DEF ArmCover, Range1
    <3>3. Counted(p, m)
      BY <3>2 DEF Counted, Scopes
    <3> QED BY <2>1, <3>2, <3>3
  <2>4. CASE GapCover(p, run, f, n, s)
    <3>1. PICK c \in DOMAIN p : /\ Diverts(p, c) /\ s.from = To(p, c) /\ s.to = To(p, Around(p, c))
                                /\ Around(p, c) \in Upwards(p, n) /\ Around(p, c) # n /\ LastIn(p, c) < n
      BY <2>4 DEF GapCover, GapRange
    <3>2. To(p, a) <= To(p, Around(p, c))
      BY <1>3, <2>1, <3>1, AroundFacts
    <3>3. To(p, c) <= To(p, x)
      <4>1. CASE LastIn(p, c) < x
        <5>1. To(p, c) < From(p, x) /\ To(p, c) \in Nat
          BY <1>1, <4>1, TextFacts
        <5> QED BY <1>6, <5>1
      <4>2. CASE x \in Upwards(p, c)
        BY <4>2, TextFacts DEF Holds
      <4> QED BY <3>1, <4>1, <4>2, TrailEnds
    <3> QED BY <3>1, <3>2, <3>3
  <2> QED BY <2>2, <2>3, <2>4, CoverCases
<1> HIDE DEF r, C
<1>10. Least(r, C)
  BY <1>7, <1>8, <1>9 DEF Least, Within
<1> QED BY <1>7, <1>8, <1>10 DEF C, Tells

(* What trails a statement and is calm, or a function, is covered by the   *)
(* ranges that cover the statement.                                        *)
LEMMA SameTrail ==
  ASSUME NEW p, Tree(p), Grammar(p), Shape(p), NEW run, NEW q, NEW x, Trails(p, q, x),
         Calm(p, x) \/ p[x].kind = "Function",
         NEW n \in DOMAIN p, n = LastIn(p, q) + 1, p[q].up = p[n].up, n # 1, Plainly(p, n)
  PROVE  HomeOf(p, x) = HomeOf(p, n) /\ CoverNode(p, run, HomeOf(p, n), x) = CoverNode(p, run, HomeOf(p, n), n)
<1> DEFINE u == p[n].up
           f == HomeOf(p, n)
<1>1. /\ x \in DOMAIN p /\ LastIn(p, x) = LastIn(p, q) /\ x \in Nat /\ p[x].slot = "list"
      /\ u \in DOMAIN p /\ Upwards(p, u) \subseteq Upwards(p, x) /\ x \notin Upwards(p, u)
      /\ HomeOf(p, x) = FunctionOf(p, u)
  BY TrailFacts DEF Trails
<1>2. f = FunctionOf(p, u) /\ f = HomeOf(p, x)
  BY <1>1, HomeFacts DEF HomeOf
<1>3. Upwards(p, n) = {n} \cup Upwards(p, u) /\ n \notin Upwards(p, u) /\ n \in Upwards(p, n)
  BY UpwardsFacts, UpwardsDefined
<1>4. LastIn(p, x) < n /\ x <= LastIn(p, x) /\ LastIn(p, x) \in Nat /\ n \in Nat
  BY <1>1, InnerFacts, TreeFacts
<1>5. ~(FunctionOf(p, x) = f /\ Counted(p, x)) /\ ~(p[x].kind = "Function" /\ p[x].slot \in ArmSlots)
  <2>1. p[x].slot \notin ArmSlots
    BY <1>1 DEF ArmSlots
  <2>2. CASE p[x].kind = "Function"
    BY <1>1, <1>2, <2>1, <2>2, HomeFacts
  <2>3. CASE Calm(p, x)
    BY <1>1, <2>1, <2>3 DEF Calm, Counted, Scopes
  <2> QED BY <2>1, <2>2, <2>3
<1>6. ASSUME NEW m \in Upwards(p, x), Counted(p, m), m # x PROVE m \in Upwards(p, u)
  BY <1>6, TrailFacts
<1>7. ASSUME NEW s PROVE OwnCover(p, run, f, x, s) <=> OwnCover(p, run, f, u, s)
  BY <1>1, <1>5, <1>6 DEF OwnCover
<1>8. ASSUME NEW s PROVE ArmCover(p, run, f, x, s) <=> ArmCover(p, run, f, u, s)
  <2>1. \A m : p[m].kind = "Function" => Counted(p, m)
    BY DEF Counted, Scopes
  <2> QED BY <1>1, <1>5, <1>6, <2>1 DEF ArmCover
<1>9. ASSUME NEW c \in DOMAIN p, FunctionOf(p, c) = f, Diverts(p, c)
      PROVE  Around(p, c) \in Upwards(p, n) /\ Around(p, c) # n /\ LastIn(p, c) < n
               <=> Around(p, c) \in Upwards(p, x) /\ Around(p, c) # x /\ LastIn(p, c) < x
  <2>1. LastIn(p, c) \in Nat /\ Counted(p, Around(p, c))
    BY InnerFacts, AroundFacts
  <2>2. Around(p, c) \in Upwards(p, n) /\ Around(p, c) # n <=> Around(p, c) \in Upwards(p, x) /\ Around(p, c) # x
    BY <1>1, <1>3, <1>6, <2>1
  <2>3. x \notin Upwards(p, c)
    <3> SUFFICES ASSUME x \in Upwards(p, c) PROVE FALSE
      OBVIOUS
    <3>1. p[c].kind # "Function" /\ ~Calm(p, c)
      BY <1>9 DEF Diverts, Loops, Calm
    <3>2. PICK g \in Upwards(p, c) : p[g].kind = "Function" /\ x \in Upwards(p, g)
      <4>1. CASE p[x].kind = "Function"
        <5>1. x \in Upwards(p, x)
          BY <1>1, UpwardsFacts
        <5> QED BY <4>1, <5>1
      <4>2. CASE Calm(p, x)
        BY <1>1, <3>1, <4>2, CalmInside
      <4> QED BY <4>1, <4>2
    <3>3. g \in DOMAIN p /\ g \in Nat /\ x <= g /\ g <= f /\ f \in Nat
      BY <1>9, <3>2, FunctionFacts, UpwardsFacts, TreeFacts
    <3>4. f <= u /\ u < x /\ u \in Nat
      <4>1. f \in Upwards(p, u)
        BY <1>1, <1>2, FunctionFacts, TrailFacts
      <4>2. u < x
        BY <1>1, <1>2, TrailFacts, TreeFacts
      <4> QED BY <1>1, <4>1, <4>2, UpwardsFacts, TreeFacts
    <3> QED BY <1>1, <3>3, <3>4
  <2>4. LastIn(p, c) < n => LastIn(p, c) < x
    BY <1>9, <2>3, TrailEnds
  <2>5. LastIn(p, c) < x => LastIn(p, c) < n
    BY <1>1, <1>4, <2>1
  <2> QED BY <2>2, <2>4, <2>5
<1>10. ASSUME NEW s PROVE GapCover(p, run, f, n, s) <=> GapCover(p, run, f, x, s)
  <2> DEFINE Gaps(c) == s = Range1(To(p, c), To(p, Around(p, c)), run.past[c])
             A(c) == Around(p, c) \in Upwards(p, n) /\ Around(p, c) # n /\ LastIn(p, c) < n
             B(c) == Around(p, c) \in Upwards(p, x) /\ Around(p, c) # x /\ LastIn(p, c) < x
  <2>1. GapCover(p, run, f, n, s) <=> \E c \in DOMAIN p : FunctionOf(p, c) = f /\ GapRange(p, s, c) /\ Gaps(c) /\ A(c)
    BY DEF GapCover
  <2>2. GapCover(p, run, f, x, s) <=> \E c \in DOMAIN p : FunctionOf(p, c) = f /\ GapRange(p, s, c) /\ Gaps(c) /\ B(c)
    BY DEF GapCover
  <2>3. \A c \in DOMAIN p : FunctionOf(p, c) = f /\ GapRange(p, s, c) => (A(c) <=> B(c))
    BY <1>9 DEF GapRange
  <2> HIDE DEF Gaps, A, B
  <2> QED BY <2>1, <2>2, <2>3
<1>11. \A s : s \in CoverNode(p, run, f, x) <=> s \in CoverNode(p, run, f, n)
  BY <1>1, <1>7, <1>8, <1>10, CoverAbove, CoverCases
<1>12. CoverNode(p, run, f, x) \subseteq AllRanges(p, run, f) /\ CoverNode(p, run, f, n) \subseteq AllRanges(p, run, f)
  BY DEF CoverNode, Over
<1> QED BY <1>2, <1>11, <1>12

(* The last part of a node ends with it.                                   *)
LEMMA LastPart ==
  ASSUME NEW p, Tree(p), Grammar(p), Shape(p), NEW x \in DOMAIN p, Below(p, x) # {}
  PROVE  \E y \in Below(p, x) : LastIn(p, y) = LastIn(p, x) /\ Next1(p, y) = {}
<1> DEFINE y == Max(Below(p, x))
<1>1. Below(p, x) \subseteq DOMAIN p
  BY DEF Below
<1>2. y \in Below(p, x) /\ \A d \in Below(p, x) : d <= y
  BY <1>1, SomeNodes, MaxFacts
<1>3. y \in DOMAIN p /\ p[y].up = x /\ x < y /\ y \in Nat /\ x \in Nat /\ Upwards(p, y) = {y} \cup Upwards(p, x) /\ x \in Upwards(p, x)
  BY <1>2, PartFacts, TreeFacts, UpwardsFacts
<1>4. /\ LastIn(p, x) \in DOMAIN p /\ LastIn(p, x) \in Nat /\ LastIn(p, y) \in Nat /\ x \in Upwards(p, LastIn(p, x))
      /\ y <= LastIn(p, y) /\ LastIn(p, y) <= LastIn(p, x)
  <2>1. LastIn(p, x) \in Inner(p, x) /\ LastIn(p, x) \in DOMAIN p /\ LastIn(p, x) \in Nat
    BY InnerFacts
  <2>2. LastIn(p, y) \in Nat /\ y <= LastIn(p, y)
    BY <1>3, InnerFacts
  <2>3. LastIn(p, y) <= LastIn(p, x)
    BY <1>3, BehindFacts
  <2> QED BY <2>1, <2>2, <2>3 DEF Inner
<1>5. PICK d \in Below(p, x) : d \in Upwards(p, LastIn(p, x))
  BY <1>3, <1>4, PartAbove
<1>6. d \in DOMAIN p /\ d \in Nat /\ LastIn(p, x) <= LastIn(p, d) /\ LastIn(p, d) \in Nat
  <2>1. d \in DOMAIN p /\ d \in Nat
    BY <1>5, PartFacts, TreeFacts
  <2> QED BY <1>4, <1>5, <2>1, BehindFacts, InnerFacts
<1>7. d = y
  <2>1. d < y => LastIn(p, d) < y
    BY <1>2, <1>5, Siblings
  <2> QED BY <1>2, <1>3, <1>4, <1>5, <1>6, <2>1
<1>8. Next1(p, y) = {}
  <2> SUFFICES ASSUME NEW m \in Next1(p, y) PROVE FALSE
    OBVIOUS
  <2>1. m \in Below(p, x) /\ y < m /\ m \in Nat
    BY <1>1, <1>3, TreeFacts DEF Next1
  <2> QED BY <1>2, <1>3, <2>1
<1> QED BY <1>2, <1>4, <1>6, <1>7, <1>8

(* The statement before one.                                               *)
LEMMA PartBefore ==
  ASSUME NEW p, Tree(p), Grammar(p), Shape(p), NEW n \in DOMAIN p, n # 1, Prev(p, n) # {}
  PROVE  \E q \in Below(p, p[n].up) : q < n /\ n = LastIn(p, q) + 1 /\ Next1(p, q) # {} /\ n = Min(Next1(p, q))
<1> DEFINE u == p[n].up
           q == Max(Prev(p, n))
<1>1. Prev(p, n) \subseteq DOMAIN p
  BY DEF Below, Prev
<1>2. q \in Prev(p, n) /\ \A d \in Prev(p, n) : d <= q
  BY <1>1, SomeNodes, MaxFacts
<1>3. u \in DOMAIN p /\ u \in Nat /\ n \in Nat /\ n \in 2..Len(p) /\ n \in Below(p, u)
      /\ q \in DOMAIN p /\ q \in Nat /\ p[q].up = u /\ q < n /\ u < q /\ q \in Below(p, u)
  <2>1. u \in DOMAIN p /\ u \in Nat /\ n \in Nat /\ n \in 2..Len(p) /\ n \in Below(p, u)
    BY UpwardsFacts, TreeFacts DEF Below
  <2>2. q \in Below(p, u) /\ q < n
    BY <1>2 DEF Prev
  <2>3. q \in DOMAIN p /\ q \in Nat /\ p[q].up = u /\ u < q
    BY <2>1, <2>2, PartFacts, TreeFacts
  <2> QED BY <2>1, <2>2, <2>3
<1>4. n - 1 \in DOMAIN p /\ u \in Upwards(p, n - 1) /\ u # n - 1
  <2>1. u \in Upwards(p, n - 1)
    BY <1>3 DEF Shape
  <2>2. DOMAIN p = 1..Len(p) /\ Len(p) \in Nat
    BY TreeFacts
  <2>3. u # n - 1 /\ n - 1 \in 1..Len(p)
    BY <1>3, <2>2
  <2> QED BY <2>1, <2>2, <2>3
<1>5. PICK d \in Below(p, u) : d \in Upwards(p, n - 1)
  BY <1>3, <1>4, PartAbove
<1>6. d \in DOMAIN p /\ d \in Nat /\ d <= n - 1 /\ n - 1 <= LastIn(p, d) /\ LastIn(p, d) \in Nat
  <2>1. d \in DOMAIN p /\ d \in Nat
    BY <1>3, <1>5, PartFacts, TreeFacts
  <2> QED BY <1>4, <1>5, <2>1, BehindFacts, InnerFacts, UpwardsFacts
<1>7. d = q
  <2>1. d <= q
    BY <1>2, <1>3, <1>5, <1>6 DEF Prev
  <2>2. d < q => LastIn(p, d) < q
    BY <1>3, <1>5, Siblings
  <2> QED BY <1>3, <1>6, <2>1, <2>2
<1>8. LastIn(p, q) < n
  BY <1>3, Siblings
<1>9. n \in Next1(p, q) /\ \A m \in Next1(p, q) : n <= m
  <2>1. n \in Next1(p, q)
    BY <1>3 DEF Next1
  <2>2. ASSUME NEW m \in Next1(p, q) PROVE n <= m
    <3>1. m \in Below(p, u) /\ q < m /\ m \in Nat
      BY <1>3, PartFacts, TreeFacts DEF Next1
    <3>2. m < n => m \in Prev(p, n)
      BY <3>1 DEF Prev
    <3> QED BY <1>2, <1>3, <3>1, <3>2
  <2> QED BY <2>1, <2>2
<1>10. n = Min(Next1(p, q))
  <2>1. Next1(p, q) \subseteq DOMAIN p
    BY DEF Below, Next1
  <2>2. Min(Next1(p, q)) \in Next1(p, q) /\ Min(Next1(p, q)) <= n
    BY <1>9, <2>1, SomeNodes, MinFacts
  <2>3. Min(Next1(p, q)) \in Nat
    BY <2>1, <2>2, SomeNodes
  <2> QED BY <1>3, <1>9, <2>2, <2>3
<1> QED BY <1>3, <1>6, <1>7, <1>8, <1>9, <1>10

(* The next statement is reached when the one before it ends normally.     *)
LEMMA NextLevel ==
  ASSUME NEW p, Tree(p), Grammar(p), Shape(p), NEW run, \A k \in DOMAIN p : Follows(p, run, k),
         NEW n \in DOMAIN p, n # 1, Plainly(p, n), p[n].slot = "list", p[p[n].up].kind \in Lists,
         Prev(p, n) # {}, \A x \in DOMAIN p : x < n => Levelled(p, run, x)
  PROVE  Levelled(p, run, n)
<1> DEFINE u == p[n].up
           f == HomeOf(p, n)
           C == CoverNode(p, run, f, n)
           Told1(c) == Tells(C, c)
<1>1. PICK q \in Below(p, u) : q < n /\ n = LastIn(p, q) + 1 /\ Next1(p, q) # {} /\ n = Min(Next1(p, q))
  BY PartBefore
<1>2. /\ u \in DOMAIN p /\ q \in DOMAIN p /\ p[q].up = u /\ q # 1 /\ q \in Nat /\ n \in Nat /\ q \in 2..Len(p)
  <2>1. u \in DOMAIN p /\ n \in Nat
    BY UpwardsFacts, TreeFacts
  <2>2. q \in DOMAIN p /\ p[q].up = u /\ q # 1
    BY <2>1, PartFacts
  <2>3. q \in Nat /\ q \in 1..Len(p) /\ Len(p) \in Nat
    BY <2>2, TreeFacts
  <2> QED BY <2>1, <2>2, <2>3
<1> DEFINE S == {x \in DOMAIN p : Trails(p, q, x) => Told1(run.past[x])}
<1>3. ASSUME NEW x \in DOMAIN p, Below(p, x) \subseteq S PROVE x \in S
  <2> SUFFICES ASSUME Trails(p, q, x) PROVE Told1(run.past[x])
    OBVIOUS
  <2>1. /\ x # 1 /\ x \in 2..Len(p) /\ p[x].slot = "list" /\ p[p[x].up].kind \in Lists /\ LastIn(p, x) = LastIn(p, q)
        /\ q \in Upwards(p, x)
        /\ \A b \in Upwards(p, x) : b # x /\ q \in Upwards(p, b) => p[b].kind = "Block" /\ p[b].slot = "list"
    <3>1. x \in 1..Len(p) /\ x \in Nat /\ Len(p) \in Nat
      BY TreeFacts
    <3>2. x # 1
      BY DEF Trails
    <3> QED BY <3>1, <3>2 DEF Trails
  <2>2. CASE Diverts(p, x)
    <3>1. p[q].up = p[n].up /\ n = LastIn(p, q) + 1
      BY <1>1, <1>2
    <3>2. Tells(CoverNode(p, run, HomeOf(p, n), n), run.past[x])
      <4> HIDE DEF S, C, Told1, f, u
      <4> QED BY <2>2, <3>1, GapTrail
    <3> QED BY <3>2
  <2>3. CASE Calm(p, x) \/ p[x].kind = "Function"
    <3>1. HomeOf(p, x) = f /\ CoverNode(p, run, f, x) = C
      BY <1>1, <1>2, <2>3, SameTrail
    <3>2. x < n
      <4>1. x <= LastIn(p, x) /\ LastIn(p, x) \in Nat
        BY InnerFacts
      <4> QED BY <1>1, <1>2, <2>1, <4>1
    <3>3. ~Late(p, x)
      BY <2>1, NeverLate
    <3>4. \E r \in C : Least(r, C) /\ r.count = Reach(p, run, x)
      <4>1. Levelled(p, run, x)
        BY <3>2
      <4>2. p[x].slot \notin {"param", "handler"}
        BY <2>1
      <4> HIDE DEF C
      <4> QED BY <3>1, <3>3, <4>1, <4>2 DEF Levelled
    <3>5. Reach(p, run, x) = run.past[x]
      BY <2>3 DEF Reach, Follows
    <3> HIDE DEF C
    <3> QED BY <3>4, <3>5 DEF Tells
  <2>4. CASE p[x].kind = "Block" /\ Below(p, x) # {}
    <3>1. PICK y \in Below(p, x) : LastIn(p, y) = LastIn(p, x) /\ Next1(p, y) = {}
      BY <2>4, LastPart
    <3>2. y \in DOMAIN p /\ p[y].up = x /\ y # 1 /\ Upwards(p, y) = {y} \cup Upwards(p, x) /\ y \in 2..Len(p)
      <4>1. y \in DOMAIN p /\ p[y].up = x /\ y # 1 /\ Upwards(p, y) = {y} \cup Upwards(p, x)
        BY <3>1, PartFacts
      <4> QED BY <4>1, TreeFacts
    <3>3. p[y].slot = "list"
      BY <2>4, <3>2 DEF Grammar, Lists
    <3>4. Trails(p, q, y)
      BY <1>2, <2>1, <2>4, <3>1, <3>2, <3>3 DEF Trails, Lists
    <3>5. run.past[x] = run.past[y]
      <4>1. Follows(p, run, y)
        BY <3>2
      <4> QED BY <2>4, <3>1, <3>2, <4>1 DEF Follows
    <3>6. Told1(run.past[y])
      BY <1>3, <3>1, <3>4
    <3> QED BY <3>5, <3>6
  <2>5. p[x].kind \notin {"Catch", "Case", "Default", "Program"}
    <3>1. p[x].kind # "Catch" /\ p[x].kind # "Program"
      BY <2>1 DEF Grammar
    <3>2. p[p[x].up].kind # "Switch"
      BY <2>1 DEF Lists
    <3> QED BY <2>1, <3>1, <3>2 DEF Grammar
  <2> HIDE DEF Told1
  <2> QED BY <2>2, <2>3, <2>4, <2>5 DEF Calm
<1> HIDE DEF S
<1>4. q \in S
  BY <1>2, <1>3, PartsInduction
<1>5. Trails(p, q, q)
  <2>1. q \in Upwards(p, q) /\ \A b \in Upwards(p, q) : q \in Upwards(p, b) => b = q
    <3>1. \A b \in Upwards(p, q) : b <= q /\ b \in DOMAIN p /\ b \in Nat
      BY <1>2, UpwardsFacts, TreeFacts
    <3>2. \A b \in Upwards(p, q) : q \in Upwards(p, b) => q <= b
      BY <3>1, UpwardsFacts
    <3> QED BY <1>2, <3>1, <3>2, UpwardsFacts
  <2>2. p[q].slot = "list"
    BY <1>2 DEF Grammar
  <2> QED BY <1>2, <2>1, <2>2 DEF Trails
<1>6. Told1(run.past[q])
  BY <1>4, <1>5 DEF S
<1>7. Reach(p, run, n) = run.past[q] /\ run.past[q] \in Nat
  <2>1. Follows(p, run, q)
    BY <1>2
  <2> QED BY <1>1, <1>2, <2>1 DEF Follows
<1> HIDE DEF C
<1>8. \E r \in C : Least(r, C) /\ r.count = Reach(p, run, n) /\ r.count <= Reach(p, run, n)
  BY <1>6, <1>7 DEF Tells
<1> QED BY <1>8 DEF Levelled, C

(* Whatever reaches a node, the least range around it in its function      *)
(* counts it.                                                              *)
LEMMA Levels ==
  ASSUME NEW p, Tree(p), Grammar(p), Shape(p), NEW run, \A k \in DOMAIN p : Follows(p, run, k), NEW n \in DOMAIN p
  PROVE  Levelled(p, run, n)
<1> DEFINE S == {k \in Nat : \A x \in DOMAIN p : x <= k => Levelled(p, run, x)}
<1>1. 0 \in S
  BY TreeFacts
<1>2. ASSUME NEW m \in DOMAIN p, \A x \in DOMAIN p : x < m => Levelled(p, run, x)
      PROVE  Levelled(p, run, m)
  <2> SUFFICES ASSUME m = 1 \/ p[m].slot \notin {"param", "handler"} PROVE Levelled(p, run, m)
    BY DEF Levelled
  <2>1. CASE ~Plainly(p, m)
    BY <2>1, OwnLevel DEF Plainly
  <2>2. CASE Plainly(p, m)
    <3> DEFINE u == p[m].up
    <3>1. m # 1
      BY <2>2, TreeFacts DEF Plainly, Counted, Scopes
    <3>2. u \in DOMAIN p /\ u \in Nat /\ m \in Nat /\ u < m /\ m \in 2..Len(p)
      BY <3>1, UpwardsFacts, TreeFacts
    <3>3. CASE p[u].kind = "Function"
      BY <2>2, <3>1, <3>3, BodyLevel
    <3>4. CASE First(p, m)
      BY <1>2, <2>2, <3>1, <3>2, <3>4, FirstLevel
    <3>5. CASE p[m].slot = "list" /\ Prev(p, m) # {} /\ p[u].kind \in Lists
      BY <1>2, <2>2, <3>1, <3>5, NextLevel
    <3>6. p[u].kind # "Switch"
      <4>1. p[u].kind = "Switch" => p[m].kind \in {"Case", "Default"}
        BY <3>2 DEF Grammar
      <4> QED BY <2>2, <4>1 DEF Plainly, Counted
    <3>7. p[m].slot \in Slots(p[u].kind)
      BY <3>2 DEF Shape
    <3>8. p[m].slot \notin ArmSlots
      BY <2>2 DEF Plainly, Counted
    <3>9. p[m].slot # "body" \/ p[u].kind = "Function"
      <4> SUFFICES ASSUME p[m].slot = "body", p[u].kind # "Function" PROVE FALSE
        OBVIOUS
      <4>1. p[u].kind \in Loops \cup {"Catch"}
        BY <3>7 DEF Slots, Lists, Loops
      <4>2. p[m].kind # "Function"
        BY <3>2, <4>1 DEF Shape
      <4> QED BY <2>2, <4>1, <4>2 DEF Plainly, Counted
    <3>10. p[m].slot \in Firsts \/ p[u].kind = "Function"
      BY <2>2, <3>1, <3>7, <3>8, <3>9 DEF Slots, Lists, ArmSlots, Firsts
    <3>11. p[m].slot \in Firsts /\ (p[m].slot = "list" => Prev(p, m) = {}) => First(p, m)
      <4>1. p[m].slot \in {"test", "left", "block", "expr"} => m = u + 1
        BY <3>1, FirstPlace
      <4>2. p[m].slot = "list" /\ Prev(p, m) = {} => m = u + 1
        BY <3>1, FirstPlace
      <4> QED BY <3>6, <4>1, <4>2 DEF First, Firsts
    <3>12. p[m].slot = "list" => p[u].kind \in Lists
      BY <3>2, <3>6 DEF Grammar
    <3> QED BY <3>3, <3>4, <3>5, <3>10, <3>11, <3>12
  <2> QED BY <2>1, <2>2
<1>3. ASSUME NEW k \in Nat, k \in S PROVE k + 1 \in S
  <2> SUFFICES ASSUME NEW x \in DOMAIN p, x <= k + 1 PROVE Levelled(p, run, x)
    OBVIOUS
  <2>1. x \in Nat
    BY TreeFacts
  <2>2. ASSUME NEW z \in DOMAIN p, z < x PROVE Levelled(p, run, z)
    <3>1. z \in Nat /\ z <= k
      BY <2>1, <2>2, TreeFacts
    <3> QED BY <1>3, <3>1
  <2> QED BY <1>2, <2>2
<1> HIDE DEF S
<1>4. Nat \subseteq S
  BY <1>1, <1>3, Induction
<1>5. n \in Nat /\ n <= n
  BY TreeFacts
<1> QED BY <1>4, <1>5 DEF S

-----------------------------------------------------------------------------
(* V8 leaves out a range with the count of the range around it.  What is   *)
(* left tells of every place what all ranges told.                         *)
LEMMA RangeInText ==
  ASSUME NEW p, Tree(p), Grammar(p), Shape(p), NEW run, NEW f, NEW r \in AllRanges(p, run, f)
  PROVE  /\ InText(p, r) /\ r.from \in Nat /\ r.to \in Nat /\ r.from < r.to /\ r.to <= To(p, 1)
         /\ To(p, 1) \in Nat
<1>1. \A a, b, c : Range1(a, b, c).from = a /\ Range1(a, b, c).to = b
  BY DEF Range1
<1>2. InText(p, r)
  <2>1. CASE \E n \in DOMAIN p : Counted(p, n) /\ r = Range1(From(p, n), To(p, n), run.in[n])
    BY <1>1, <2>1 DEF InText, NodeRange
  <2>2. CASE \E n \in DOMAIN p : p[n].kind = "Function" /\ r = Range1(From(p, n), To(p, n), run.past[n])
    BY <1>1, <2>2 DEF InText, NodeRange, Counted, Scopes
  <2>3. CASE \E n \in DOMAIN p : GapRange(p, r, n)
    BY <2>3 DEF InText
  <2> QED BY <2>1, <2>2, <2>3, RangeCases
<1>3. r.from \in Nat /\ r.to \in Nat /\ r.from < r.to
  BY <1>2, RangeTyped
<1>4. \E m \in DOMAIN p : r.to = To(p, m)
  BY <1>2, AroundFacts DEF InText, NodeRange, GapRange
<1>5. \A m \in DOMAIN p : To(p, m) <= To(p, 1)
  <2> SUFFICES ASSUME NEW m \in DOMAIN p PROVE To(p, m) <= To(p, 1)
    OBVIOUS
  <2>1. 1 \in Upwards(p, m)
    BY UpwardsFacts
  <2> QED BY <2>1, TextFacts DEF Holds
<1>6. To(p, 1) \in Nat
  BY TreeFacts, TextFacts
<1> QED BY <1>2, <1>3, <1>4, <1>5, <1>6

(* Of two ranges of a function that overlap one is in the other, and if    *)
(* each is in the other they are one.                                      *)
LEMMA RangesNested ==
  ASSUME NEW p, Tree(p), Grammar(p), Shape(p), NEW run, NEW f,
         NEW r \in AllRanges(p, run, f), NEW s \in AllRanges(p, run, f)
  PROVE  /\ r.from < s.to /\ s.from < r.to => Within(r, s) \/ Within(s, r)
         /\ Within(r, s) /\ Within(s, r) => r = s
         /\ Within(r, s) /\ r # s => Inside(r, s)
         /\ Inside(r, s) => Within(r, s) /\ r # s
         /\ Within(r, s) => r.to - r.from <= s.to - s.from
         /\ Inside(r, s) => r.to - r.from < s.to - s.from
<1>1. InText(p, r) /\ InText(p, s) /\ r.from \in Nat /\ r.to \in Nat /\ s.from \in Nat /\ s.to \in Nat
  BY RangeInText
<1>2. r.from < s.to /\ s.from < r.to => Within(r, s) \/ Within(s, r)
  BY <1>1, Laminar
<1>3. r.from = s.from /\ r.to = s.to => r = s
  BY RangesDiffer
<1> QED BY <1>1, <1>2, <1>3 DEF Within, Inside

(* The closest range around one.                                           *)
ClosestTo(p, run, f, r) ==
  CHOOSE s \in {s \in AllRanges(p, run, f) : Inside(r, s)} :
    \A t \in {t \in AllRanges(p, run, f) : Inside(r, t)} : s = t \/ Inside(s, t)
LEMMA ClosestFacts ==
  ASSUME NEW p, Tree(p), Grammar(p), Shape(p), NEW run, NEW f, NEW r \in AllRanges(p, run, f),
         NEW q \in AllRanges(p, run, f), Inside(r, q)
  PROVE  /\ ClosestTo(p, run, f, r) \in AllRanges(p, run, f)
         /\ Inside(r, ClosestTo(p, run, f, r))
         /\ \A t \in AllRanges(p, run, f) : Inside(r, t) => Within(ClosestTo(p, run, f, r), t)
<1> DEFINE All == AllRanges(p, run, f)
           A == {s \in All : Inside(r, s)}
           Sizes == {s.to - s.from : s \in A}
<1>1. \A s \in All : s.from \in Nat /\ s.to \in Nat /\ s.from < s.to /\ s.to - s.from \in Nat
  <2> SUFFICES ASSUME NEW s \in All PROVE s.from \in Nat /\ s.to \in Nat /\ s.from < s.to /\ s.to - s.from \in Nat
    OBVIOUS
  <2>1. s.from \in Nat /\ s.to \in Nat /\ s.from < s.to
    BY RangeInText
  <2> QED BY <2>1
<1>2. PICK m \in Sizes : \A k \in Sizes : m <= k
  <2>1. Sizes \in SUBSET Nat /\ Sizes # {}
    BY <1>1
  <2> QED BY <2>1, LeastNatural
<1>3. PICK s \in A : m = s.to - s.from
  OBVIOUS
<1>4. ASSUME NEW t \in A PROVE s = t \/ Inside(s, t)
  <2>1. s \in All /\ t \in All /\ Inside(r, s) /\ Inside(r, t)
    OBVIOUS
  <2>2. s.to - s.from <= t.to - t.from
    BY <1>2, <1>3
  <2>3. r.from < r.to /\ s.from <= r.from /\ r.to <= s.to /\ t.from <= r.from /\ r.to <= t.to
    BY <1>1, <2>1 DEF Inside
  <2>4. r.from \in Nat /\ r.to \in Nat /\ s.from \in Nat /\ s.to \in Nat /\ t.from \in Nat /\ t.to \in Nat
    BY <1>1, <2>1
  <2>5. s.from < t.to /\ t.from < s.to
    BY <2>3, <2>4
  <2> HIDE DEF All, A, Sizes
  <2>6. Within(s, t) \/ Within(t, s)
    BY <2>1, <2>5, RangesNested DEF All
  <2>7. Within(s, t) => s = t \/ Inside(s, t)
    BY <2>1, RangesNested DEF All
  <2>8. Within(t, s) => s = t
    <3>1. Inside(t, s) => t.to - t.from < s.to - s.from
      BY <2>1, RangesNested DEF All
    <3>2. Within(t, s) => s = t \/ Inside(t, s)
      BY <2>1, RangesNested DEF All
    <3> QED BY <2>2, <2>4, <3>1, <3>2
  <2> QED BY <2>6, <2>7, <2>8
<1>5. \E c \in A : \A t \in A : c = t \/ Inside(c, t)
  BY <1>4
<1> DEFINE c == ClosestTo(p, run, f, r)
<1>6. c \in A /\ \A t \in A : c = t \/ Inside(c, t)
  <2>1. c = CHOOSE s1 \in A : \A t \in A : s1 = t \/ Inside(s1, t)
    BY DEF ClosestTo
  <2> HIDE DEF A, c, All, Sizes
  <2> QED BY <1>5, <2>1
<1> HIDE DEF c
<1>7. c \in All /\ Inside(r, c)
  BY <1>6
<1>8. ASSUME NEW t \in All, Inside(r, t) PROVE Within(c, t)
  <2>1. c = t \/ Inside(c, t)
    BY <1>6, <1>8
  <2>2. Within(t, t)
    BY <1>1 DEF Within
  <2> QED BY <1>7, <2>1, <2>2, RangesNested
<1> QED BY <1>7, <1>8 DEF c

LEMMA RangesDefined ==
  ASSUME NEW p, NEW run, NEW f
  PROVE  Ranges(p, run, f) = {r \in AllRanges(p, run, f) :
           (\E s \in AllRanges(p, run, f) : Inside(r, s)) => ClosestTo(p, run, f, r).count # r.count}
BY DEF Ranges, ClosestTo

LEMMA Kept ==
  ASSUME NEW p, Tree(p), Grammar(p), Shape(p), NEW run, NEW f, NEW x \in Nat, NEW y \in Nat, x < y,
         NEW r \in AllRanges(p, run, f), Least(r, Over(AllRanges(p, run, f), x, y))
  PROVE  Tells(Over(Ranges(p, run, f), x, y), r.count)
<1> DEFINE All == AllRanges(p, run, f)
           C == Over(All, x, y)
           Good(s) == s \in C /\ \A t \in C : Within(t, s) => t.count = r.count
           Sizes == {To(p, 1) - (s.to - s.from) : s \in {t \in C : Good(t)}}
<1>1. ASSUME NEW s \in C
      PROVE  /\ s \in All /\ s.from \in Nat /\ s.to \in Nat /\ s.from < s.to /\ s.to <= To(p, 1) /\ To(p, 1) \in Nat
             /\ s.from <= x /\ y <= s.to /\ Within(s, s) /\ To(p, 1) - (s.to - s.from) \in Nat
  <2>1. s \in All /\ s.from <= x /\ y <= s.to
    BY DEF Over
  <2>2. s.from \in Nat /\ s.to \in Nat /\ s.from < s.to /\ s.to <= To(p, 1) /\ To(p, 1) \in Nat
    BY <2>1, RangeInText
  <2>3. To(p, 1) - (s.to - s.from) \in Nat /\ Within(s, s)
    BY <2>2 DEF Within
  <2> QED BY <2>1, <2>2, <2>3
<1>2. r \in C /\ \A s \in C : Within(r, s)
  BY DEF Least
<1>3. ASSUME NEW s \in C, NEW t \in C PROVE Within(s, t) \/ (Within(t, s) /\ Inside(t, s))
  <2>1. s \in All /\ t \in All /\ s.from < t.to /\ t.from < s.to
    <3>1. s.from <= x /\ y <= t.to /\ t.from <= x /\ y <= s.to /\ s \in All /\ t \in All
      BY <1>1
    <3>2. s.from \in Nat /\ s.to \in Nat /\ t.from \in Nat /\ t.to \in Nat
      BY <1>1
    <3> QED BY <3>1, <3>2
  <2> HIDE DEF C
  <2>2. Within(s, t) \/ Within(t, s)
    BY <2>1, RangesNested
  <2>3. Within(t, s) => t = s \/ Inside(t, s)
    BY <2>1, RangesNested
  <2>4. Within(s, s)
    BY <1>1 DEF C
  <2> QED BY <2>2, <2>3, <2>4
<1>4. Good(r)
  <2> SUFFICES ASSUME NEW t \in C, Within(t, r) PROVE t.count = r.count
    BY <1>2
  <2>1. Within(r, t) /\ t \in All
    BY <1>1, <1>2
  <2> HIDE DEF C
  <2> QED BY <2>1, RangesNested
<1>5. Sizes \in SUBSET Nat /\ Sizes # {}
  BY <1>1, <1>2, <1>4
<1>6. PICK size \in Sizes : \A k \in Sizes : size <= k
  BY <1>5, LeastNatural
<1>7. PICK k \in C : Good(k) /\ size = To(p, 1) - (k.to - k.from)
  OBVIOUS
<1>8. ASSUME NEW s \in C, Good(s), Inside(k, s) PROVE FALSE
  <2>1. To(p, 1) - (k.to - k.from) <= To(p, 1) - (s.to - s.from)
    BY <1>6, <1>7, <1>8
  <2>2. k.to - k.from < s.to - s.from
    <3>1. k \in All /\ s \in All
      BY <1>1
    <3> HIDE DEF C
    <3> QED BY <1>8, <3>1, RangesNested
  <2>3. k.from \in Nat /\ k.to \in Nat /\ s.from \in Nat /\ s.to \in Nat /\ To(p, 1) \in Nat
    BY <1>1
  <2> QED BY <2>1, <2>2, <2>3
<1> HIDE DEF Sizes
<1>9. k \in Ranges(p, run, f)
  <2> DEFINE c == ClosestTo(p, run, f, k)
  <2> SUFFICES ASSUME NEW q \in All, Inside(k, q), c.count = k.count PROVE FALSE
    <3>1. k \in All
      BY <1>1
    <3> HIDE DEF C, Good, c
    <3> QED BY <3>1, RangesDefined DEF c
  <2>1. k \in All
    BY <1>1
  <2>2. c \in All /\ Inside(k, c) /\ \A t \in All : Inside(k, t) => Within(c, t)
    BY <2>1, ClosestFacts
  <2> HIDE DEF c
  <2>3. c \in C
    <3>1. Within(k, c)
      BY <2>1, <2>2, RangesNested
    <3>2. c.from \in Nat /\ c.to \in Nat
      BY <2>2, RangeInText
    <3>3. k.from <= x /\ y <= k.to /\ k.from \in Nat /\ k.to \in Nat
      BY <1>1
    <3>4. c.from <= x /\ y <= c.to
      BY <3>1, <3>2, <3>3 DEF Within
    <3> QED BY <2>2, <3>4 DEF Over
  <2>4. k.count = r.count
    BY <1>1, <1>7
  <2>5. ASSUME NEW t \in C, Within(t, c) PROVE t.count = r.count
    <3>1. CASE Within(t, k)
      BY <1>7, <3>1
    <3>2. CASE Within(k, t) /\ Inside(k, t)
      <4>1. t \in All /\ Within(c, t)
        BY <1>1, <2>2, <3>2
      <4>2. t = c
        BY <2>2, <2>5, <4>1, RangesNested
      <4> QED BY <2>4, <4>2
    <3> QED BY <1>3, <3>1, <3>2
  <2> QED BY <1>8, <2>2, <2>3, <2>5
<1>10. k \in Over(Ranges(p, run, f), x, y)
  BY <1>1, <1>9 DEF Over
<1>11. ASSUME NEW t \in Over(Ranges(p, run, f), x, y) PROVE Within(k, t)
  <2>1. t \in C /\ t \in Ranges(p, run, f)
    BY RangesDefined DEF Over
  <2> SUFFICES ASSUME Inside(t, k), Within(t, k) PROVE FALSE
    BY <1>3, <2>1
  <2> DEFINE c == ClosestTo(p, run, f, t)
  <2>2. k \in All /\ t \in All
    BY <1>1, <2>1
  <2>3. c.count # t.count
    BY <2>1, <2>2, RangesDefined
  <2>4. c \in All /\ Inside(t, c) /\ Within(c, k)
    BY <2>2, ClosestFacts
  <2> HIDE DEF c
  <2>5. c \in C
    <3>1. Within(t, c)
      BY <2>2, <2>4, RangesNested
    <3>2. c.from \in Nat /\ c.to \in Nat
      BY <2>4, RangeInText
    <3>3. t.from <= x /\ y <= t.to /\ t.from \in Nat /\ t.to \in Nat
      BY <1>1, <2>1
    <3>4. c.from <= x /\ y <= c.to
      BY <3>1, <3>2, <3>3 DEF Within
    <3> QED BY <2>4, <3>4 DEF Over
  <2>6. c.count = r.count /\ t.count = r.count
    BY <1>7, <2>1, <2>4, <2>5
  <2> QED BY <2>3, <2>6
<1>12. k.count = r.count
  BY <1>1, <1>7
<1> QED BY <1>10, <1>11, <1>12 DEF Tells, Least

-----------------------------------------------------------------------------
(* What a dump tells of a place, with the ranges of all its functions.     *)
(* Those are defined, and so are the functions around them; nothing else   *)
(* has run.                                                                *)
Known(p, run, D) ==
  /\ 1 \in D /\ D \subseteq {1} \cup Kinds(p, {"Function"})
  /\ \A n \in DOMAIN p : n \in D \/ run.in[n] # 0 \/ run.past[n] # 0 =>
       \A f \in Upwards(p, n) : p[f].kind = "Function" => f \in D

(* The range of a function is around all the others that it has, and kept. *)
OwnRange(p, run, f) == Range1(From(p, f), To(p, f), run.in[f])
LEMMA FunctionRange ==
  ASSUME NEW p, Tree(p), Grammar(p), Shape(p), NEW run, NEW f \in DOMAIN p, f = 1 \/ p[f].kind = "Function"
  PROVE  /\ FunctionOf(p, f) = f /\ Counted(p, f)
         /\ OwnRange(p, run, f) \in Ranges(p, run, f)
         /\ \A s \in AllRanges(p, run, f) : Within(s, OwnRange(p, run, f))
<1> DEFINE r == OwnRange(p, run, f)
<1>1. \A a, b, c : Range1(a, b, c).from = a /\ Range1(a, b, c).to = b
  BY DEF Range1
<1>2. FunctionOf(p, f) = f
  <2>1. CASE p[f].kind = "Function"
    BY <2>1, HomeFacts
  <2>2. CASE f = 1
    <3>1. FunctionOf(p, f) \in Upwards(p, f) /\ \A a \in Upwards(p, f) : a <= f
      BY FunctionFacts, UpwardsFacts
    <3>2. FunctionOf(p, f) \in DOMAIN p /\ \A n \in DOMAIN p : n \in Nat /\ n # 0
      BY FunctionFacts, TreeFacts
    <3> QED BY <2>2, <3>1, <3>2
  <2> QED BY <2>1, <2>2
<1>3. Counted(p, f)
  BY <1>2, FunctionFacts
<1>4. r.from = From(p, f) /\ r.to = To(p, f) /\ From(p, f) \in Nat /\ To(p, f) \in Nat
  <2>1. From(p, f) \in Nat /\ To(p, f) \in Nat
    BY TextFacts
  <2> QED BY <1>1, <2>1 DEF OwnRange
<1>5. r \in AllRanges(p, run, f)
  BY <1>2, <1>3, RangeCases DEF OwnRange
<1> HIDE DEF r
<1>6. ASSUME NEW n \in DOMAIN p, f \in Upwards(p, n)
      PROVE  From(p, f) <= From(p, n) /\ To(p, n) <= To(p, f)
  BY <1>6, TextFacts DEF Holds
<1>7. ASSUME NEW s \in AllRanges(p, run, f) PROVE Within(s, r)
  <2>1. CASE \E n \in DOMAIN p : FunctionOf(p, n) = f /\ Counted(p, n) /\ s = Range1(From(p, n), To(p, n), run.in[n])
    <3>1. PICK n \in DOMAIN p : FunctionOf(p, n) = f /\ s = Range1(From(p, n), To(p, n), run.in[n])
      BY <2>1
    <3>2. f \in Upwards(p, n)
      BY <3>1, FunctionFacts
    <3> QED BY <1>1, <1>4, <1>6, <3>1, <3>2 DEF Within
  <2>2. CASE \E n \in DOMAIN p : /\ p[n].kind = "Function" /\ FunctionOf(p, p[n].up) = f
                                 /\ s = Range1(From(p, n), To(p, n), run.past[n])
    <3>1. PICK n \in DOMAIN p : /\ p[n].kind = "Function" /\ FunctionOf(p, p[n].up) = f
                                /\ s = Range1(From(p, n), To(p, n), run.past[n])
      BY <2>2
    <3>2. n # 1 /\ p[n].up \in DOMAIN p
      <4>1. n # 1
        BY <3>1, TreeFacts
      <4> QED BY <4>1, UpwardsFacts
    <3>3. f \in Upwards(p, p[n].up)
      BY <3>1, <3>2, FunctionFacts
    <3>4. f \in Upwards(p, n)
      <4>1. p[n].up \in Upwards(p, n)
        BY <3>2, UpwardsDefined, UpwardsFacts
      <4> QED BY <3>3, <4>1, UpwardsFacts
    <3> QED BY <1>1, <1>4, <1>6, <3>1, <3>4 DEF Within
  <2>3. CASE \E c \in DOMAIN p : FunctionOf(p, c) = f /\ GapRange(p, s, c)
    <3>1. PICK c \in DOMAIN p : FunctionOf(p, c) = f /\ GapRange(p, s, c)
      BY <2>3
    <3> DEFINE a == Around(p, c)
    <3>2. f \in Upwards(p, c) /\ a \in DOMAIN p /\ f \in Upwards(p, a)
      <4>1. f \in Upwards(p, c)
        BY <3>1, FunctionFacts
      <4> QED BY <1>3, <4>1, AroundFacts
    <3>3. s.from = To(p, c) /\ s.to = To(p, a)
      BY <3>1 DEF GapRange
    <3>4. From(p, c) \in Nat /\ To(p, c) \in Nat /\ From(p, c) < To(p, c)
      BY TextFacts
    <3>5. From(p, f) <= From(p, c) /\ To(p, a) <= To(p, f)
      BY <1>6, <3>2
    <3>6. From(p, f) <= s.from /\ s.to <= To(p, f)
      BY <1>4, <3>3, <3>4, <3>5
    <3> QED BY <1>4, <3>6 DEF Within
  <2> QED BY <2>1, <2>2, <2>3, RangeCases
<1>8. ASSUME NEW s \in AllRanges(p, run, f), Inside(r, s) PROVE FALSE
  <2>1. Within(s, r) /\ s.from \in Nat /\ s.to \in Nat
    BY <1>7, RangeInText
  <2> QED BY <1>4, <1>8, <2>1 DEF Within, Inside
<1>9. r \in Ranges(p, run, f)
  BY <1>5, <1>8, RangesDefined
<1> QED BY <1>2, <1>3, <1>7, <1>9 DEF r

(* A spot: a place in a node, in no other one than those around that.      *)
Spot(p, b, x, y) ==
  /\ b \in DOMAIN p /\ x \in Nat /\ y \in Nat /\ x < y
  /\ \A m \in DOMAIN p : From(p, m) <= x /\ y <= To(p, m) => m \in Upwards(p, b)
  /\ \A m \in Upwards(p, b) : Counted(p, m) => From(p, m) <= x /\ y <= To(p, m)
Covering(r, x, y) == r.from <= x /\ y <= r.to
ArmFunction(p, f) == p[f].kind = "Function" /\ p[f].slot \in ArmSlots
Apart(p, b) == \A f \in Upwards(p, b) \ {b} : ~ArmFunction(p, f)
(* What covers the spot, by the kinds of ranges.                           *)
LEMMA SpotCases ==
  ASSUME NEW p, Tree(p), Grammar(p), Shape(p), NEW run, NEW b, NEW x, NEW y, Spot(p, b, x, y), Apart(p, b),
         NEW f, NEW r \in AllRanges(p, run, f), Covering(r, x, y)
  PROVE  \/ \E m \in Upwards(p, b) : FunctionOf(p, m) = f /\ r.from = From(p, m) /\ r.to = To(p, m)
         \/ ArmFunction(p, b) /\ FunctionOf(p, p[b].up) = f /\ r.from = From(p, b) /\ r.to = To(p, b)
         \/ \E c \in DOMAIN p : /\ FunctionOf(p, c) = f /\ r.from = To(p, c) /\ r.to = To(p, Around(p, c))
                                /\ Around(p, c) \in Upwards(p, b) /\ FunctionOf(p, Around(p, c)) = f
<1>1. \A u, v, w : Range1(u, v, w).from = u /\ Range1(u, v, w).to = v
  BY DEF Range1
<1>2. r.from <= x /\ y <= r.to /\ x \in Nat /\ y \in Nat /\ x < y
  BY DEF Covering, Spot
<1>3. CASE \E n \in DOMAIN p : FunctionOf(p, n) = f /\ Counted(p, n) /\ r = Range1(From(p, n), To(p, n), run.in[n])
  <2>1. PICK n \in DOMAIN p : FunctionOf(p, n) = f /\ r = Range1(From(p, n), To(p, n), run.in[n])
    BY <1>3
  <2>2. n \in Upwards(p, b)
    BY <1>1, <1>2, <2>1 DEF Spot
  <2> QED BY <1>1, <2>1, <2>2
<1>4. CASE \E n \in DOMAIN p : /\ p[n].kind = "Function" /\ p[n].slot \in ArmSlots
                               /\ FunctionOf(p, p[n].up) = f
                               /\ r = Range1(From(p, n), To(p, n), run.past[n])
  <2>1. PICK n \in DOMAIN p : /\ p[n].kind = "Function" /\ p[n].slot \in ArmSlots
                              /\ FunctionOf(p, p[n].up) = f
                              /\ r = Range1(From(p, n), To(p, n), run.past[n])
    BY <1>4
  <2>2. n \in Upwards(p, b)
    BY <1>1, <1>2, <2>1 DEF Spot
  <2>3. n = b
    BY <2>1, <2>2 DEF Apart, ArmFunction
  <2> QED BY <1>1, <2>1, <2>3 DEF ArmFunction
<1>5. CASE \E c \in DOMAIN p : FunctionOf(p, c) = f /\ GapRange(p, r, c)
  <2>1. PICK c \in DOMAIN p : FunctionOf(p, c) = f /\ GapRange(p, r, c)
    BY <1>5
  <2> DEFINE a == Around(p, c)
  <2>2. a \in Upwards(p, c) /\ a \in DOMAIN p /\ r.from = To(p, c) /\ r.to = To(p, a)
    BY <2>1, AroundFacts DEF GapRange
  <2>3. f \in Upwards(p, a) /\ FunctionOf(p, a) = f
    <3>1. f \in Upwards(p, c) /\ Counted(p, f)
      BY <2>1, FunctionFacts
    <3>2. f \in Upwards(p, a)
      BY <3>1, AroundFacts
    <3> QED BY <2>1, <2>2, <3>2, FunctionFacts
  <2>4. From(p, a) <= x
    <3>1. From(p, a) <= From(p, c)
      BY <2>2, TextFacts DEF Holds
    <3>2. From(p, a) \in Nat /\ From(p, c) \in Nat /\ To(p, c) \in Nat /\ From(p, c) < To(p, c)
      BY <2>2, TextFacts
    <3> QED BY <1>2, <2>2, <3>1, <3>2
  <2>5. a \in Upwards(p, b)
    BY <1>2, <2>2, <2>4 DEF Spot
  <2> QED BY <2>1, <2>2, <2>3, <2>5
<1> QED BY <1>3, <1>4, <1>5, RangeCases

(* A range of a function that covers a spot is around every function that  *)
(* is between.                                                             *)
LEMMA Surrounds ==
  ASSUME NEW p, Tree(p), Grammar(p), Shape(p), NEW run, NEW b, NEW x, NEW y, Spot(p, b, x, y), Apart(p, b),
         NEW f \in DOMAIN p, NEW r \in AllRanges(p, run, f), Covering(r, x, y),
         NEW g \in Upwards(p, b), p[g].kind = "Function", f < g
  PROVE  /\ r.from <= From(p, g) /\ To(p, g) <= r.to
         /\ r.from = From(p, g) /\ r.to = To(p, g) => g = b
<1>1. /\ g \in DOMAIN p /\ b \in DOMAIN p /\ Counted(p, g) /\ FunctionOf(p, g) = g /\ g # 1
      /\ Upwards(p, g) \subseteq Upwards(p, b)
  <2>1. b \in DOMAIN p
    BY DEF Spot
  <2>2. g \in DOMAIN p /\ Upwards(p, g) \subseteq Upwards(p, b)
    BY <2>1, UpwardsFacts
  <2>3. g # 1
    BY TreeFacts
  <2> QED BY <2>1, <2>2, <2>3, FunctionRange
<1>2. \A n \in DOMAIN p : n \in Nat
  BY TreeFacts
<1>3. x \in Nat /\ y \in Nat /\ x < y /\ From(p, g) <= x /\ y <= To(p, g)
  BY <1>1 DEF Spot
<1>4. ASSUME NEW m \in Upwards(p, b), FunctionOf(p, m) = f PROVE m \in Upwards(p, g) /\ m # g /\ m \in DOMAIN p
  <2>1. m \in DOMAIN p
    BY <1>1, UpwardsFacts
  <2>2. m \in Upwards(p, g) \/ g \in Upwards(p, m)
    BY <1>1, ChainFacts
  <2>3. g \in Upwards(p, m) => g <= f
    BY <1>4, <2>1, FunctionFacts
  <2> QED BY <1>1, <1>2, <1>4, <2>1, <2>2, <2>3
<1>5. CASE \E m \in Upwards(p, b) : FunctionOf(p, m) = f /\ r.from = From(p, m) /\ r.to = To(p, m)
  <2>1. PICK m \in Upwards(p, b) : FunctionOf(p, m) = f /\ r.from = From(p, m) /\ r.to = To(p, m)
    BY <1>5
  <2>2. m \in Upwards(p, g) /\ m # g /\ m \in DOMAIN p
    BY <1>4, <2>1
  <2>3. From(p, m) <= From(p, g) /\ To(p, g) <= To(p, m)
    BY <1>1, <2>2, TextFacts DEF Holds
  <2>4. ~(From(p, m) = From(p, g) /\ To(p, m) = To(p, g))
    BY <1>1, <2>2, HoldsFacts
  <2> QED BY <2>1, <2>3, <2>4
<1>6. CASE ArmFunction(p, b) /\ FunctionOf(p, p[b].up) = f /\ r.from = From(p, b) /\ r.to = To(p, b)
  <2>1. g = b
    <3> SUFFICES ASSUME g # b PROVE FALSE
      OBVIOUS
    <3>1. b # 1
      BY <1>6, TreeFacts DEF ArmFunction
    <3>2. p[b].up \in DOMAIN p /\ g \in Upwards(p, p[b].up)
      BY <1>1, <3>1, UpwardsFacts
    <3>3. g <= f
      BY <1>6, <3>2, FunctionFacts
    <3> QED BY <1>1, <1>2, <3>3
  <2>2. From(p, b) \in Nat /\ To(p, b) \in Nat
    BY <1>1, TextFacts
  <2> QED BY <1>6, <2>1, <2>2
<1>7. CASE \E c \in DOMAIN p : /\ FunctionOf(p, c) = f /\ r.from = To(p, c) /\ r.to = To(p, Around(p, c))
                               /\ Around(p, c) \in Upwards(p, b) /\ FunctionOf(p, Around(p, c)) = f
  <2>1. PICK c \in DOMAIN p : /\ FunctionOf(p, c) = f /\ r.from = To(p, c) /\ r.to = To(p, Around(p, c))
                              /\ Around(p, c) \in Upwards(p, b) /\ FunctionOf(p, Around(p, c)) = f
    BY <1>7
  <2> DEFINE a == Around(p, c)
  <2>2. a \in Upwards(p, g)
    BY <1>4, <2>1
  <2>3. To(p, g) <= To(p, a)
    BY <1>1, <2>2, TextFacts DEF Holds
  <2>4. g \notin Upwards(p, c)
    <3>1. g \in Upwards(p, c) => g <= f
      BY <2>1, FunctionFacts
    <3> QED BY <1>1, <1>2, <3>1
  <2>5. To(p, c) <= x
    BY <2>1 DEF Covering
  <2>6. From(p, c) \in Nat /\ To(p, c) \in Nat /\ From(p, c) < To(p, c)
    BY TextFacts
  <2>7. From(p, g) \in Nat /\ To(p, g) \in Nat
    BY <1>1, TextFacts
  <2>8. To(p, c) < From(p, g)
    <3>1. c \notin Upwards(p, g)
      <4>1. c \in Upwards(p, g) => To(p, g) <= To(p, c)
        BY <1>1, TextFacts DEF Holds
      <4> QED BY <1>3, <2>5, <2>6, <2>7, <4>1
    <3>2. ~(LastIn(p, g) < c)
      <4>1. LastIn(p, g) < c => To(p, g) < From(p, c)
        BY <1>1, TextFacts
      <4> QED BY <1>3, <2>5, <2>6, <2>7, <4>1
    <3>3. LastIn(p, c) < g
      BY <1>1, <2>4, <3>1, <3>2, BehindFacts
    <3> QED BY <1>1, <3>3, TextFacts
  <2>9. From(p, g) # To(p, c)
    BY <1>1, TextFacts
  <2> QED BY <2>1, <2>3, <2>6, <2>7, <2>8, <2>9
<1> QED BY <1>5, <1>6, <1>7, SpotCases

(* The innermost function around a spot that is defined.                   *)
Inmost(p, D, b) == Max(D \cap Upwards(p, b))
LEMMA InmostFacts ==
  ASSUME NEW p, Tree(p), NEW run, NEW D, Known(p, run, D), NEW b \in DOMAIN p
  PROVE  LET G == Inmost(p, D, b) IN
         /\ G \in D /\ G \in Upwards(p, b) /\ G \in DOMAIN p /\ (G = 1 \/ p[G].kind = "Function")
         /\ \A f \in D \cap Upwards(p, b) : f <= G /\ f \in Upwards(p, G)
<1> DEFINE S == D \cap Upwards(p, b)
<1>1. Upwards(p, b) \subseteq DOMAIN p /\ 1 \in Upwards(p, b)
  BY UpwardsFacts
<1>2. S \in SUBSET DOMAIN p /\ S # {}
  BY <1>1 DEF Known
<1>3. Max(S) \in S /\ \A f \in S : f <= Max(S)
  <2>1. S \in SUBSET Nat /\ IsFiniteSet(S)
    BY <1>2, SomeNodes
  <2> HIDE DEF S
  <2>2. S \in SUBSET Int
    BY <2>1
  <2> QED BY <1>2, <2>1, <2>2, MaxFacts
<1> DEFINE G == Inmost(p, D, b)
<1>4. G \in S /\ \A f \in S : f <= G
  <2>1. G = Max(S)
    BY DEF Inmost
  <2> QED BY <1>3, <2>1
<1> HIDE DEF G
<1>5. ASSUME NEW f \in S PROVE f \in Upwards(p, G)
  <2>1. f \in Upwards(p, b) /\ G \in Upwards(p, b) /\ f <= G /\ f \in DOMAIN p /\ G \in DOMAIN p
    BY <1>1, <1>4
  <2>2. f \in Upwards(p, G) \/ G \in Upwards(p, f)
    BY <2>1, ChainFacts
  <2>3. G \in Upwards(p, f) => G <= f
    BY <2>1, UpwardsFacts
  <2>4. f \in Nat /\ G \in Nat
    BY <2>1, TreeFacts
  <2>5. f \in Upwards(p, f)
    BY <2>1, UpwardsFacts
  <2>6. G \in Upwards(p, f) => G = f
    BY <2>1, <2>3, <2>4
  <2> QED BY <2>2, <2>5, <2>6
<1>6. G = 1 \/ p[G].kind = "Function"
  BY <1>4 DEF Known, Kinds
<1> QED BY <1>1, <1>4, <1>5, <1>6 DEF G

(* Ranges of other functions around a spot are around the innermost one    *)
(* that is defined.                                                        *)
LEMMA Elsewhere ==
  ASSUME NEW p, Tree(p), Grammar(p), Shape(p), NEW run, NEW b, NEW x, NEW y, Spot(p, b, x, y), Apart(p, b),
         NEW D, Known(p, run, D), b \notin D,
         NEW f \in D, f # Inmost(p, D, b), NEW r \in AllRanges(p, run, f), Covering(r, x, y)
  PROVE  LET G == Inmost(p, D, b) IN
         r.from <= From(p, G) /\ To(p, G) <= r.to /\ ~(r.from = From(p, G) /\ r.to = To(p, G))
<1> DEFINE G == Inmost(p, D, b)
<1>1. b \in DOMAIN p /\ Upwards(p, b) \subseteq DOMAIN p /\ \A n \in DOMAIN p : n \in Nat /\ n # 0
  <2>1. b \in DOMAIN p
    BY DEF Spot
  <2> QED BY <2>1, UpwardsFacts, TreeFacts
<1>2. /\ G \in D /\ G \in Upwards(p, b) /\ G \in DOMAIN p /\ (G = 1 \/ p[G].kind = "Function")
      /\ \A k \in D \cap Upwards(p, b) : k <= G
  BY <1>1, InmostFacts
<1> HIDE DEF G
<1>3. f \in Upwards(p, b)
  <2>1. ASSUME NEW m \in Upwards(p, b) PROVE FunctionOf(p, m) \in Upwards(p, b)
    <3>1. m \in DOMAIN p /\ Upwards(p, m) \subseteq Upwards(p, b)
      BY <1>1, UpwardsFacts
    <3> QED BY <3>1, FunctionFacts
  <2>2. ASSUME ArmFunction(p, b) PROVE FunctionOf(p, p[b].up) \in Upwards(p, b)
    <3>1. b # 1
      BY <2>2, TreeFacts DEF ArmFunction
    <3>2. p[b].up \in Upwards(p, b)
      BY <1>1, <3>1, UpwardsDefined, UpwardsFacts
    <3> QED BY <2>1, <3>2
  <2> QED BY <2>1, <2>2, SpotCases
<1>4. f \in DOMAIN p /\ f < G /\ G # 1 /\ p[G].kind = "Function"
  <2>1. f \in DOMAIN p /\ f <= G /\ f # G
    BY <1>1, <1>2, <1>3 DEF G
  <2>2. f \in Nat /\ G \in Nat /\ f # 0
    BY <1>1, <1>2, <2>1
  <2>3. f < G /\ G # 1
    BY <2>1, <2>2
  <2> QED BY <1>2, <2>1, <2>3
<1>5. r.from <= From(p, G) /\ To(p, G) <= r.to /\ (r.from = From(p, G) /\ r.to = To(p, G) => G = b)
  BY <1>2, <1>4, Surrounds
<1> QED BY <1>2, <1>5 DEF G

(* If a function around the spot is not defined the outermost of these     *)
(* says what runs there.                                                   *)
LEMMA Hidden ==
  ASSUME NEW p, Tree(p), Grammar(p), Shape(p), NEW run, NEW b, NEW x, NEW y, Spot(p, b, x, y), Apart(p, b),
         NEW D, Known(p, run, D), b \notin D,
         \E f \in Upwards(p, b) : p[f].kind = "Function" /\ f \notin D
  PROVE  \E h \in Upwards(p, b) :
           /\ p[h].kind = "Function" /\ h \notin D /\ HomeOf(p, h) = Inmost(p, D, b)
           /\ Over(AllRanges(p, run, Inmost(p, D, b)), x, y) = CoverNode(p, run, Inmost(p, D, b), h)
<1> DEFINE G == Inmost(p, D, b)
           U == {f \in Upwards(p, b) : p[f].kind = "Function" /\ f \notin D}
<1>1. b \in DOMAIN p /\ Upwards(p, b) \subseteq DOMAIN p /\ \A n \in DOMAIN p : n \in Nat /\ n # 0
  <2>1. b \in DOMAIN p
    BY DEF Spot
  <2> QED BY <2>1, UpwardsFacts, TreeFacts
<1>2. /\ G \in D /\ G \in Upwards(p, b) /\ G \in DOMAIN p /\ (G = 1 \/ p[G].kind = "Function")
      /\ \A k \in D \cap Upwards(p, b) : k <= G
  BY <1>1, InmostFacts
<1> HIDE DEF G
<1>3. PICK h \in U : \A k \in U : h <= k
  <2>1. U \in SUBSET Nat /\ U # {}
    BY <1>1
  <2> QED BY <2>1, LeastNatural
<1>4. h \in Upwards(p, b) /\ h \in DOMAIN p /\ p[h].kind = "Function" /\ h \notin D /\ h # 1 /\ h \in Nat
  BY <1>1, <1>3, TreeFacts
<1> DEFINE u == p[h].up
           F == FunctionOf(p, u)
<1>5. /\ u \in DOMAIN p /\ Upwards(p, u) \subseteq Upwards(p, b) /\ HomeOf(p, h) = F
      /\ F \in Upwards(p, u) /\ F \in DOMAIN p /\ F < h /\ (F = 1 \/ p[F].kind = "Function")
  <2>1. u \in DOMAIN p
    BY <1>4, UpwardsFacts
  <2>2. Upwards(p, u) \subseteq Upwards(p, b)
    <3>1. u \in Upwards(p, h) /\ Upwards(p, h) \subseteq Upwards(p, b)
      BY <1>1, <1>4, <2>1, UpwardsDefined, UpwardsFacts
    <3> QED BY <1>4, <3>1, UpwardsFacts
  <2>3. HomeOf(p, h) = F /\ F < h
    BY <1>4, HomeFacts
  <2> QED BY <2>1, <2>2, <2>3, FunctionFacts
<1>6. F \in D
  <2>1. F = 1 => F \in D
    BY DEF Known
  <2>2. F # 1 /\ F \notin D => F \in U
    BY <1>5
  <2>3. ~(F \in U)
    <3>1. F \in U => h <= F
      BY <1>3
    <3>2. F \in Nat
      BY <1>1, <1>5
    <3> QED BY <1>4, <1>5, <3>1, <3>2
  <2> QED BY <2>1, <2>2, <2>3
<1>7. F = G
  <2>1. F <= G
    BY <1>2, <1>5, <1>6
  <2>2. h \notin Upwards(p, G)
    BY <1>2, <1>4 DEF Known
  <2>3. G \in Upwards(p, h) /\ G # h
    BY <1>1, <1>2, <1>4, <2>2, ChainFacts
  <2>4. G \in Upwards(p, u)
    BY <1>4, <2>3, UpwardsFacts
  <2>5. G <= F
    <3>1. CASE p[G].kind = "Function"
      BY <1>5, <2>4, <3>1, FunctionFacts
    <3>2. CASE G = 1
      BY <1>1, <1>5, <3>2
    <3> QED BY <1>2, <3>1, <3>2
  <2>6. F \in Nat /\ G \in Nat
    BY <1>1, <1>2, <1>5
  <2> QED BY <2>1, <2>5, <2>6
<1>8. \A t \in AllRanges(p, run, G) : Covering(t, x, y) <=> t.from <= From(p, h) /\ To(p, h) <= t.to
  <2> SUFFICES ASSUME NEW t \in AllRanges(p, run, G)
               PROVE  Covering(t, x, y) <=> t.from <= From(p, h) /\ To(p, h) <= t.to
    OBVIOUS
  <2>1. Covering(t, x, y) => t.from <= From(p, h) /\ To(p, h) <= t.to
    BY <1>2, <1>4, <1>5, <1>7, Surrounds
  <2>2. From(p, h) <= x /\ y <= To(p, h)
    BY <1>4 DEF Spot, Counted, Scopes
  <2>3. t.from \in Nat /\ t.to \in Nat
    BY RangeInText
  <2>4. From(p, h) \in Nat /\ To(p, h) \in Nat /\ x \in Nat /\ y \in Nat
    BY <1>4, TextFacts DEF Spot
  <2> QED BY <2>1, <2>2, <2>3, <2>4 DEF Covering
<1>9. Over(AllRanges(p, run, G), x, y) = CoverNode(p, run, G, h)
  BY <1>8 DEF Over, CoverNode, Covering
<1> QED BY <1>4, <1>5, <1>7, <1>9 DEF G

(* If none, it is the function around it.                                  *)
LEMMA InmostHome ==
  ASSUME NEW p, Tree(p), NEW run, NEW b \in DOMAIN p, NEW D, Known(p, run, D), b \notin D,
         \A f \in Upwards(p, b) : p[f].kind = "Function" => f \in D
  PROVE  HomeOf(p, b) = Inmost(p, D, b)
<1> DEFINE G == Inmost(p, D, b) F == HomeOf(p, b)
<1>1. /\ G \in D /\ G \in Upwards(p, b) /\ G \in DOMAIN p /\ (G = 1 \/ p[G].kind = "Function")
      /\ \A k \in D \cap Upwards(p, b) : k <= G
  BY InmostFacts
<1>2. p[b].kind # "Function"
  BY UpwardsFacts
<1>3. F = FunctionOf(p, b)
  BY <1>2, HomeFacts
<1>4. F \in Upwards(p, b) /\ F \in DOMAIN p /\ (F = 1 \/ p[F].kind = "Function")
      /\ \A m \in Upwards(p, b) : p[m].kind = "Function" => m <= F
  BY <1>3, FunctionFacts
<1> HIDE DEF G, F
<1>5. F \in D
  BY <1>4 DEF Known
<1>6. F <= G
  BY <1>1, <1>4, <1>5
<1>7. F \in Nat /\ G \in Nat /\ F # 0
  BY <1>1, <1>4, TreeFacts
<1>8. G <= F
  BY <1>1, <1>4, <1>7
<1>9. F = G
  BY <1>6, <1>7, <1>8
<1> QED BY <1>9 DEF F, G

(* A spot: what all ranges of the innermost defined function tell there.   *)
Meant(p, run, D, b, x, y, v) ==
  /\ (\A f \in Upwards(p, b) : p[f].kind = "Function" => f \in D) =>
       Tells(Over(AllRanges(p, run, HomeOf(p, b)), x, y), v)
  /\ (\E f \in Upwards(p, b) : p[f].kind = "Function" /\ f \notin D) => v = 0
LEMMA Spotted ==
  ASSUME NEW p, Tree(p), Grammar(p), Shape(p), NEW run, \A k \in DOMAIN p : Follows(p, run, k),
         NEW b, NEW x, NEW y, Spot(p, b, x, y), Apart(p, b),
         NEW D, Known(p, run, D), b \notin D, NEW v, Meant(p, run, D, b, x, y, v)
  PROVE  Tells(Over(Ranges(p, run, Inmost(p, D, b)), x, y), v)
<1> DEFINE G == Inmost(p, D, b)
<1>1. b \in DOMAIN p /\ Upwards(p, b) \subseteq DOMAIN p /\ x \in Nat /\ y \in Nat /\ x < y
  <2>1. b \in DOMAIN p /\ x \in Nat /\ y \in Nat /\ x < y
    BY DEF Spot
  <2> QED BY <2>1, UpwardsFacts
<1>2. Tells(Over(AllRanges(p, run, G), x, y), v)
  <2>1. CASE \A f \in Upwards(p, b) : p[f].kind = "Function" => f \in D
    <3>1. HomeOf(p, b) = G
      BY <1>1, <2>1, InmostHome
    <3> QED BY <2>1, <3>1 DEF Meant
  <2>2. CASE \E f \in Upwards(p, b) : p[f].kind = "Function" /\ f \notin D
    <3>1. PICK h \in Upwards(p, b) :
            /\ p[h].kind = "Function" /\ h \notin D /\ HomeOf(p, h) = G
            /\ Over(AllRanges(p, run, G), x, y) = CoverNode(p, run, G, h)
      BY <2>2, Hidden
    <3> HIDE DEF G
    <3>2. v = 0
      BY <2>2 DEF Meant
    <3>3. h \in DOMAIN p /\ h # 1 /\ h \in Upwards(p, h)
      BY <1>1, <3>1, TreeFacts, UpwardsFacts
    <3>4. Reach(p, run, h) = 0
      <4>1. run.past[h] = 0
        BY <3>1, <3>3 DEF Known
      <4> QED BY <3>1, <4>1 DEF Reach
    <3>5. p[h].slot \notin {"param", "handler"}
      <4>1. h \in 2..Len(p)
        BY <3>3, TreeFacts
      <4>2. p[h].slot # "handler"
        BY <3>1, <4>1 DEF Grammar
      <4>3. p[h].slot = "param" => Below(p, h) = {}
        BY <4>1 DEF Shape
      <4>4. Below(p, h) # {}
        BY <3>1, <3>3 DEF Grammar, At
      <4> QED BY <4>2, <4>3, <4>4
    <3>6. Levelled(p, run, h)
      BY <3>3, Levels
    <3>7. PICK r \in CoverNode(p, run, G, h) : Least(r, CoverNode(p, run, G, h)) /\ r.count <= 0
      BY <3>1, <3>4, <3>5, <3>6 DEF Levelled
    <3>8. r \in AllRanges(p, run, G)
      BY <3>7 DEF CoverNode, Over
    <3>9. r.count \in Nat
      BY <3>8, CountTyped
    <3>10. r.count = 0
      BY <3>7, <3>9
    <3> QED BY <3>1, <3>2, <3>7, <3>10 DEF Tells
  <2> QED BY <2>1, <2>2
<1> HIDE DEF G
<1>3. PICK r \in Over(AllRanges(p, run, G), x, y) : Least(r, Over(AllRanges(p, run, G), x, y)) /\ r.count = v
  BY <1>2 DEF Tells
<1>4. r \in AllRanges(p, run, G)
  BY <1>3 DEF Over
<1>5. Tells(Over(Ranges(p, run, G), x, y), r.count)
  BY <1>1, <1>3, <1>4, Kept
<1> QED BY <1>3, <1>5 DEF G

(* The smallest of all ranges around a spot tells what is meant.           *)
Size(r) == r.to - r.from
LEMMA SmallestTells ==
  ASSUME NEW p, Tree(p), Grammar(p), Shape(p), NEW run, \A k \in DOMAIN p : Follows(p, run, k),
         NEW b, NEW x, NEW y, Spot(p, b, x, y), Apart(p, b),
         NEW D, Known(p, run, D), b \notin D, NEW v, Meant(p, run, D, b, x, y, v)
  PROVE  /\ \E f \in D : \E r \in Ranges(p, run, f) : Covering(r, x, y)
         /\ \A f \in D : \A r \in Ranges(p, run, f) :
              /\ Covering(r, x, y)
              /\ \A g \in D : \A s \in Ranges(p, run, g) : Covering(s, x, y) => ~(Size(s) < Size(r))
              => r.count = v
<1> DEFINE G == Inmost(p, D, b)
<1>1. b \in DOMAIN p
  BY DEF Spot
<1>2. G \in D /\ G \in Upwards(p, b) /\ G \in DOMAIN p /\ (G = 1 \/ p[G].kind = "Function")
  BY <1>1, InmostFacts
<1>3. PICK t \in Over(Ranges(p, run, G), x, y) :
        t.count = v /\ \A s \in Over(Ranges(p, run, G), x, y) : Within(t, s)
  BY Spotted DEF Tells, Least
<1> HIDE DEF G
<1>4. \A f : Ranges(p, run, f) \subseteq AllRanges(p, run, f)
  BY RangesDefined
<1>5. t \in Ranges(p, run, G) /\ Covering(t, x, y)
  BY <1>3 DEF Over, Covering
<1>6. ASSUME NEW f \in D, NEW r \in Ranges(p, run, f), Covering(r, x, y),
             \A g \in D : \A s \in Ranges(p, run, g) : Covering(s, x, y) => ~(Size(s) < Size(r))
      PROVE  r.count = v
  <2>0. r \in AllRanges(p, run, f)
    BY <1>4, <1>6
  <2>1. r.from \in Nat /\ r.to \in Nat
    BY <2>0, RangeInText
  <2>2. CASE f # G
    <3> DEFINE o == OwnRange(p, run, G)
    <3>1. r.from <= From(p, G) /\ To(p, G) <= r.to /\ ~(r.from = From(p, G) /\ r.to = To(p, G))
      BY <1>6, <2>0, <2>2, Elsewhere DEF G
    <3>2. Counted(p, G) /\ o \in Ranges(p, run, G)
      BY <1>2, FunctionRange
    <3>3. o.from = From(p, G) /\ o.to = To(p, G)
      BY DEF OwnRange, Range1
    <3>4. Covering(o, x, y)
      BY <1>2, <3>2, <3>3 DEF Spot, Covering
    <3>5. ~(Size(o) < Size(r))
      BY <1>2, <1>6, <3>2, <3>4
    <3>6. From(p, G) \in Nat /\ To(p, G) \in Nat
      BY <1>2, TextFacts
    <3> HIDE DEF o
    <3> QED BY <2>1, <3>1, <3>3, <3>5, <3>6 DEF Size
  <2>3. CASE f = G
    <3>1. Within(t, r)
      BY <1>3, <1>6, <2>3 DEF Over, Covering
    <3>2. t \in AllRanges(p, run, G) /\ r \in AllRanges(p, run, G)
      BY <1>4, <1>5, <2>0, <2>3
    <3>3. t.from \in Nat /\ t.to \in Nat
      BY <3>2, RangeInText
    <3>4. ~(Size(t) < Size(r))
      BY <1>2, <1>5, <1>6
    <3>5. t.from = r.from /\ t.to = r.to
      BY <2>1, <3>1, <3>3, <3>4 DEF Size, Within
    <3>6. t = r
      BY <3>2, <3>5, RangesDiffer
    <3> QED BY <1>3, <3>6
  <2> QED BY <2>2, <2>3
<1>7. \E f \in D : \E r \in Ranges(p, run, f) : Covering(r, x, y)
  BY <1>2, <1>5
<1> QED BY <1>6, <1>7

(* A node is a spot, and the least range around it is meant to tell how    *)
(* often it was entered.                                                   *)
LEMMA NodeSpot ==
  ASSUME NEW p, Tree(p), Grammar(p), Shape(p), NEW run, \A k \in DOMAIN p : Follows(p, run, k),
         NEW D, Known(p, run, D), NEW n \in DOMAIN p, n \notin D,
         p[n].slot \notin {"param", "handler"}, p[n].kind = "Function" \/ ~Late(p, n)
  PROVE  Spot(p, n, From(p, n), To(p, n)) /\ Meant(p, run, D, n, From(p, n), To(p, n), run.in[n])
<1>1. From(p, n) \in Nat /\ To(p, n) \in Nat /\ From(p, n) < To(p, n)
  BY TextFacts
<1>2. Upwards(p, n) \subseteq DOMAIN p /\ n \in Upwards(p, n)
  BY UpwardsFacts
<1>3. Spot(p, n, From(p, n), To(p, n))
  <2>1. \A m \in DOMAIN p : m \in Upwards(p, n) <=> From(p, m) <= From(p, n) /\ To(p, n) <= To(p, m)
    BY HoldsFacts DEF Holds
  <2> QED BY <1>1, <1>2, <2>1 DEF Spot
<1>4. ASSUME \A f \in Upwards(p, n) : p[f].kind = "Function" => f \in D
      PROVE  Tells(Over(AllRanges(p, run, HomeOf(p, n)), From(p, n), To(p, n)), run.in[n])
  <2>1. p[n].kind # "Function"
    BY <1>2, <1>4
  <2>2. Levelled(p, run, n) /\ n # 1
    BY Levels DEF Known
  <2>3. PICK r \in CoverNode(p, run, HomeOf(p, n), n) :
          Least(r, CoverNode(p, run, HomeOf(p, n), n)) /\ (r.count = Reach(p, run, n) \/ Late(p, n))
    BY <2>2 DEF Levelled
  <2>4. r.count = run.in[n]
    BY <2>1, <2>3 DEF Reach
  <2> QED BY <2>3, <2>4 DEF Tells, CoverNode
<1>5. (\E f \in Upwards(p, n) : p[f].kind = "Function" /\ f \notin D) => run.in[n] = 0
  BY DEF Known
<1> QED BY <1>3, <1>4, <1>5 DEF Meant

(* The point behind a construct, if the arms around go on.                 *)
GoesOn(p, c) == \A m \in Upwards(p, c) : Counted(p, m) => To(p, m) > To(p, c)
(* Only the gap of the construct starts there.                             *)
LEMMA StartsThere ==
  ASSUME NEW p, Tree(p), Grammar(p), Shape(p), NEW run, NEW c \in DOMAIN p, Diverts(p, c), GoesOn(p, c),
         NEW f, NEW r \in AllRanges(p, run, f), r.from = To(p, c)
  PROVE  f = FunctionOf(p, c) /\ r = Range1(To(p, c), To(p, Around(p, c)), run.past[c])
<1>1. \A u, v, w : Range1(u, v, w).from = u
  BY DEF Range1
<1>2. \A n \in DOMAIN p : From(p, n) # To(p, c)
  BY TextFacts
<1>3. PICK d \in DOMAIN p : /\ FunctionOf(p, d) = f /\ GapRange(p, r, d)
                            /\ r = Range1(To(p, d), To(p, Around(p, d)), run.past[d])
  BY <1>1, <1>2, RangeCases
<1>4. Diverts(p, d) /\ To(p, d) = To(p, c) /\ To(p, d) < To(p, Around(p, d))
  BY <1>3 DEF GapRange
<1>5. To(p, c) \in Nat /\ To(p, d) \in Nat /\ From(p, c) \in Nat /\ From(p, d) \in Nat
      /\ From(p, c) < To(p, c) /\ From(p, d) < To(p, d)
  BY TextFacts
<1>6. d \in Upwards(p, c) \/ c \in Upwards(p, d)
  <2>1. ~(LastIn(p, d) < c)
    <3>1. LastIn(p, d) < c => To(p, d) < From(p, c)
      BY TextFacts
    <3> QED BY <1>4, <1>5, <3>1
  <2>2. ~(LastIn(p, c) < d)
    <3>1. LastIn(p, c) < d => To(p, c) < From(p, d)
      BY TextFacts
    <3> QED BY <1>4, <1>5, <3>1
  <2> QED BY <2>1, <2>2, BehindFacts
<1>7. ASSUME d # c PROVE FALSE
  <2>1. CASE d \in Upwards(p, c)
    <3>1. PICK q \in Upwards(p, c) : Counted(p, q) /\ q # d /\ d \in Upwards(p, q)
      BY <1>4, <1>7, <2>1, DivertsEnd
    <3>2. q \in DOMAIN p
      BY UpwardsFacts
    <3>3. To(p, q) <= To(p, d) /\ To(p, q) \in Nat
      BY <3>1, <3>2, TextFacts DEF Holds
    <3>4. To(p, q) > To(p, c)
      BY <3>1 DEF GoesOn
    <3> QED BY <1>4, <1>5, <3>3, <3>4
  <2>2. CASE c \in Upwards(p, d)
    <3>1. PICK q \in Upwards(p, d) : Counted(p, q) /\ q # c /\ c \in Upwards(p, q)
      BY <1>4, <1>7, <2>2, DivertsEnd
    <3>2. q \in DOMAIN p
      BY UpwardsFacts
    <3>3. To(p, q) <= To(p, c) /\ To(p, q) \in Nat
      BY <3>1, <3>2, TextFacts DEF Holds
    <3>4. q \in Upwards(p, Around(p, d)) /\ Around(p, d) \in DOMAIN p
      BY <3>1, AroundFacts
    <3>5. To(p, Around(p, d)) <= To(p, q) /\ To(p, Around(p, d)) \in Nat
      BY <3>2, <3>4, TextFacts DEF Holds
    <3> QED BY <1>4, <1>5, <3>3, <3>5
  <2> QED BY <1>6, <2>1, <2>2
<1> QED BY <1>3, <1>7

LEMMA PointSpot ==
  ASSUME NEW p, Tree(p), Grammar(p), Shape(p), NEW run, NEW D, Known(p, run, D),
         NEW c \in DOMAIN p, Diverts(p, c), GoesOn(p, c)
  PROVE  /\ Spot(p, c, To(p, c), To(p, c) + 1)
         /\ Meant(p, run, D, c, To(p, c), To(p, c) + 1, run.past[c])
<1> DEFINE x == To(p, c) a == Around(p, c) g == FunctionOf(p, c) o == Range1(To(p, c), To(p, a), run.past[c])
<1>1. From(p, c) \in Nat /\ x \in Nat /\ From(p, c) < x /\ x + 1 \in Nat /\ x < x + 1
  <2>1. From(p, c) \in Nat /\ x \in Nat /\ From(p, c) < x
    BY TextFacts
  <2> QED BY <2>1
<1>2. Upwards(p, c) \subseteq DOMAIN p /\ c \in Upwards(p, c)
  BY UpwardsFacts
<1>3. ASSUME NEW m \in DOMAIN p
      PROVE  /\ From(p, m) \in Nat /\ To(p, m) \in Nat
             /\ LastIn(p, m) < c => To(p, m) < From(p, c)
             /\ LastIn(p, c) < m => x < From(p, m)
             /\ c \in Upwards(p, m) => To(p, m) <= x
             /\ m \in Upwards(p, c) => From(p, m) <= From(p, c)
             /\ m \in Upwards(p, c) \/ c \in Upwards(p, m) \/ LastIn(p, m) < c \/ LastIn(p, c) < m
  <2>1. From(p, m) \in Nat /\ To(p, m) \in Nat /\ (LastIn(p, m) < c => To(p, m) < From(p, c))
        /\ (LastIn(p, c) < m => x < From(p, m))
    BY TextFacts
  <2>2. (c \in Upwards(p, m) => To(p, m) <= x) /\ (m \in Upwards(p, c) => From(p, m) <= From(p, c))
    BY TextFacts DEF Holds
  <2>3. m \in Upwards(p, c) \/ c \in Upwards(p, m) \/ LastIn(p, m) < c \/ LastIn(p, c) < m
    BY BehindFacts
  <2> QED BY <2>1, <2>2, <2>3
<1> HIDE DEF x
<1>4. Spot(p, c, x, x + 1)
  <2>1. ASSUME NEW m \in DOMAIN p, From(p, m) <= x, x + 1 <= To(p, m) PROVE m \in Upwards(p, c)
    BY <1>1, <1>3, <2>1
  <2>2. ASSUME NEW m \in Upwards(p, c), Counted(p, m) PROVE From(p, m) <= x /\ x + 1 <= To(p, m)
    <3>1. m \in DOMAIN p /\ To(p, m) > x
      BY <1>2, <2>2 DEF GoesOn, x
    <3>2. From(p, m) <= From(p, c) /\ From(p, m) \in Nat /\ To(p, m) \in Nat
      BY <1>3, <3>1
    <3> QED BY <1>1, <3>1, <3>2
  <2> QED BY <1>1, <2>1, <2>2 DEF Spot
<1>5. ASSUME \A f \in Upwards(p, c) : p[f].kind = "Function" => f \in D
      PROVE  Tells(Over(AllRanges(p, run, HomeOf(p, c)), x, x + 1), run.past[c])
  <2>1. p[c].kind # "Function"
    BY DEF Diverts, Loops
  <2>2. HomeOf(p, c) = g
    BY <2>1, HomeFacts
  <2>3. a \in DOMAIN p /\ To(p, a) > x /\ To(p, a) \in Nat
    <3>1. a \in DOMAIN p /\ a \in Upwards(p, c) /\ Counted(p, a)
      BY AroundFacts
    <3> QED BY <1>3, <3>1 DEF GoesOn, x
  <2>4. o.from = x /\ o.to = To(p, a) /\ o.count = run.past[c]
    BY DEF Range1, x
  <2>5. GapRange(p, o, c)
    BY <1>1, <2>3, <2>4 DEF GapRange, x
  <2>6. o \in AllRanges(p, run, g)
    BY <2>5, RangeCases
  <2> HIDE DEF o
  <2>7. o \in Over(AllRanges(p, run, g), x, x + 1)
    BY <1>1, <2>3, <2>4, <2>6 DEF Over
  <2>8. ASSUME NEW s \in Over(AllRanges(p, run, g), x, x + 1) PROVE Within(o, s)
    <3>1. s \in AllRanges(p, run, g) /\ s.from <= x /\ x + 1 <= s.to
      BY DEF Over
    <3>2. s.from \in Nat /\ s.to \in Nat
      BY <3>1, RangeInText
    <3>3. o.from < s.to /\ s.from < o.to
      BY <1>1, <2>3, <2>4, <3>1, <3>2
    <3>4. Within(o, s) \/ Within(s, o)
      BY <2>6, <3>1, <3>3, RangesNested
    <3>5. ASSUME Within(s, o) PROVE s = o
      <4>1. s.from = x
        BY <1>1, <2>4, <3>1, <3>2, <3>5 DEF Within
      <4> QED BY <3>1, <4>1, StartsThere DEF x, o
    <3>6. Within(o, o)
      BY <1>1, <2>3, <2>4 DEF Within
    <3> QED BY <3>4, <3>5, <3>6
  <2> QED BY <2>2, <2>4, <2>7, <2>8 DEF Tells, Least
<1>6. (\E f \in Upwards(p, c) : p[f].kind = "Function" /\ f \notin D) => run.past[c] = 0
  BY DEF Known
<1> QED BY <1>4, <1>5, <1>6 DEF Meant, x

-----------------------------------------------------------------------------
(* The join, as an order of the ranges of all functions: f's r is found    *)
(* ahead of g's s.                                                         *)
Fits(arm, r) == IF arm.point THEN r.from <= arm.from /\ r.to > arm.from
                ELSE r.from <= arm.from /\ r.to >= arm.to
Same(arm, r) == IF arm.point THEN r.from = arm.from ELSE r.from = arm.from /\ r.to = arm.to
Ahead(arm, f, r, g, s) ==
  \/ Same(arm, r) /\ ~Same(arm, s)
  \/ (Same(arm, r) <=> Same(arm, s)) /\ IF Same(arm, r) /\ ~arm.point THEN f > g ELSE Size(r) < Size(s)
Answers(coverage, arm, f, r) ==
  /\ f \in DOMAIN coverage /\ r \in coverage[f] /\ Fits(arm, r)
  /\ \A g \in DOMAIN coverage : \A s \in coverage[g] : Fits(arm, s) => ~Ahead(arm, g, s, f, r)

(* Told and TrueCount, for the file p and the counts run.                  *)
ToldOf(p, arm) ==
  /\ Apart(p, arm.node)
  /\ IF arm.point THEN \A n \in Upwards(p, arm.node) : Counted(p, n) => Offset(p)[n].to > arm.to
     ELSE /\ ~\E m \in Upwards(p, arm.node) :
               /\ p[m].slot = "test" /\ p[p[m].up].kind \in Loops
               /\ \A k \in Upwards(p, arm.node) : Counted(p, k) => k < m
          /\ p[arm.node].kind = "Function" => arm.kind = "FnEntry"
TrueOf(run, arm) == IF arm.point THEN run.past[arm.node] ELSE run.in[arm.node]
LEMMA ArmCases ==
  ASSUME NEW p, NEW arm \in AllArms(p)
  PROVE  \/ /\ ~arm.point /\ arm.node \in ArmNodes(p)
            /\ arm.from = From(p, arm.node) /\ arm.to = To(p, arm.node)
         \/ /\ arm.point /\ arm.node \in CountersAfter(p)
            /\ arm.from = To(p, arm.node) /\ arm.to = To(p, arm.node)
<1>2. CASE \E m \in ArmNodes(p), k \in Constructs, i \in Nat : arm = Arm(p, m, k, i)
  <2>1. PICK m \in ArmNodes(p), k \in Constructs, i \in Nat : arm = Arm(p, m, k, i)
    BY <1>2
  <2>2. /\ arm.point = FALSE /\ arm.node = m /\ arm.from = From(p, m) /\ arm.to = To(p, m)
    BY <2>1 DEF Arm, From, To
  <2> QED BY <2>2
<1>3. CASE \E m \in CountersAfter(p), k \in Constructs, i \in Nat : arm = Continuation(p, m, k, i)
  <2>1. PICK m \in CountersAfter(p), k \in Constructs, i \in Nat : arm = Continuation(p, m, k, i)
    BY <1>3
  <2>2. /\ arm.point = TRUE /\ arm.node = m /\ arm.from = To(p, m) /\ arm.to = To(p, m)
    BY <2>1 DEF Continuation, From, To
  <2> QED BY <2>2
<1> QED BY <1>2, <1>3 DEF AllArms, ArmsAt, PointsAt

(* The ranges with the extent of a node.                                   *)
LEMMA ExactCases ==
  ASSUME NEW p, Tree(p), Grammar(p), Shape(p), NEW run, NEW n \in DOMAIN p,
         NEW f, NEW r \in AllRanges(p, run, f), r.from = From(p, n), r.to = To(p, n)
  PROVE  \/ f = FunctionOf(p, n) /\ r.count = run.in[n]
         \/ ArmFunction(p, n) /\ f = FunctionOf(p, p[n].up) /\ r.count = run.past[n]
<1>1. \A u, v, w : Range1(u, v, w).from = u /\ Range1(u, v, w).to = v /\ Range1(u, v, w).count = w
  BY DEF Range1
<1>2. \A m \in DOMAIN p : From(p, n) = From(p, m) /\ To(p, n) = To(p, m) => n = m
  BY HoldsFacts
<1>3. \A c \in DOMAIN p : From(p, n) # To(p, c)
  BY TextFacts
<1> QED BY <1>1, <1>2, <1>3, RangeCases DEF ArmFunction

(* The nodes that are arms.                                                *)
LEMMA ArmSlotted ==
  ASSUME NEW p, Tree(p), Grammar(p), Shape(p), NEW n \in ArmNodes(p)
  PROVE  n \in DOMAIN p /\ (n # 1 => p[n].slot \notin {"param", "handler"})
<1>1. n \in DOMAIN p
  BY DEF ArmNodes
<1>2. ASSUME n # 1 PROVE p[n].slot \notin {"param", "handler"}
  <2>1. n \in 2..Len(p)
    BY <1>1, <1>2, TreeFacts
  <2>2. p[n].slot = "param" => Below(p, n) = {}
    BY <2>1 DEF Shape
  <2>3. p[n].kind = "Function" => Below(p, n) # {}
    BY <1>1 DEF Grammar, At
  <2>4. p[n].kind = "Logical" => Below(p, n) # {}
    BY <1>1, TreeFacts DEF Grammar, At
  <2>5. p[n].slot = "handler" <=> p[n].kind = "Catch"
    BY <2>1 DEF Grammar
  <2>6. p[n].kind \in {"Case", "Default"} => p[n].slot = "list"
    BY <2>1 DEF Grammar
  <2> QED BY <1>2, <2>2, <2>3, <2>4, <2>5, <2>6 DEF ArmNodes, CountersIn
<1> QED BY <1>1, <1>2

(* What a dump answers for an arm is how often the arm ran.                *)
DumpAnswers(p, run, D, arm) ==
  /\ \E f \in D : \E r \in Ranges(p, run, f) : Fits(arm, r)
  /\ \A f, r : Answers([g \in D |-> Ranges(p, run, g)], arm, f, r) => r.count = TrueOf(run, arm)
LEMMA AnswerFacts ==
  ASSUME NEW p, NEW run, NEW D, NEW arm, NEW f, NEW r, Answers([g \in D |-> Ranges(p, run, g)], arm, f, r)
  PROVE  /\ f \in D /\ r \in Ranges(p, run, f) /\ Fits(arm, r)
         /\ \A g \in D : \A s \in Ranges(p, run, g) : Fits(arm, s) => ~Ahead(arm, g, s, f, r)
BY DEF Answers

LEMMA NodeAnswers ==
  ASSUME NEW p, Tree(p), Grammar(p), Shape(p), NEW run, \A k \in DOMAIN p : Follows(p, run, k),
         NEW D, Known(p, run, D), NEW arm \in AllArms(p), ~arm.point, ToldOf(p, arm)
  PROVE  DumpAnswers(p, run, D, arm)
<1> DEFINE n == arm.node
<1>1. n \in ArmNodes(p) /\ n \in DOMAIN p /\ arm.from = From(p, n) /\ arm.to = To(p, n) /\ TrueOf(run, arm) = run.in[n]
  BY ArmCases, ArmSlotted DEF TrueOf
<1>2. Apart(p, n) /\ ~(p[n].kind # "Function" /\ Late(p, n))
  BY DEF ToldOf, Late
<1>3. From(p, n) \in Nat /\ To(p, n) \in Nat /\ From(p, n) < To(p, n)
  BY <1>1, TextFacts
<1>4. \A f : Ranges(p, run, f) \subseteq AllRanges(p, run, f)
  BY RangesDefined
<1>5. ASSUME NEW r PROVE (Same(arm, r) <=> r.from = From(p, n) /\ r.to = To(p, n))
                         /\ (Fits(arm, r) <=> r.from <= From(p, n) /\ r.to >= To(p, n))
  BY <1>1 DEF Same, Fits
<1>6. n \in Upwards(p, n) /\ D \subseteq DOMAIN p /\ \A k \in DOMAIN p : k \in Nat
  BY <1>1, UpwardsFacts, TreeFacts DEF Known, Kinds
<1> HIDE DEF n
<1>7. CASE \E g \in D : \E s \in Ranges(p, run, g) : s.from = From(p, n) /\ s.to = To(p, n)
  <2>1. PICK g \in D : \E s \in Ranges(p, run, g) : s.from = From(p, n) /\ s.to = To(p, n)
    BY <1>7
  <2>2. PICK s \in Ranges(p, run, g) : s.from = From(p, n) /\ s.to = To(p, n)
    BY <2>1
  <2>3. Fits(arm, s) /\ Same(arm, s)
    BY <1>3, <1>5, <2>2
  <2>4. ASSUME NEW f, NEW r, Answers([h \in D |-> Ranges(p, run, h)], arm, f, r) PROVE r.count = run.in[n]
    <3>1. /\ f \in D /\ r \in Ranges(p, run, f) /\ Fits(arm, r)
          /\ \A h \in D : \A t \in Ranges(p, run, h) : Fits(arm, t) => ~Ahead(arm, h, t, f, r)
      BY <2>4, AnswerFacts
    <3>2. Same(arm, r)
      BY <2>3, <3>1 DEF Ahead
    <3>3. \/ f = FunctionOf(p, n) /\ r.count = run.in[n]
          \/ ArmFunction(p, n) /\ f = FunctionOf(p, p[n].up) /\ r.count = run.past[n]
      BY <1>1, <1>4, <1>5, <3>1, <3>2, ExactCases
    <3>4. ASSUME ArmFunction(p, n), f = FunctionOf(p, p[n].up), r.count = run.past[n]
          PROVE  run.past[n] = run.in[n]
      <4>1. p[n].kind = "Function" /\ n # 1
        BY <1>1, <3>4, TreeFacts DEF ArmFunction
      <4>2. CASE n \notin D
        BY <1>1, <1>6, <4>1, <4>2 DEF Known
      <4>3. CASE n \in D
        <5> DEFINE o == OwnRange(p, run, n)
        <5>1. o \in Ranges(p, run, n)
          BY <1>1, <4>1, FunctionRange
        <5>2. o.from = From(p, n) /\ o.to = To(p, n)
          BY DEF OwnRange, Range1
        <5> HIDE DEF o
        <5>3. Fits(arm, o) /\ Same(arm, o)
          BY <1>3, <1>5, <5>2
        <5>4. ~Ahead(arm, n, o, f, r)
          BY <3>1, <4>3, <5>1, <5>3
        <5>5. f < n
          BY <1>1, <3>4, <4>1, HomeFacts
        <5>6. f \in Nat /\ n \in Nat
          BY <1>1, <1>6, <3>1
        <5>7. n > f
          BY <5>5, <5>6
        <5> QED BY <3>2, <5>3, <5>4, <5>7 DEF Ahead
      <4> QED BY <4>2, <4>3
    <3> QED BY <3>3, <3>4
  <2> QED BY <1>1, <2>1, <2>2, <2>3, <2>4 DEF DumpAnswers
<1>8. CASE ~\E g \in D : \E s \in Ranges(p, run, g) : s.from = From(p, n) /\ s.to = To(p, n)
  <2>1. n \notin D
    <3> SUFFICES ASSUME n \in D PROVE FALSE
      OBVIOUS
    <3>1. n = 1 \/ p[n].kind = "Function"
      BY DEF Known, Kinds
    <3>2. OwnRange(p, run, n) \in Ranges(p, run, n)
      BY <1>1, <3>1, FunctionRange
    <3>3. OwnRange(p, run, n).from = From(p, n) /\ OwnRange(p, run, n).to = To(p, n)
      BY DEF OwnRange, Range1
    <3> QED BY <1>8, <3>2, <3>3
  <2>2. p[n].slot \notin {"param", "handler"}
    BY <1>1, <2>1, ArmSlotted DEF Known
  <2>3. Spot(p, n, From(p, n), To(p, n)) /\ Meant(p, run, D, n, From(p, n), To(p, n), run.in[n])
    BY <1>1, <1>2, <2>1, <2>2, NodeSpot
  <2>4. /\ \E f \in D : \E r \in Ranges(p, run, f) : Covering(r, From(p, n), To(p, n))
        /\ \A f \in D : \A r \in Ranges(p, run, f) :
             /\ Covering(r, From(p, n), To(p, n))
             /\ \A g \in D : \A s \in Ranges(p, run, g) : Covering(s, From(p, n), To(p, n)) => ~(Size(s) < Size(r))
             => r.count = run.in[n]
    BY <1>2, <2>1, <2>3, SmallestTells
  <2>5. ASSUME NEW f \in D, NEW r \in Ranges(p, run, f)
        PROVE  (Fits(arm, r) <=> Covering(r, From(p, n), To(p, n))) /\ ~Same(arm, r)
    <3>1. r.from \in Nat /\ r.to \in Nat
      BY <1>4, RangeInText
    <3> QED BY <1>3, <1>5, <1>8, <3>1 DEF Covering
  <2>6. ASSUME NEW f, NEW r, Answers([h \in D |-> Ranges(p, run, h)], arm, f, r) PROVE r.count = run.in[n]
    <3>1. /\ f \in D /\ r \in Ranges(p, run, f) /\ Fits(arm, r)
          /\ \A h \in D : \A t \in Ranges(p, run, h) : Fits(arm, t) => ~Ahead(arm, h, t, f, r)
      BY <2>6, AnswerFacts
    <3>2. ASSUME NEW g \in D, NEW s \in Ranges(p, run, g), Covering(s, From(p, n), To(p, n))
          PROVE  ~(Size(s) < Size(r))
      BY <2>5, <3>1, <3>2 DEF Ahead
    <3> QED BY <2>4, <2>5, <3>1, <3>2
  <2>7. \E f \in D : \E r \in Ranges(p, run, f) : Fits(arm, r)
    BY <2>4, <2>5
  <2> QED BY <1>1, <2>6, <2>7 DEF DumpAnswers
<1> QED BY <1>7, <1>8

LEMMA PointAnswers ==
  ASSUME NEW p, Tree(p), Grammar(p), Shape(p), NEW run, \A k \in DOMAIN p : Follows(p, run, k),
         NEW D, Known(p, run, D), NEW arm \in AllArms(p), arm.point, ToldOf(p, arm)
  PROVE  DumpAnswers(p, run, D, arm)
<1> DEFINE c == arm.node x == To(p, c)
<1>1. c \in CountersAfter(p) /\ arm.from = x /\ arm.to = x /\ TrueOf(run, arm) = run.past[c]
  BY ArmCases DEF TrueOf
<1>2. c \in DOMAIN p /\ Diverts(p, c) /\ p[c].kind # "Function" /\ p[c].kind # "Program"
  BY <1>1 DEF CountersAfter, Kinds, Diverts, Loops
<1>3. Apart(p, c) /\ GoesOn(p, c)
  BY <1>1 DEF ToldOf, GoesOn, To
<1>4. c \notin D
  <2>1. c # 1
    BY <1>2, TreeFacts
  <2> QED BY <1>2, <2>1 DEF Known, Kinds
<1>5. Spot(p, c, x, x + 1) /\ Meant(p, run, D, c, x, x + 1, run.past[c])
  BY <1>2, <1>3, PointSpot
<1>6. /\ \E f \in D : \E r \in Ranges(p, run, f) : Covering(r, x, x + 1)
      /\ \A f \in D : \A r \in Ranges(p, run, f) :
           /\ Covering(r, x, x + 1)
           /\ \A g \in D : \A s \in Ranges(p, run, g) : Covering(s, x, x + 1) => ~(Size(s) < Size(r))
           => r.count = run.past[c]
  BY <1>3, <1>4, <1>5, SmallestTells
<1>7. ASSUME NEW f, NEW r \in Ranges(p, run, f)
      PROVE  /\ Fits(arm, r) <=> Covering(r, x, x + 1)
             /\ Same(arm, r) <=> r.from = x
             /\ r.from = x => r.count = run.past[c] /\ Fits(arm, r)
  <2>1. r \in AllRanges(p, run, f)
    BY RangesDefined
  <2>2. r.from \in Nat /\ r.to \in Nat /\ r.from < r.to
    BY <2>1, RangeInText
  <2>3. x \in Nat
    BY <1>2, TextFacts
  <2>4. r.from = x => r.count = run.past[c]
    <3>1. r.from = x => r = Range1(x, To(p, Around(p, c)), run.past[c])
      BY <1>2, <1>3, <2>1, StartsThere
    <3> QED BY <3>1 DEF Range1
  <2>5. (Fits(arm, r) <=> r.from <= x /\ r.to > x) /\ (Same(arm, r) <=> r.from = x)
    BY <1>1 DEF Fits, Same
  <2> HIDE DEF x
  <2> QED BY <2>2, <2>3, <2>4, <2>5 DEF Covering
<1> HIDE DEF c, x
<1>8. ASSUME NEW f, NEW r, Answers([h \in D |-> Ranges(p, run, h)], arm, f, r) PROVE r.count = run.past[c]
  <2>1. /\ f \in D /\ r \in Ranges(p, run, f) /\ Fits(arm, r)
        /\ \A h \in D : \A t \in Ranges(p, run, h) : Fits(arm, t) => ~Ahead(arm, h, t, f, r)
    BY <1>8, AnswerFacts
  <2>2. CASE r.from = x
    BY <1>7, <2>1, <2>2
  <2>3. CASE r.from # x
    <3>1. ASSUME NEW g \in D, NEW s \in Ranges(p, run, g), Covering(s, x, x + 1) PROVE ~(Size(s) < Size(r))
      <4>1. Fits(arm, s) /\ ~Same(arm, r)
        BY <1>7, <2>1, <2>3, <3>1
      <4> QED BY <2>1, <4>1 DEF Ahead
    <3> QED BY <1>6, <1>7, <2>1, <3>1
  <2> QED BY <2>2, <2>3
<1>9. \E f \in D : \E r \in Ranges(p, run, f) : Fits(arm, r)
  BY <1>6, <1>7
<1> QED BY <1>1, <1>8, <1>9 DEF DumpAnswers

LEMMA DumpAnswersAll ==
  ASSUME NEW p, Tree(p), Grammar(p), Shape(p), NEW run, \A k \in DOMAIN p : Follows(p, run, k),
         NEW D, Known(p, run, D), NEW arm \in AllArms(p), ToldOf(p, arm)
  PROVE  DumpAnswers(p, run, D, arm)
BY NodeAnswers, PointAnswers

-----------------------------------------------------------------------------
(* Merging dumps.  The ranges of a function stay apart from each other.    *)
Alike(r, s) == r.from = s.from /\ r.to = s.to
Ranged(p, S) ==
  \A r \in S : /\ InText(p, r) /\ r.count \in Nat /\ r = Range1(r.from, r.to, r.count)
               /\ \A s \in S : Alike(r, s) => r = s
CountAll(T) == MapThenSumSet(LAMBDA s : s.count, T)
LEMMA CountTwin ==
  ASSUME NEW T, NEW s, T = {s}, s.count \in Nat
  PROVE  CountAll(T) = s.count
<1> DEFINE Body(g, U) == IF U = {} THEN 0 ELSE LET c == CHOOSE x \in U : TRUE IN c.count + g[U \ {c}]
           f == CHOOSE g : g = [U \in SUBSET T |-> Body(g, U)]
           h == [U \in SUBSET T |-> IF U = {} THEN 0 ELSE s.count]
<1>1. CountAll(T) = f[T]
  BY DEF CountAll, MapThenSumSet, MapThenFoldSet
<1>2. \A U \in SUBSET T : U = {} \/ U = T
  OBVIOUS
<1>3. (CHOOSE x \in T : TRUE) = s
  OBVIOUS
<1>4. ASSUME NEW g, g[{}] = 0 PROVE Body(g, T) = s.count /\ Body(g, {}) = 0
  <2>1. T \ {s} = {} /\ T # {}
    OBVIOUS
  <2> QED BY <1>3, <1>4, <2>1
<1>5. h[{}] = 0 /\ h[T] = s.count
  OBVIOUS
<1> HIDE DEF Body
<1>6. \A U \in SUBSET T : h[U] = Body(h, U)
  <2> HIDE DEF h
  <2>1. Body(h, T) = s.count /\ Body(h, {}) = 0
    BY <1>4, <1>5
  <2> QED BY <1>2, <1>5, <2>1
<1>7. h = [U \in SUBSET T |-> h[U]]
  OBVIOUS
<1> HIDE DEF h
<1>8. h = [U \in SUBSET T |-> Body(h, U)]
  BY <1>6, <1>7
<1>9. f = [U \in SUBSET T |-> Body(f, U)]
  BY <1>8
<1> HIDE DEF f
<1>10. \A U \in SUBSET T : f[U] = Body(f, U)
  BY <1>9, Zenon
<1>11. f[{}] = 0
  <2>1. {} \in SUBSET T
    OBVIOUS
  <2> QED BY <1>10, <2>1 DEF Body
<1>12. f[T] = s.count
  <2>1. T \in SUBSET T
    OBVIOUS
  <2> QED BY <1>4, <1>10, <1>11, <2>1
<1> QED BY <1>1, <1>12

LEMMA CountNone == CountAll({}) = 0
<1> DEFINE Body(g, U) == IF U = {} THEN 0 ELSE LET c == CHOOSE x \in U : TRUE IN c.count + g[U \ {c}]
           f == CHOOSE g : g = [U \in SUBSET {} |-> Body(g, U)]
           h == [U \in SUBSET {} |-> 0]
<1>1. CountAll({}) = f[{}]
  BY DEF CountAll, MapThenSumSet, MapThenFoldSet
<1>2. \A g : Body(g, {}) = 0
  OBVIOUS
<1>3. \A U \in SUBSET {} : U = {}
  OBVIOUS
<1> HIDE DEF Body
<1>4. h = [U \in SUBSET {} |-> Body(h, U)]
  <2>1. \A U \in SUBSET {} : Body(h, U) = 0
    BY <1>2, <1>3
  <2> QED BY <2>1
<1> HIDE DEF h
<1>5. f = [U \in SUBSET {} |-> Body(f, U)]
  BY <1>4
<1> HIDE DEF f
<1>6. \A U \in SUBSET {} : f[U] = Body(f, U)
  BY <1>5, Zenon
<1> QED BY <1>1, <1>2, <1>6

(* What is in a sum of two dumps.                                          *)
LEMMA SummedFacts ==
  ASSUME NEW p, NEW a, NEW b, Ranged(p, a), Ranged(p, b), NEW t
  PROVE  t \in Summed(a, b) <=>
           \/ \E r \in a, s \in b : Alike(r, s) /\ t = Range1(r.from, r.to, r.count + s.count)
           \/ t \in a /\ \A s \in b : ~Alike(t, s)
           \/ t \in b /\ \A r \in a : ~Alike(t, r)
<1> DEFINE Twin(r, S) == {s \in S : Alike(r, s)}
           Plus1(r) == [r EXCEPT !.count = @ + CountAll(Twin(r, b))]
<1>1. Summed(a, b) = {Plus1(r) : r \in a} \cup {s \in b : Twin(s, a) = {}}
  BY DEF Summed, CountAll, Alike
<1>2. ASSUME NEW r \in a, NEW s \in b, Alike(r, s) PROVE Plus1(r) = Range1(r.from, r.to, r.count + s.count)
  <2>1. Twin(r, b) = {s}
    BY <1>2 DEF Ranged, Alike
  <2>2. s.count \in Nat
    BY DEF Ranged
  <2> HIDE DEF Twin
  <2>3. CountAll(Twin(r, b)) = s.count
    BY <2>1, <2>2, CountTwin
  <2>4. Plus1(r) = [r EXCEPT !.count = r.count + s.count]
    BY <2>3
  <2>5. r = Range1(r.from, r.to, r.count)
    BY DEF Ranged
  <2> DEFINE x == r.from y == r.to z == r.count
  <2>6. r = [from |-> x, to |-> y, count |-> z]
    BY <2>5 DEF Range1
  <2>7. Plus1(r) = [r EXCEPT !.count = z + s.count]
    BY <2>4
  <2> HIDE DEF x, y, z, Plus1
  <2>8. [r EXCEPT !.count = z + s.count] = Range1(x, y, z + s.count)
    BY <2>6 DEF Range1
  <2> QED BY <2>7, <2>8 DEF x, y, z
<1>3. ASSUME NEW r \in a, \A s \in b : ~Alike(r, s) PROVE Plus1(r) = r
  <2>1. Twin(r, b) = {}
    BY <1>3
  <2>2. CountAll(Twin(r, b)) = 0
    BY <2>1, CountNone
  <2>3. r.count \in Nat /\ r = Range1(r.from, r.to, r.count)
    BY DEF Ranged
  <2> HIDE DEF Twin
  <2> DEFINE x == r.from y == r.to z == r.count
  <2>4. Plus1(r) = [r EXCEPT !.count = z + 0] /\ z \in Nat
    BY <2>2, <2>3
  <2>6. r = [from |-> x, to |-> y, count |-> z]
    BY <2>3 DEF Range1
  <2>7. z + 0 = z
    BY <2>4
  <2> HIDE DEF x, y, z, Plus1
  <2>8. [r EXCEPT !.count = z] = r
    BY <2>6
  <2> QED BY <2>4, <2>7, <2>8
<1> HIDE DEF Plus1
<1>4. t \in Summed(a, b) <=> (\E r \in a : t = Plus1(r)) \/ (t \in b /\ Twin(t, a) = {})
  BY <1>1
<1>5. Twin(t, a) = {} <=> \A r \in a : ~Alike(t, r)
  OBVIOUS
<1>6. (\E r \in a : t = Plus1(r)) <=>
        \/ \E r \in a, s \in b : Alike(r, s) /\ t = Range1(r.from, r.to, r.count + s.count)
        \/ t \in a /\ \A s \in b : ~Alike(t, s)
  BY <1>2, <1>3
<1> QED BY <1>4, <1>5, <1>6

LEMMA SummedRanged ==
  ASSUME NEW p, NEW a, NEW b, Ranged(p, a), Ranged(p, b)
  PROVE  /\ Ranged(p, Summed(a, b))
         /\ \A r \in a \cup b : \E t \in Summed(a, b) : Alike(r, t)
<1>1. \A u, v, w : Range1(u, v, w).from = u /\ Range1(u, v, w).to = v /\ Range1(u, v, w).count = w
  BY DEF Range1
<1>2. \A S : Ranged(p, S) => \A r \in S : /\ InText(p, r) /\ r.count \in Nat /\ r = Range1(r.from, r.to, r.count)
                                          /\ \A s \in S : Alike(r, s) => r = s
  BY DEF Ranged
<1>3. ASSUME NEW r, NEW s, Alike(r, s), InText(p, r) PROVE InText(p, s)
  BY <1>3 DEF Alike, InText, NodeRange, GapRange
<1> DEFINE Sum(t) == \E r \in a, s \in b : Alike(r, s) /\ t = Range1(r.from, r.to, r.count + s.count)
           FromA(t) == t \in a /\ \A s \in b : ~Alike(t, s)
           FromB(t) == t \in b /\ \A r \in a : ~Alike(t, r)
<1>4. \A t : t \in Summed(a, b) <=> Sum(t) \/ FromA(t) \/ FromB(t)
  BY SummedFacts
<1>5. ASSUME NEW t, Sum(t)
      PROVE  /\ InText(p, t) /\ t.count \in Nat /\ t = Range1(t.from, t.to, t.count)
             /\ (\E r \in a : Alike(r, t)) /\ (\E s \in b : Alike(s, t))
             /\ \A v : Sum(v) /\ Alike(t, v) => t = v
  <2>1. PICK r \in a, s \in b : Alike(r, s) /\ t = Range1(r.from, r.to, r.count + s.count)
    BY <1>5
  <2>2. t.from = r.from /\ t.to = r.to /\ t.count = r.count + s.count
    BY <1>1, <2>1
  <2>3. Alike(r, t) /\ Alike(s, t)
    BY <2>1, <2>2 DEF Alike
  <2>4. InText(p, r) /\ r.count \in Nat /\ s.count \in Nat
    BY <1>2
  <2>5. InText(p, t) /\ t.count \in Nat /\ t = Range1(t.from, t.to, t.count)
    BY <1>3, <2>1, <2>2, <2>3, <2>4
  <2>6. ASSUME NEW v, Sum(v), Alike(t, v) PROVE t = v
    <3>1. PICK q \in a, w \in b : Alike(q, w) /\ v = Range1(q.from, q.to, q.count + w.count)
      BY <2>6
    <3>2. Alike(r, q) /\ Alike(s, w)
      BY <1>1, <2>1, <2>2, <2>6, <3>1 DEF Alike
    <3>3. r = q /\ s = w
      BY <1>2, <3>2
    <3> QED BY <2>1, <3>1, <3>3
  <2> HIDE DEF Sum
  <2> QED BY <2>3, <2>5, <2>6
<1> HIDE DEF Sum
<1>6. ASSUME NEW t, FromA(t) \/ FromB(t)
      PROVE  /\ InText(p, t) /\ t.count \in Nat /\ t = Range1(t.from, t.to, t.count)
             /\ \A v : FromA(v) \/ FromB(v) => (Alike(t, v) => t = v)
             /\ \A v : Sum(v) => ~Alike(t, v)
  <2>1. InText(p, t) /\ t.count \in Nat /\ t = Range1(t.from, t.to, t.count)
    BY <1>2, <1>6
  <2>2. ASSUME NEW v, FromA(v) \/ FromB(v), Alike(t, v) PROVE t = v
    <3>1. Alike(v, t)
      BY <2>2 DEF Alike
    <3> QED BY <1>2, <1>6, <2>2, <3>1
  <2>3. ASSUME NEW v, Sum(v), Alike(t, v) PROVE FALSE
    <3>1. PICK r \in a : Alike(r, v)
      BY <1>5, <2>3
    <3>2. PICK s \in b : Alike(s, v)
      BY <1>5, <2>3
    <3>3. Alike(t, r) /\ Alike(t, s)
      BY <2>3, <3>1, <3>2 DEF Alike
    <3> QED BY <1>6, <3>3
  <2> HIDE DEF FromA, FromB
  <2> QED BY <2>1, <2>2, <2>3
<1>7. ASSUME NEW r \in a PROVE \E t \in Summed(a, b) : Alike(r, t)
  <2>1. CASE \E s \in b : Alike(r, s)
    <3>1. PICK s \in b : Alike(r, s)
      BY <2>1
    <3> DEFINE t == Range1(r.from, r.to, r.count + s.count)
    <3>2. Sum(t) /\ Alike(r, t)
      BY <1>1, <3>1 DEF Sum, Alike
    <3> HIDE DEF t
    <3> QED BY <1>4, <3>2
  <2>2. CASE \A s \in b : ~Alike(r, s)
    <3>1. FromA(r) /\ Alike(r, r)
      BY <2>2 DEF Alike
    <3> QED BY <1>4, <3>1
  <2> QED BY <2>1, <2>2
<1>8. ASSUME NEW s \in b PROVE \E t \in Summed(a, b) : Alike(s, t)
  <2>1. CASE \E r \in a : Alike(r, s)
    <3>1. PICK r \in a : Alike(r, s)
      BY <2>1
    <3> DEFINE t == Range1(r.from, r.to, r.count + s.count)
    <3>2. Sum(t) /\ Alike(s, t)
      BY <1>1, <3>1 DEF Sum, Alike
    <3> HIDE DEF t
    <3> QED BY <1>4, <3>2
  <2>2. CASE \A r \in a : ~Alike(r, s)
    <3>1. FromB(s) /\ Alike(s, s)
      BY <2>2 DEF Alike
    <3> QED BY <1>4, <3>1
  <2> QED BY <2>1, <2>2
<1> HIDE DEF FromA, FromB
<1>9. ASSUME NEW t, NEW v, t \in Summed(a, b), v \in Summed(a, b), Alike(t, v) PROVE t = v
  <2>1. Alike(v, t)
    BY <1>9 DEF Alike
  <2> QED BY <1>4, <1>5, <1>6, <1>9, <2>1
<1>10. \A t \in Summed(a, b) : InText(p, t) /\ t.count \in Nat /\ t = Range1(t.from, t.to, t.count)
  BY <1>4, <1>5, <1>6
<1>11. Ranged(p, Summed(a, b))
  BY <1>9, <1>10 DEF Ranged
<1> QED BY <1>7, <1>8, <1>11

(* A merged dump.                                                          *)
Spanned(p, cov) == DOMAIN cov \subseteq DOMAIN p /\ \A f \in DOMAIN cov : Ranged(p, cov[f])
Merger(p, a, b, m) ==
  /\ DOMAIN m = DOMAIN a \cup DOMAIN b /\ Spanned(p, m)
  /\ \A f \in DOMAIN a : \A r \in a[f] : \E t \in m[f] : Alike(r, t)
  /\ \A f \in DOMAIN b : \A r \in b[f] : \E t \in m[f] : Alike(r, t)
  /\ \A f \in DOMAIN m : \A t \in m[f] :
       \/ f \in DOMAIN a /\ t \in a[f]
       \/ f \in DOMAIN b /\ t \in b[f]
       \/ /\ f \in DOMAIN a \cap DOMAIN b
          /\ \E r \in a[f], s \in b[f] : Alike(r, s) /\ t = Range1(r.from, r.to, r.count + s.count)
LEMMA MergeFacts ==
  ASSUME NEW p, NEW a, NEW b, Spanned(p, a), Spanned(p, b)
  PROVE  Merger(p, a, b, MergeScriptCoverages(a, b))
<1> DEFINE m == MergeScriptCoverages(a, b)
<1>1. DOMAIN m = DOMAIN a \cup DOMAIN b
  BY DEF MergeScriptCoverages
<1>2. \A f \in DOMAIN m : /\ f \notin DOMAIN a => m[f] = b[f]
                          /\ f \notin DOMAIN b => m[f] = a[f]
                          /\ f \in DOMAIN a \cap DOMAIN b => m[f] = Summed(a[f], b[f])
  BY DEF MergeScriptCoverages
<1> HIDE DEF m
<1>3. \A f \in DOMAIN a : Ranged(p, a[f])
  BY DEF Spanned
<1>4. \A f \in DOMAIN b : Ranged(p, b[f])
  BY DEF Spanned
<1>5. \A f \in DOMAIN m : Ranged(p, m[f])
  BY <1>1, <1>2, <1>3, <1>4, SummedRanged
<1>6. Spanned(p, m)
  BY <1>1, <1>5 DEF Spanned
<1>7. \A r : Alike(r, r)
  BY DEF Alike
<1>8. ASSUME NEW f \in DOMAIN a, NEW r \in a[f] PROVE \E t \in m[f] : Alike(r, t)
  <2>1. CASE f \in DOMAIN b
    <3>1. \E t \in Summed(a[f], b[f]) : Alike(r, t)
      BY <1>3, <1>4, <2>1, SummedRanged
    <3> QED BY <1>1, <1>2, <2>1, <3>1
  <2>2. CASE f \notin DOMAIN b
    BY <1>1, <1>2, <1>7, <2>2
  <2> QED BY <2>1, <2>2
<1>9. ASSUME NEW f \in DOMAIN b, NEW r \in b[f] PROVE \E t \in m[f] : Alike(r, t)
  <2>1. CASE f \in DOMAIN a
    <3>1. \E t \in Summed(a[f], b[f]) : Alike(r, t)
      BY <1>3, <1>4, <2>1, SummedRanged
    <3> QED BY <1>1, <1>2, <2>1, <3>1
  <2>2. CASE f \notin DOMAIN a
    BY <1>1, <1>2, <1>7, <2>2
  <2> QED BY <2>1, <2>2
<1>10. ASSUME NEW f \in DOMAIN m, NEW t \in m[f]
       PROVE  \/ f \in DOMAIN a /\ t \in a[f]
              \/ f \in DOMAIN b /\ t \in b[f]
              \/ /\ f \in DOMAIN a \cap DOMAIN b
                 /\ \E r \in a[f], s \in b[f] : Alike(r, s) /\ t = Range1(r.from, r.to, r.count + s.count)
  <2>1. CASE f \in DOMAIN a \cap DOMAIN b
    <3>1. t \in Summed(a[f], b[f]) /\ Ranged(p, a[f]) /\ Ranged(p, b[f])
      BY <1>2, <1>3, <1>4, <2>1
    <3> QED BY <2>1, <3>1, SummedFacts
  <2> QED BY <1>1, <1>2, <2>1
<1>11. Merger(p, a, b, m)
  BY <1>1, <1>6, <1>8, <1>9, <1>10 DEF Merger
<1> QED BY <1>11 DEF m

(* What a merged dump answers is what one of the two answers, or the sum.  *)
LEMMA MergeAnswers ==
  ASSUME NEW p, NEW a, NEW b, Spanned(p, a), Spanned(p, b), NEW arm, NEW f, NEW t,
         Answers(MergeScriptCoverages(a, b), arm, f, t)
  PROVE  \/ Answers(a, arm, f, t)
         \/ Answers(b, arm, f, t)
         \/ \E r, s : Answers(a, arm, f, r) /\ Answers(b, arm, f, s) /\ t.count = r.count + s.count
<1> DEFINE m == MergeScriptCoverages(a, b)
<1>2. /\ f \in DOMAIN m /\ t \in m[f] /\ Fits(arm, t)
      /\ \A g \in DOMAIN m : \A s \in m[g] : Fits(arm, s) => ~Ahead(arm, g, s, f, t)
  BY DEF Answers
<1>0. Merger(p, a, b, m)
  BY MergeFacts
<1> HIDE DEF m
<1>1. /\ DOMAIN m = DOMAIN a \cup DOMAIN b
      /\ \A g \in DOMAIN a : \A r \in a[g] : \E v \in m[g] : Alike(r, v)
      /\ \A g \in DOMAIN b : \A r \in b[g] : \E v \in m[g] : Alike(r, v)
      /\ \A g \in DOMAIN m : \A v \in m[g] :
           \/ g \in DOMAIN a /\ v \in a[g]
           \/ g \in DOMAIN b /\ v \in b[g]
           \/ /\ g \in DOMAIN a \cap DOMAIN b
              /\ \E r \in a[g], s \in b[g] : Alike(r, s) /\ v = Range1(r.from, r.to, r.count + s.count)
  BY <1>0 DEF Merger
<1>3. ASSUME NEW r, NEW s, Alike(r, s)
      PROVE  /\ Fits(arm, r) <=> Fits(arm, s)
             /\ \A g, v, h : /\ Ahead(arm, g, v, h, r) <=> Ahead(arm, g, v, h, s)
                             /\ Ahead(arm, g, r, h, v) <=> Ahead(arm, g, s, h, v)
  <2>1. (Fits(arm, r) <=> Fits(arm, s)) /\ (Same(arm, r) <=> Same(arm, s)) /\ Size(r) = Size(s)
    BY <1>3 DEF Alike, Fits, Same, Size
  <2>2. \A g, v, h : Ahead(arm, g, v, h, r) <=> Ahead(arm, g, v, h, s)
    BY <2>1 DEF Ahead
  <2>3. \A g, v, h : Ahead(arm, g, r, h, v) <=> Ahead(arm, g, s, h, v)
    BY <2>1 DEF Ahead
  <2> QED BY <2>1, <2>2, <2>3
<1>4. ASSUME NEW c, DOMAIN c \subseteq DOMAIN m, \A g \in DOMAIN c : \A r \in c[g] : \E v \in m[g] : Alike(r, v),
             NEW r, f \in DOMAIN c, r \in c[f], Alike(r, t)
      PROVE  Answers(c, arm, f, r)
  <2>1. Fits(arm, r)
    BY <1>2, <1>3, <1>4
  <2>2. ASSUME NEW g \in DOMAIN c, NEW s \in c[g], Fits(arm, s) PROVE ~Ahead(arm, g, s, f, r)
    <3>1. PICK v \in m[g] : Alike(s, v)
      BY <1>4
    <3>2. Fits(arm, v) /\ g \in DOMAIN m
      BY <1>3, <1>4, <2>2, <3>1
    <3>3. ~Ahead(arm, g, v, f, t)
      BY <1>2, <3>2
    <3>4. ~Ahead(arm, g, s, f, t)
      BY <1>3, <3>1, <3>3
    <3> QED BY <1>3, <1>4, <3>4
  <2> QED BY <1>4, <2>1, <2>2 DEF Answers
<1>5. \A r : Alike(r, r)
  BY DEF Alike
<1>6. DOMAIN a \subseteq DOMAIN m /\ DOMAIN b \subseteq DOMAIN m
  BY <1>1
<1>7. CASE f \in DOMAIN a /\ t \in a[f]
  BY <1>1, <1>4, <1>5, <1>6, <1>7
<1>8. CASE f \in DOMAIN b /\ t \in b[f]
  BY <1>1, <1>4, <1>5, <1>6, <1>8
<1>9. CASE /\ f \in DOMAIN a \cap DOMAIN b
           /\ \E r \in a[f], s \in b[f] : Alike(r, s) /\ t = Range1(r.from, r.to, r.count + s.count)
  <2>1. PICK r \in a[f], s \in b[f] : Alike(r, s) /\ t = Range1(r.from, r.to, r.count + s.count)
    BY <1>9
  <2>2. t.from = r.from /\ t.to = r.to /\ t.count = r.count + s.count
    BY <2>1 DEF Range1
  <2>3. Alike(r, t) /\ Alike(s, t)
    BY <2>1, <2>2 DEF Alike
  <2>4. Answers(a, arm, f, r)
    BY <1>1, <1>4, <1>6, <1>9, <2>3
  <2>5. Answers(b, arm, f, s)
    BY <1>1, <1>4, <1>6, <1>9, <2>3
  <2> QED BY <2>2, <2>4, <2>5
<1> QED BY <1>1, <1>2, <1>7, <1>8, <1>9

-----------------------------------------------------------------------------
(* What the join finds in a dump is what the order of its ranges answers.  *)
LEMMA SmallestFacts ==
  ASSUME NEW p, Tree(p), Grammar(p), Shape(p), NEW cov, Spanned(p, cov), NEW S \in SUBSET AllOf(cov), S # {}
  PROVE  Smallest(cov, S) \in S /\ \A s \in S : ~(Size(s) < Size(Smallest(cov, S)))
<1>1. \A r \in AllOf(cov) : r.from \in Nat /\ r.to \in Nat /\ r.from < r.to
  BY RangeTyped DEF AllOf, Spanned, Ranged
<1>2. \A r \in S : Size(r) \in Nat /\ Size(r) = r.to - r.from
  BY <1>1 DEF Size
<1> DEFINE least == {r \in S : \A s \in S : r.to - r.from <= s.to - s.from}
<1>3. least # {}
  <2> DEFINE sizes == {Size(r) : r \in S}
  <2>1. sizes \in SUBSET Nat /\ sizes # {}
    BY <1>2
  <2> HIDE DEF sizes
  <2>2. PICK m \in sizes : \A k \in sizes : m <= k
    BY <2>1, LeastNatural
  <2>3. PICK r \in S : m = Size(r)
    BY DEF sizes
  <2>4. \A s \in S : Size(s) \in sizes
    BY DEF sizes
  <2>5. r \in least
    BY <1>2, <2>2, <2>3, <2>4
  <2> QED BY <2>5
<1>4. \A r \in least : Owner(cov, r) \in Nat
  <2> SUFFICES ASSUME NEW r \in least PROVE Owner(cov, r) \in Nat
    OBVIOUS
  <2> DEFINE F == {f \in DOMAIN cov : r \in cov[f]}
  <2>1. F \subseteq DOMAIN p
    BY DEF Spanned
  <2>2. F \in SUBSET Nat /\ IsFiniteSet(F)
    BY <2>1, SomeNodes
  <2>3. F # {}
    BY DEF AllOf
  <2>4. Owner(cov, r) = Min(F)
    BY DEF Owner
  <2> HIDE DEF F
  <2>5. Min(F) \in F
    BY <2>2, <2>3, MinFacts
  <2> QED BY <2>2, <2>4, <2>5
<1> HIDE DEF least
<1>5. \E r \in least : \A s \in least : Owner(cov, r) <= Owner(cov, s)
  <2> DEFINE owners == {Owner(cov, r) : r \in least}
  <2>1. owners \in SUBSET Nat /\ owners # {}
    BY <1>3, <1>4
  <2> HIDE DEF owners
  <2>2. PICK m \in owners : \A k \in owners : m <= k
    BY <2>1, LeastNatural
  <2>3. PICK r \in least : m = Owner(cov, r)
    BY DEF owners
  <2>4. \A s \in least : Owner(cov, s) \in owners
    BY DEF owners
  <2> QED BY <2>2, <2>3, <2>4
<1>6. Smallest(cov, S) = CHOOSE r \in least : \A s \in least : Owner(cov, r) <= Owner(cov, s)
  BY DEF Smallest, least
<1>7. Smallest(cov, S) \in least
  BY <1>5, <1>6
<1>8. \A r \in least : r \in S /\ \A s \in S : ~(Size(s) < Size(r))
  BY <1>2 DEF least
<1> QED BY <1>7, <1>8

Found(cov, arm) == IF arm.point THEN FindContinuationRange(AllOf(cov), arm.from) ELSE FindRange(cov, arm)
LEMMA FoundFacts ==
  ASSUME NEW p, Tree(p), Grammar(p), Shape(p), NEW cov, Spanned(p, cov), NEW arm
  PROVE  /\ Found(cov, arm) \subseteq AllOf(cov)
         /\ Found(cov, arm) = {} => \A r \in AllOf(cov) : ~Fits(arm, r)
         /\ \A r \in Found(cov, arm) :
              /\ \A s \in Found(cov, arm) : ~(Size(s) < Size(r))
              => \E f : Answers(cov, arm, f, r)
<1>1. \A r \in AllOf(cov) : r.from \in Nat /\ r.to \in Nat /\ r.from < r.to
  BY RangeTyped DEF AllOf, Spanned, Ranged
<1>2. \A r : r \in AllOf(cov) <=> \E f \in DOMAIN cov : r \in cov[f]
  BY DEF AllOf
<1> DEFINE S == AllOf(cov)
           Smaller(r, s) == Size(s) < Size(r)
<1>3. CASE arm.point /\ \E r \in S : Same(arm, r)
  <2>1. \A r : Same(arm, r) <=> r.from = arm.from
    BY <1>3 DEF Same
  <2>2. Found(cov, arm) = {r \in S : r.from = arm.from}
    BY <1>3, <2>1 DEF Found, FindContinuationRange
  <2>3. \A r : Fits(arm, r) <=> r.from <= arm.from /\ r.to > arm.from
    BY <1>3 DEF Fits
  <2>4. \A r \in Found(cov, arm) : Fits(arm, r)
    BY <1>1, <2>2, <2>3
  <2>5. ASSUME NEW r \in Found(cov, arm), \A s \in Found(cov, arm) : ~Smaller(r, s)
        PROVE  \E f : Answers(cov, arm, f, r)
    <3>1. PICK f \in DOMAIN cov : r \in cov[f]
      BY <1>2, <2>2
    <3>2. ASSUME NEW g \in DOMAIN cov, NEW s \in cov[g] PROVE ~Ahead(arm, g, s, f, r)
      <4>1. s \in S
        BY <1>2
      <4>2. Same(arm, r) /\ (Same(arm, s) => ~Smaller(r, s))
        BY <2>1, <2>2, <2>5, <4>1
      <4> QED BY <1>3, <4>2 DEF Ahead
    <3> QED BY <2>4, <3>1, <3>2 DEF Answers
  <2> HIDE DEF Smaller
  <2>6. Found(cov, arm) # {} /\ Found(cov, arm) \subseteq S
    BY <1>3, <2>1, <2>2
  <2> QED BY <2>5, <2>6 DEF Smaller
<1>4. CASE ~arm.point /\ \E r \in S : Same(arm, r)
  <2>1. \A r : Same(arm, r) <=> r.from = arm.from /\ r.to = arm.to
    BY <1>4 DEF Same
  <2>2. \A r : Fits(arm, r) <=> r.from <= arm.from /\ r.to >= arm.to
    BY <1>4 DEF Fits
  <2> DEFINE having == {f \in DOMAIN cov : ExactOf(cov[f], arm.from, arm.to) # {}}
             F == Max(having)
  <2>3. \A f : \A r : r \in ExactOf(cov[f], arm.from, arm.to) <=> r \in cov[f] /\ Same(arm, r)
    BY <2>1 DEF ExactOf
  <2>4. having # {}
    BY <1>2, <1>4, <2>3
  <2>5. having \subseteq DOMAIN p
    BY DEF Spanned
  <2>6. \A g : g \in having <=> g \in DOMAIN cov /\ \E r \in cov[g] : Same(arm, r)
    BY <2>3
  <2>7. Found(cov, arm) = ExactOf(cov[F], arm.from, arm.to)
    BY <1>4, <2>4 DEF Found, FindRange
  <2> HIDE DEF having
  <2>8. having \in SUBSET Nat /\ IsFiniteSet(having)
    BY <2>5, SomeNodes
  <2>9. F \in having /\ \A g \in having : g <= F
    BY <2>4, <2>8, MaxFacts
  <2> HIDE DEF F
  <2>10. \A r : r \in Found(cov, arm) <=> r \in cov[F] /\ Same(arm, r)
    BY <2>3, <2>7
  <2>11. Found(cov, arm) # {} /\ Found(cov, arm) \subseteq S
    BY <1>2, <2>6, <2>9, <2>10
  <2>12. ASSUME NEW r \in Found(cov, arm) PROVE Answers(cov, arm, F, r)
    <3>1. F \in DOMAIN cov /\ r \in cov[F] /\ Same(arm, r)
      BY <2>6, <2>9, <2>10
    <3>2. Fits(arm, r)
      BY <1>1, <1>2, <2>1, <2>2, <3>1
    <3>3. ASSUME NEW g \in DOMAIN cov, NEW s \in cov[g] PROVE ~Ahead(arm, g, s, F, r)
      <4>1. Same(arm, s) => g \in having
        BY <2>6
      <4>2. Same(arm, s) => ~(g > F)
        <5> SUFFICES ASSUME Same(arm, s) PROVE ~(g > F)
          OBVIOUS
        <5>1. g \in having /\ F \in having /\ g <= F
          BY <2>9, <4>1
        <5>2. g \in Nat /\ F \in Nat
          BY <2>8, <5>1
        <5> QED BY <5>1, <5>2
      <4> QED BY <1>4, <3>1, <4>2 DEF Ahead
    <3> QED BY <3>1, <3>2, <3>3 DEF Answers
  <2> QED BY <2>11, <2>12
<1>5. CASE ~\E r \in S : Same(arm, r)
  <2>1. \A r : r \in Found(cov, arm) <=> r \in S /\ Fits(arm, r)
    <3>1. CASE arm.point
      <4>1. {r \in S : r.from = arm.from} = {}
        BY <1>5, <3>1 DEF Same
      <4> QED BY <3>1, <4>1 DEF Found, FindContinuationRange, Fits
    <3>2. CASE ~arm.point
      <4>1. {f \in DOMAIN cov : ExactOf(cov[f], arm.from, arm.to) # {}} = {}
        BY <1>2, <1>5, <3>2 DEF Same, ExactOf
      <4>2. Found(cov, arm) = {r \in S : r.from <= arm.from /\ r.to >= arm.to}
        BY <3>2, <4>1 DEF Found, FindRange
      <4> QED BY <3>2, <4>2 DEF Fits
    <3> QED BY <3>1, <3>2
  <2>2. ASSUME NEW r \in Found(cov, arm), \A s \in Found(cov, arm) : ~Smaller(r, s)
        PROVE  \E f : Answers(cov, arm, f, r)
    <3>1. PICK f \in DOMAIN cov : r \in cov[f]
      BY <1>2, <2>1
    <3>2. ASSUME NEW g \in DOMAIN cov, NEW s \in cov[g], Fits(arm, s) PROVE ~Ahead(arm, g, s, f, r)
      <4>1. s \in S /\ r \in S
        BY <1>2, <2>1
      <4>2. ~Same(arm, r) /\ ~Same(arm, s) /\ ~Smaller(r, s)
        BY <1>5, <2>1, <2>2, <3>2, <4>1
      <4> QED BY <4>2 DEF Ahead
    <3> QED BY <2>1, <3>1, <3>2 DEF Answers
  <2> HIDE DEF Smaller
  <2>3. Found(cov, arm) \subseteq S /\ (Found(cov, arm) = {} => \A r \in S : ~Fits(arm, r))
    BY <2>1
  <2> QED BY <2>2, <2>3 DEF Smaller
<1> QED BY <1>3, <1>4, <1>5

LEMMA JoinAnswers ==
  ASSUME NEW p, Tree(p), Grammar(p), Shape(p), NEW cov, Spanned(p, cov), NEW arm,
         NEW hits, hits = Joined(cov, arm).hitcount
  PROVE  \/ \E f, r : Answers(cov, arm, f, r) /\ hits = r.count
         \/ hits = 0 /\ \A f \in DOMAIN cov : \A r \in cov[f] : ~Fits(arm, r)
<1> DEFINE S == Found(cov, arm)
<1>1. hits = IF S = {} THEN 0 ELSE Smallest(cov, S).count
  BY DEF Joined, Found
<1>2. S \subseteq AllOf(cov) /\ (S = {} => \A r \in AllOf(cov) : ~Fits(arm, r))
  BY FoundFacts
<1>3. \A r \in S : (\A s \in S : ~(Size(s) < Size(r))) => \E f : Answers(cov, arm, f, r)
  BY FoundFacts
<1> HIDE DEF S
<1>4. CASE S = {}
  BY <1>1, <1>2, <1>4 DEF AllOf
<1>5. CASE S # {}
  <2>1. Smallest(cov, S) \in S /\ \A s \in S : ~(Size(s) < Size(Smallest(cov, S)))
    BY <1>2, <1>5, SmallestFacts
  <2> QED BY <1>1, <1>3, <1>5, <2>1
<1> QED BY <1>4, <1>5

-----------------------------------------------------------------------------
(* The dumps of a run are merged from the first to the last.               *)
Folded(base, dump) == FoldLeft(MergeScriptCoverages, base, dump)
Built(h, base, dump) == h[0] = base /\ \A k \in 1..Len(dump) : h[k] = MergeScriptCoverages(h[k - 1], dump[k])

FoldsUp(f, base, dump, S) ==
  \A T \in SUBSET S :
    f[T] = IF T = {} THEN base ELSE MergeScriptCoverages(f[T \ {Max(T)}], dump[Max(T)])

(* The fold, clause by clause.                                             *)
LEMMA FoldDefined ==
  ASSUME NEW base, NEW dump, NEW S, S = DOMAIN dump, S \in SUBSET Nat, IsFiniteSet(S)
  PROVE  \E f : Folded(base, dump) = f[S] /\ FoldsUp(f, base, dump, S)
<1> DEFINE Last1(T) == Max(T)
           Body(g, T) == IF T = {} THEN base ELSE MergeScriptCoverages(g[T \ {Last1(T)}], dump[Last1(T)])
           UpTo(n) == {T \in SUBSET S : Cardinality(T) <= n}
           f == CHOOSE g : g = [T \in SUBSET S |-> Body(g, T)]
           Defined == {n \in Nat : \E g : g = [T \in UpTo(n) |-> Body(g, T)]}
<1>1. Folded(base, dump) = f[S]
  BY DEF Folded, FoldLeft, MapThenFoldSet
<1>2. \A T \in SUBSET S : IsFiniteSet(T) /\ Cardinality(T) \in Nat /\ T \in SUBSET Nat
  BY FS_Subset, FS_CardinalityType
<1>3. \A T \in SUBSET S : T # {} =>
        Last1(T) \in T /\ T \ {Last1(T)} \in SUBSET S
        /\ Cardinality(T \ {Last1(T)}) = Cardinality(T) - 1
  <2>1. \A T \in SUBSET S : T # {} => Last1(T) \in T
    BY <1>2, MaxFacts
  <2> HIDE DEF Last1
  <2> QED BY <1>2, <2>1, FS_RemoveElement
<1>4. \A T \in SUBSET S : Cardinality(T) = 0 => T = {}
  BY <1>2, FS_EmptySet
<1> HIDE DEF Last1
<1>5. 0 \in Defined
  <2>1. \A T \in UpTo(0) : T = {}
    BY <1>2, <1>4
  <2>2. [T \in UpTo(0) |-> base] = [T \in UpTo(0) |-> Body([U \in UpTo(0) |-> base], T)]
    BY <2>1
  <2> HIDE DEF UpTo, Body
  <2> QED BY <2>2
<1>6. ASSUME NEW n \in Nat, n \in Defined PROVE n + 1 \in Defined
  <2>1. PICK g : g = [T \in UpTo(n) |-> Body(g, T)]
    BY <1>6
  <2> DEFINE h == [T \in UpTo(n + 1) |-> IF T \in UpTo(n) THEN g[T] ELSE Body(g, T)]
  <2>2. \A T \in UpTo(n + 1) : h[T] = Body(h, T)
    <3>1. \A T \in UpTo(n) : h[T] = g[T]
      BY <1>2
    <3>2. \A T \in UpTo(n + 1) : T # {} => T \ {Last1(T)} \in UpTo(n)
      BY <1>2, <1>3
    <3>3. \A T \in UpTo(n + 1) : Body(h, T) = Body(g, T)
      <4> HIDE DEF h, UpTo
      <4> QED BY <3>1, <3>2
    <3> HIDE DEF Body
    <3>4. \A T \in UpTo(n) : g[T] = Body(g, T)
      <4> HIDE DEF UpTo
      <4> QED BY <2>1, Zenon
    <3>5. \A T \in UpTo(n + 1) : h[T] = Body(g, T)
      <4> HIDE DEF UpTo
      <4> QED BY <3>4
    <3> QED BY <3>3, <3>5
  <2> HIDE DEF h, Body, UpTo
  <2>3. h = [T \in UpTo(n + 1) |-> h[T]]
    BY DEF h
  <2>4. h = [T \in UpTo(n + 1) |-> Body(h, T)]
    BY <2>2, <2>3
  <2> QED BY <2>4
<1>7. Cardinality(S) \in Defined
  <2> HIDE DEF Defined
  <2>1. Nat \subseteq Defined
    BY <1>5, <1>6, Induction
  <2> QED BY <1>2, <2>1
<1>8. UpTo(Cardinality(S)) = SUBSET S
  BY FS_Subset
<1> HIDE DEF Body
<1>9. \E g : g = [T \in SUBSET S |-> Body(g, T)]
  BY <1>7, <1>8
<1>10. f = [T \in SUBSET S |-> Body(f, T)]
  BY <1>9
<1> HIDE DEF f
<1>11. \A T \in SUBSET S : f[T] = Body(f, T)
  BY <1>10, Zenon
<1> QED BY <1>1, <1>11 DEF Body, Last1, FoldsUp

(* Whatever is built from the dumps one by one is the fold.                *)
LEMMA FoldFacts ==
  ASSUME NEW base, NEW S, NEW dump \in Seq(S), NEW h, Built(h, base, dump)
  PROVE  Folded(base, dump) = h[Len(dump)]
<1> DEFINE n == Len(dump)
           To1(k) == 1..k
<1>1. n \in Nat /\ DOMAIN dump = To1(n) /\ IsFiniteSet(To1(n)) /\ To1(n) \in SUBSET Nat
  BY LenProperties, FS_Interval
<1>2. PICK f : Folded(base, dump) = f[To1(n)] /\ FoldsUp(f, base, dump, To1(n))
  BY <1>1, FoldDefined
<1>3. h[0] = base /\ \A k \in 1..n : h[k] = MergeScriptCoverages(h[k - 1], dump[k])
  BY DEF Built
<1> HIDE DEF n
<1> DEFINE Good == {k \in Nat : k <= n => f[To1(k)] = h[k]}
<1>4. 0 \in Good
  <2>1. To1(0) = {} /\ To1(0) \in SUBSET To1(n)
    OBVIOUS
  <2> HIDE DEF To1
  <2> QED BY <1>2, <1>3, <2>1 DEF FoldsUp
<1>5. ASSUME NEW k \in Nat, k \in Good PROVE k + 1 \in Good
  <2> SUFFICES ASSUME k + 1 <= n PROVE f[To1(k + 1)] = h[k + 1]
    OBVIOUS
  <2>1. To1(k + 1) \in SUBSET To1(n) /\ To1(k + 1) # {} /\ To1(k + 1) \ {k + 1} = To1(k)
    <3>1. n \in Nat
      BY <1>1
    <3>2. To1(k + 1) \in SUBSET To1(n)
      BY <3>1
    <3>3. k + 1 \in To1(k + 1)
      OBVIOUS
    <3>4. To1(k + 1) \ {k + 1} = To1(k)
      OBVIOUS
    <3> HIDE DEF To1
    <3> QED BY <3>2, <3>3, <3>4
  <2>2. Max(To1(k + 1)) = k + 1
    <3>1. IsFiniteSet(To1(k + 1)) /\ To1(k + 1) \in SUBSET Nat
      BY FS_Interval
    <3>2. k + 1 \in To1(k + 1) /\ \A y \in To1(k + 1) : y <= k + 1
      OBVIOUS
    <3> HIDE DEF To1
    <3>3. Max(To1(k + 1)) \in To1(k + 1) /\ k + 1 <= Max(To1(k + 1)) /\ Max(To1(k + 1)) \in Nat
      BY <2>1, <3>1, <3>2, MaxFacts
    <3> QED BY <3>2, <3>3
  <2>3. f[To1(k)] = h[k]
    BY <1>1, <1>5
  <2>4. k + 1 \in 1..n /\ (k + 1) - 1 = k
    BY <1>1
  <2> HIDE DEF To1
  <2>5. f[To1(k + 1)] = MergeScriptCoverages(f[To1(k + 1) \ {Max(To1(k + 1))}], dump[Max(To1(k + 1))])
    BY <1>2, <2>1 DEF FoldsUp
  <2>6. f[To1(k + 1)] = MergeScriptCoverages(f[To1(k)], dump[k + 1])
    BY <2>1, <2>2, <2>5
  <2>7. h[k + 1] = MergeScriptCoverages(h[(k + 1) - 1], dump[k + 1])
    BY <1>3, <2>4
  <2> QED BY <2>3, <2>4, <2>6, <2>7
<1> HIDE DEF Good
<1>6. n \in Good
  BY <1>1, <1>4, <1>5, Induction
<1>7. n <= n
  BY <1>1
<1> QED BY <1>1, <1>2, <1>6, <1>7 DEF Good, n

-----------------------------------------------------------------------------
(* What a dump, or a merge of several, tells of every arm: never more than *)
(* run, and just run if it is the only one.                                *)
Tells1(m, arm, run, lone) ==
  /\ \A f, r : Answers(m, arm, f, r) => r.count <= TrueOf(run, arm) /\ (lone => r.count = TrueOf(run, arm))
  /\ lone => \E f \in DOMAIN m : \E r \in m[f] : Fits(arm, r)
Tally(p, m, run, lone) ==
  /\ Spanned(p, m)
  /\ \A arm \in AllArms(p) : ToldOf(p, arm) => Tells1(m, arm, run, lone)

LEMMA RangesRanged ==
  ASSUME NEW p, Tree(p), Grammar(p), Shape(p), NEW run, \A k \in DOMAIN p : Follows(p, run, k), NEW f
  PROVE  Ranged(p, Ranges(p, run, f))
<1> DEFINE S == AllRanges(p, run, f)
<1>1. ASSUME NEW r \in S PROVE InText(p, r) /\ r.count \in Nat /\ r = Range1(r.from, r.to, r.count)
  <2>1. InText(p, r) /\ r.count \in Nat
    BY RangeInText, CountTyped
  <2>2. \E x, y, z : r = Range1(x, y, z)
    BY RangeCases
  <2>3. PICK x, y, z : r = Range1(x, y, z)
    BY <2>2
  <2>4. r = Range1(r.from, r.to, r.count)
    BY <2>3 DEF Range1
  <2> QED BY <2>1, <2>4
<1>2. ASSUME NEW r \in S, NEW s \in S, Alike(r, s) PROVE r = s
  BY <1>2, RangesDiffer DEF Alike
<1>3. Ranges(p, run, f) \subseteq S
  BY RangesDefined
<1> HIDE DEF S
<1> QED BY <1>1, <1>2, <1>3 DEF Ranged

LEMMA TallyOne ==
  ASSUME NEW p, Tree(p), Grammar(p), Shape(p), NEW run, \A k \in DOMAIN p : Follows(p, run, k),
         NEW D, Known(p, run, D), \A arm \in AllArms(p) : TrueOf(run, arm) \in Nat
  PROVE  Tally(p, [g \in D |-> Ranges(p, run, g)], run, TRUE)
<1> DEFINE m == [g \in D |-> Ranges(p, run, g)]
<1>1. DOMAIN m = D /\ \A f \in D : m[f] = Ranges(p, run, f)
  OBVIOUS
<1>2. D \subseteq DOMAIN p
  <2>1. 1 \in DOMAIN p
    BY TreeFacts
  <2> QED BY <2>1 DEF Known, Kinds
<1>3. ASSUME NEW arm \in AllArms(p), ToldOf(p, arm)
      PROVE  /\ \E f \in D : \E r \in Ranges(p, run, f) : Fits(arm, r)
             /\ \A f, r : Answers(m, arm, f, r) => r.count = TrueOf(run, arm)
  BY <1>3, DumpAnswersAll DEF DumpAnswers
<1> HIDE DEF m
<1>4. Spanned(p, m)
  BY <1>1, <1>2, RangesRanged DEF Spanned
<1>5. ASSUME NEW arm \in AllArms(p), ToldOf(p, arm) PROVE Tells1(m, arm, run, TRUE)
  <2>1. \A f, r : Answers(m, arm, f, r) => r.count = TrueOf(run, arm)
    BY <1>3, <1>5
  <2>2. \E f \in DOMAIN m : \E r \in m[f] : Fits(arm, r)
    BY <1>1, <1>3, <1>5
  <2>3. TrueOf(run, arm) <= TrueOf(run, arm)
    OBVIOUS
  <2> QED BY <2>1, <2>2, <2>3 DEF Tells1
<1>6. Tally(p, m, run, TRUE)
  BY <1>4, <1>5 DEF Tally
<1> QED BY <1>6 DEF m

LEMMA TallySame ==
  ASSUME NEW p, NEW m, NEW a, NEW b, NEW lone, Tally(p, m, a, lone),
         \A arm \in AllArms(p) : TrueOf(a, arm) = TrueOf(b, arm)
  PROVE  Tally(p, m, b, lone)
<1>1. ASSUME NEW arm \in AllArms(p), Tells1(m, arm, a, lone) PROVE Tells1(m, arm, b, lone)
  BY <1>1 DEF Tells1
<1> QED BY <1>1 DEF Tally

LEMMA TallyMore ==
  ASSUME NEW p, NEW a, NEW b, NEW x, NEW y, NEW z, NEW lone,
         Tally(p, a, x, lone), Tally(p, b, y, TRUE),
         \A arm \in AllArms(p) : /\ TrueOf(x, arm) \in Nat /\ TrueOf(y, arm) \in Nat
                                 /\ TrueOf(z, arm) = TrueOf(x, arm) + TrueOf(y, arm)
  PROVE  Tally(p, MergeScriptCoverages(a, b), z, FALSE)
<1> DEFINE m == MergeScriptCoverages(a, b)
<1>1. Spanned(p, a) /\ Spanned(p, b)
  BY DEF Tally
<1>2. Spanned(p, m)
  BY <1>1, MergeFacts DEF Merger
<1>3. ASSUME NEW arm \in AllArms(p), ToldOf(p, arm), NEW f, NEW t, Answers(m, arm, f, t)
      PROVE  t.count <= TrueOf(z, arm)
  <2>1. \/ Answers(a, arm, f, t)
        \/ Answers(b, arm, f, t)
        \/ \E r, s : Answers(a, arm, f, r) /\ Answers(b, arm, f, s) /\ t.count = r.count + s.count
    BY <1>1, <1>3, MergeAnswers
  <2>2. ASSUME NEW r, Answers(a, arm, f, r) PROVE r.count \in Nat /\ r.count <= TrueOf(x, arm)
    <3>1. r.count \in Nat
      BY <1>1, <2>2 DEF Answers, Spanned, Ranged
    <3>2. Tells1(a, arm, x, lone)
      BY <1>3 DEF Tally
    <3> QED BY <2>2, <3>1, <3>2 DEF Tells1
  <2>3. ASSUME NEW s, Answers(b, arm, f, s) PROVE s.count \in Nat /\ s.count <= TrueOf(y, arm)
    <3>1. s.count \in Nat
      BY <1>1, <2>3 DEF Answers, Spanned, Ranged
    <3>2. Tells1(b, arm, y, TRUE)
      BY <1>3 DEF Tally
    <3> QED BY <2>3, <3>1, <3>2 DEF Tells1
  <2> DEFINE u == TrueOf(x, arm)
             v == TrueOf(y, arm)
  <2>4. TrueOf(z, arm) = u + v /\ u \in Nat /\ v \in Nat
    OBVIOUS
  <2> HIDE DEF u, v, m
  <2>5. CASE Answers(a, arm, f, t)
    <3>1. t.count \in Nat /\ t.count <= u
      BY <2>2, <2>5 DEF u
    <3> QED BY <2>4, <3>1
  <2>6. CASE Answers(b, arm, f, t)
    <3>1. t.count \in Nat /\ t.count <= v
      BY <2>3, <2>6 DEF v
    <3> QED BY <2>4, <3>1
  <2>7. CASE \E r, s : Answers(a, arm, f, r) /\ Answers(b, arm, f, s) /\ t.count = r.count + s.count
    <3>1. PICK r, s : Answers(a, arm, f, r) /\ Answers(b, arm, f, s) /\ t.count = r.count + s.count
      BY <2>7
    <3>2. r.count \in Nat /\ r.count <= u /\ s.count \in Nat /\ s.count <= v
      BY <2>2, <2>3, <3>1 DEF u, v
    <3> QED BY <2>4, <3>1, <3>2
  <2> QED BY <2>1, <2>5, <2>6, <2>7
<1> HIDE DEF m
<1>4. ASSUME NEW arm \in AllArms(p), ToldOf(p, arm) PROVE Tells1(m, arm, z, FALSE)
  BY <1>3, <1>4 DEF Tells1
<1>5. Tally(p, m, z, FALSE)
  BY <1>2, <1>4 DEF Tally
<1> QED BY <1>5 DEF m

(* The row of an arm.                                                      *)
LEMMA TallyRow ==
  ASSUME NEW p, Tree(p), Grammar(p), Shape(p), NEW m, NEW run, NEW lone, Tally(p, m, run, lone),
         NEW arm \in AllArms(p), ToldOf(p, arm), TrueOf(run, arm) \in Nat
  PROVE  /\ Joined(m, arm).hitcount <= TrueOf(run, arm)
         /\ lone => Joined(m, arm).hitcount = TrueOf(run, arm)
<1> DEFINE hits == Joined(m, arm).hitcount
<1>1. Spanned(p, m) /\ Tells1(m, arm, run, lone)
  BY DEF Tally
<1>3. hits = Joined(m, arm).hitcount
  OBVIOUS
<1> HIDE DEF hits
<1>4. \/ \E f, r : Answers(m, arm, f, r) /\ hits = r.count
      \/ hits = 0 /\ \A f \in DOMAIN m : \A r \in m[f] : ~Fits(arm, r)
  BY <1>1, <1>3, JoinAnswers
<1>5. CASE \E f, r : Answers(m, arm, f, r) /\ hits = r.count
  <2>1. hits <= TrueOf(run, arm) /\ (lone => hits = TrueOf(run, arm))
    BY <1>1, <1>5 DEF Tells1
  <2> QED BY <2>1 DEF hits
<1>6. CASE hits = 0 /\ \A f \in DOMAIN m : \A r \in m[f] : ~Fits(arm, r)
  <2>1. ~lone
    BY <1>1, <1>6 DEF Tells1
  <2>2. 0 <= TrueOf(run, arm)
    OBVIOUS
  <2>3. hits <= TrueOf(run, arm) /\ (lone => hits = TrueOf(run, arm))
    BY <1>6, <2>1, <2>2
  <2> QED BY <2>3 DEF hits
<1> QED BY <1>4, <1>5, <1>6

-----------------------------------------------------------------------------
(* What a process has counted when it is idle is what a dump needs.        *)
LEMMA ToldFacts ==
  ASSUME NEW arm
  PROVE  Told(arm) => ToldOf(file, arm)
BY DEF Told, ToldOf, InArm, Turns, Apart, ArmFunction

LEMMA ArmNode ==
  ASSUME NEW p, Tree(p), Grammar(p), Shape(p), NEW arm \in AllArms(p)
  PROVE  arm.node \in DOMAIN p
<1>1. arm.node \in ArmNodes(p) \/ arm.node \in CountersAfter(p)
  BY ArmCases
<1> QED BY <1>1, ArmSlotted DEF CountersAfter, Kinds

LEMMA IdleFollows ==
  ASSUME file \in Files, SeenInv, ~InCall, FlowInv, NEW n \in DOMAIN file
  PROVE  Follows(file, seen, n)
<1>1. Settled(n)
  BY SettledFacts DEF FlowInv, Flowing
<1>2. seen.in[n] \in Nat /\ seen.past[n] \in Nat
  BY DEF SeenInv
<1> QED BY <1>1, <1>2 DEF Settled, Follows, Reach

LEMMA IdleKnown ==
  ASSUME file \in Files, CallInv, FlowInv
  PROVE  Known(file, seen, {1} \cup defined)
<1>1. Tree(file)
  BY FileFacts
<1>2. defined \subseteq Kinds(file, {"Function"})
  BY DEF CallInv
<1>3. ASSUME NEW n \in DOMAIN file, n \in {1} \cup defined \/ seen.in[n] # 0 \/ seen.past[n] # 0,
             NEW f \in Upwards(file, n), file[f].kind = "Function"
      PROVE  f \in defined
  <2>1. CASE n = 1
    <3>1. f = 1
      BY <1>1, <1>3, <2>1, UpwardsFacts
    <3> QED BY <1>1, <1>3, <3>1, TreeFacts
  <2>2. CASE n # 1
    <3>1. OpenTo(n)
      BY <1>3, <2>2 DEF FlowInv, Opens
    <3> QED BY <1>3, <3>1 DEF OpenTo
  <2> QED BY <2>1, <2>2
<1> QED BY <1>2, <1>3 DEF Known

Typed == [in : Counting, past : Counting]
LEMMA TrueTyped ==
  ASSUME file \in Files, NEW run \in Typed, NEW arm \in AllArms(file)
  PROVE  /\ TrueOf(run, arm) \in Nat
         /\ TrueOf(Nothing(file), arm) = 0
         /\ \A b \in Typed : TrueOf(Plus(run, b), arm) = TrueOf(run, arm) + TrueOf(b, arm)
<1>1. Tree(file) /\ Grammar(file) /\ Shape(file)
  BY CoverageAssumption DEF CoverageAssumption
<1>2. arm.node \in DOMAIN file
  BY <1>1, ArmNode
<1> DEFINE n == arm.node
<1>3. \A b \in Typed : b.in[n] \in Nat /\ b.past[n] \in Nat
  BY <1>2 DEF Typed, Counting
<1>4. Nothing(file).in[n] = 0 /\ Nothing(file).past[n] = 0
  BY <1>2 DEF Nothing
<1>5. ASSUME NEW b \in Typed
      PROVE  Plus(run, b).in[n] = run.in[n] + b.in[n] /\ Plus(run, b).past[n] = run.past[n] + b.past[n]
  <2>1. DOMAIN run = {"in", "past"}
    BY DEF Typed
  <2> QED BY <1>2, <2>1 DEF Plus
<1> HIDE DEF n
<1> QED BY <1>3, <1>4, <1>5 DEF TrueOf, n

LEMMA IdleTally ==
  ASSUME file \in Files, IInv, ~InCall, FlowInv
  PROVE  Tally(file, Dump(file, seen, defined), seen, TRUE)
<1>1. Tree(file) /\ Grammar(file) /\ Shape(file)
  BY CoverageAssumption DEF CoverageAssumption
<1>2. \A k \in DOMAIN file : Follows(file, seen, k)
  BY IdleFollows DEF IInv
<1>3. Known(file, seen, {1} \cup defined)
  BY IdleKnown DEF IInv
<1>4. seen \in Typed
  BY DEF IInv, SeenInv, Typed, Counting
<1>5. \A arm \in AllArms(file) : TrueOf(seen, arm) \in Nat
  BY <1>4, TrueTyped
<1> DEFINE D == {1} \cup defined
<1>6. Dump(file, seen, defined) = [g \in D |-> Ranges(file, seen, g)]
  BY DEF Dump
<1> HIDE DEF D
<1>7. Known(file, seen, D)
  BY <1>3 DEF D
<1>8. Tally(file, [g \in D |-> Ranges(file, seen, g)], seen, TRUE)
  BY <1>1, <1>2, <1>5, <1>7, TallyOne
<1> QED BY <1>6, <1>8

(* The dumps of a run, merged one by one.                                  *)
Joining(h, dump) == h[1] = dump[1] /\ \A k \in 2..Len(dump) : h[k] = MergeScriptCoverages(h[k - 1], dump[k])
Tallied(dump, run) ==
  \E h : Joining(h, dump) /\ Tally(file, h[Len(dump)], run, Len(dump) = 1)

LEMMA JoiningFolds ==
  ASSUME NEW S, NEW dump \in Seq(S), dump # <<>>, NEW h, Joining(h, dump)
  PROVE  FoldLeft(MergeScriptCoverages, Head(dump), Tail(dump)) = h[Len(dump)]
<1> DEFINE n == Len(dump)
           rest == Tail(dump)
           g == [k \in 0..n |-> h[k + 1]]
<1>1. n \in Nat /\ n # 0
  BY EmptySeq, LenProperties
<1>2. rest \in Seq(S) /\ Len(rest) = n - 1 /\ \A k \in 1..(n - 1) : rest[k] = dump[k + 1]
  BY HeadTailProperties
<1>3. Head(dump) = dump[1]
  BY HeadTailProperties
<1>4. g[0] = h[1] /\ \A k \in 1..(n - 1) : g[k] = h[k + 1] /\ g[k - 1] = h[k]
  BY <1>1
<1>5. h[1] = dump[1] /\ \A k \in 2..n : h[k] = MergeScriptCoverages(h[k - 1], dump[k])
  BY DEF Joining
<1>6. n - 1 \in 0..n /\ (n - 1) + 1 = n
  BY <1>1
<1>7. g[n - 1] = h[n]
  BY <1>6
<1> HIDE DEF n, g, rest
<1>8. \A k \in 1..(n - 1) : g[k] = MergeScriptCoverages(g[k - 1], rest[k])
  <2> SUFFICES ASSUME NEW k \in 1..(n - 1) PROVE g[k] = MergeScriptCoverages(g[k - 1], rest[k])
    OBVIOUS
  <2>1. k + 1 \in 2..n /\ (k + 1) - 1 = k
    BY <1>1
  <2>2. h[k + 1] = MergeScriptCoverages(h[(k + 1) - 1], dump[k + 1])
    BY <1>5, <2>1
  <2> QED BY <1>2, <1>4, <2>1, <2>2
<1>9. Built(g, Head(dump), rest)
  BY <1>2, <1>3, <1>4, <1>5, <1>8 DEF Built
<1>10. Folded(Head(dump), rest) = g[Len(rest)]
  BY <1>2, <1>9, FoldFacts
<1> QED BY <1>2, <1>7, <1>10 DEF Folded, rest, n

-----------------------------------------------------------------------------
(* A sum over the runs is not zero when one of its terms is not.           *)
AllDumps == MapThenSumSet(LAMBDA r : Len(dumps[r]), Runs)
LEMMA SomeDumps ==
  ASSUME \A r \in Runs : Len(dumps[r]) \in Nat, NEW q \in Runs, Len(dumps[q]) # 0
  PROVE  AllDumps # 0
<1> DEFINE w == [r \in Runs |-> <<Len(dumps[r])>>]
           Body(g, T) == IF T = {} THEN 0 ELSE LET c == CHOOSE x \in T : TRUE IN Len(dumps[c]) + g[T \ {c}]
           f == CHOOSE g : g = [T \in SUBSET Runs |-> Body(g, T)]
<1>1. AllDumps = f[Runs]
  BY DEF AllDumps, MapThenSumSet, MapThenFoldSet
<1>2. IsFiniteSet(Runs)
  BY CoverageAssumption DEF CoverageAssumption
<1>3. \A r \in Runs : w[r][1] = Len(dumps[r])
  OBVIOUS
<1> HIDE DEF w
<1>4. PICK e : SumsUp(e, w, 1, Runs)
  BY <1>2, SumDefined
<1> DEFINE h == [T \in SUBSET Runs |-> e[T]]
<1>5. \A T \in SUBSET Runs : h[T] = Body(h, T)
  <2> SUFFICES ASSUME NEW T \in SUBSET Runs PROVE h[T] = Body(h, T)
    OBVIOUS
  <2>1. CASE T = {}
    BY <1>4, <2>1 DEF SumsUp
  <2>2. CASE T # {}
    <3> DEFINE c == CHOOSE x \in T : TRUE
    <3>1. c \in T /\ c \in Runs /\ T \ {c} \in SUBSET Runs
      BY <2>2
    <3>2. e[T] = w[c][1] + e[T \ {c}]
      BY <1>4, <2>2 DEF SumsUp
    <3>3. Body(h, T) = Len(dumps[c]) + h[T \ {c}]
      BY <2>2
    <3> HIDE DEF c, Body
    <3> QED BY <1>3, <3>1, <3>2, <3>3
  <2> QED BY <2>1, <2>2
<1>6. h = [T \in SUBSET Runs |-> h[T]]
  OBVIOUS
<1> HIDE DEF h, Body
<1>7. h = [T \in SUBSET Runs |-> Body(h, T)]
  BY <1>5, <1>6
<1>8. f = [T \in SUBSET Runs |-> Body(f, T)]
  BY <1>7
<1> HIDE DEF f
<1>9. \A T \in SUBSET Runs : f[T] = Body(f, T)
  BY <1>8, Zenon
<1>10. SumsUp(f, w, 1, Runs)
  <2> SUFFICES ASSUME NEW T \in SUBSET Runs
               PROVE  f[T] = IF T = {} THEN 0 ELSE LET c == CHOOSE x \in T : TRUE IN w[c][1] + f[T \ {c}]
    BY DEF SumsUp
  <2>1. CASE T = {}
    BY <1>9, <2>1 DEF Body
  <2>2. CASE T # {}
    <3> DEFINE c == CHOOSE x \in T : TRUE
    <3>1. c \in Runs
      BY <2>2
    <3>2. f[T] = Len(dumps[c]) + f[T \ {c}]
      BY <1>9, <2>2 DEF Body
    <3>3. f[T] = w[c][1] + f[T \ {c}]
      BY <1>3, <3>1, <3>2
    <3> QED BY <2>2, <3>3
  <2> QED BY <2>1, <2>2
<1>11. \A r \in Runs : w[r][1] \in Nat
  BY <1>3
<1>12. \A T \in SUBSET Runs : Splits(f, w, 1, T)
  BY <1>2, <1>10, <1>11, SumSplits
<1>13. f[Runs] = w[q][1] + f[Runs \ {q}] /\ f[Runs \ {q}] \in Nat
  <2>1. Runs \in SUBSET Runs /\ Runs \ {q} \in SUBSET Runs
    OBVIOUS
  <2>2. Splits(f, w, 1, Runs) /\ Splits(f, w, 1, Runs \ {q})
    BY <1>12, <2>1
  <2> QED BY <2>2 DEF Splits
<1>14. w[q][1] \in Nat /\ w[q][1] # 0
  BY <1>3
<1> QED BY <1>1, <1>13, <1>14

-----------------------------------------------------------------------------
(* What the dumps of every run tell, and when the rows are written.        *)
TalliesInv ==
  /\ \A r \in Runs : dumps[r] # <<>> => Tallied(dumps[r], ran[r])
  /\ \A r \in Runs : dumps[r] = <<>> => ran[r] = Nothing(file)
  /\ extract # NotExtracting => projects # <<>>
  /\ rows.of = 0 => Stored = {}
  /\ rows.of # 0 => projects = <<>> /\ at = Exited
  /\ CountsFollow

LEMMA HitsStart ==
  ASSUME Init
  PROVE  TalliesInv
<1>1. \A r \in Runs : dumps[r] = <<>> /\ ran[r] = Nothing(file)
  BY DEF Init
<1>2. rows.of = 0 /\ Stored = {} /\ extract = NotExtracting
  <2>1. rows.of = 0 /\ rows.table = <<>> /\ extract = NotExtracting
    BY DEF Init
  <2>2. DOMAIN <<>> = {}
    OBVIOUS
  <2> QED BY <2>1, <2>2 DEF Stored
<1> QED BY <1>1, <1>2 DEF TalliesInv, CountsFollow

(* The rows that are written.                                              *)
LEMMA ConvertFollows ==
  ASSUME IInv, ResultsInv, TalliesInv, Convert
  PROVE  TalliesInv'
<1>1. /\ projects = <<>> /\ at = Exited /\ UNCHANGED <<file, projects, extract, db, at, dumps, ran>>
      /\ \E r \in Runs : dumps[r] # <<>>
  BY DEF Convert, analysis, process, results
<1> DEFINE had == {q \in Runs : dumps[q] # <<>>}
           row(r, i) == Joined(Merged(r), db.branches[i])
<1>2. rows' = [of |-> AllDumps, table |-> [r \in had |-> [i \in DOMAIN db.branches |-> row(r, i)]]]
  BY DEF Convert, AllDumps
<1>3. rows'.of # 0
  <2>1. PICK q \in Runs : dumps[q] # <<>>
    BY <1>1
  <2>2. PICK S : dumps \in [Runs -> Seq(S)]
    BY DEF ResultsInv
  <2>3. \A r \in Runs : Len(dumps[r]) \in Nat /\ (Len(dumps[r]) = 0 => dumps[r] = <<>>)
    BY <2>2, LenProperties, EmptySeq
  <2>4. AllDumps # 0
    BY <2>1, <2>3, SomeDumps
  <2> QED BY <1>2, <2>4
<1>4. Stored' = had /\ \A r \in had : \A i \in DOMAIN db.branches : rows'.table[r][i] = row(r, i)
  BY <1>2 DEF Stored
<1>5. ASSUME NEW r \in had, NEW i \in DOMAIN db.branches, Told(db.branches[i])
      PROVE  LET arm == db.branches[i] IN
             /\ row(r, i).hitcount <= TrueOf(ran[r], arm)
             /\ Len(dumps[r]) = 1 => row(r, i).hitcount = TrueOf(ran[r], arm)
  <2> DEFINE arm == db.branches[i]
             d == dumps[r]
  <2>1. file \in Files /\ arm \in AllArms(file)
    <3>1. db.branches \in Seq(AllArms(file)) /\ file \in Files
      BY DEF IInv, AnalysisInv
    <3> QED BY <3>1, LenProperties
  <2>2. Tree(file) /\ Grammar(file) /\ Shape(file)
    BY <2>1, CoverageAssumption DEF CoverageAssumption
  <2>3. ToldOf(file, arm)
    BY <1>5, ToldFacts
  <2>4. ran[r] \in Typed
    BY DEF ResultsInv, Typed
  <2>5. TrueOf(ran[r], arm) \in Nat
    BY <2>1, <2>4, TrueTyped
  <2>6. PICK S : dumps \in [Runs -> Seq(S)]
    BY DEF ResultsInv
  <2>7. d \in Seq(S) /\ d # <<>>
    BY <2>6
  <2>8. PICK h : Joining(h, d) /\ Tally(file, h[Len(d)], ran[r], Len(d) = 1)
    BY DEF TalliesInv, Tallied
  <2>9. Merged(r) = h[Len(d)]
    BY <2>7, <2>8, JoiningFolds DEF Merged
  <2> HIDE DEF arm
  <2> DEFINE lone == Len(d) = 1
             m == h[Len(d)]
  <2>10. Tally(file, m, ran[r], lone)
    BY <2>8
  <2> HIDE DEF lone, m
  <2>11. /\ Joined(m, arm).hitcount <= TrueOf(ran[r], arm)
         /\ lone => Joined(m, arm).hitcount = TrueOf(ran[r], arm)
    BY <2>1, <2>2, <2>3, <2>5, <2>10, TallyRow
  <2> QED BY <2>9, <2>11 DEF arm, lone, m
<1> HIDE DEF row, had
<1>6. \A arm : Told(arm)' <=> Told(arm)
  BY <1>1 DEF Told, InArm, Turns
<1>7. \A r, arm : TrueCount(r, arm)' = TrueOf(ran[r], arm)
  BY <1>1 DEF TrueCount, TrueOf
<1>8. CountsFollow'
  BY <1>1, <1>4, <1>5, <1>6, <1>7 DEF CountsFollow
<1>9. \A r : Tallied(dumps[r], ran[r])' <=> Tallied(dumps[r], ran[r])
  BY <1>1 DEF Tallied
<1> QED BY <1>1, <1>3, <1>8, <1>9 DEF TalliesInv

-----------------------------------------------------------------------------
(* Rows are not written again, and no run has a dump more after that.      *)
LEMMA RowsKept ==
  ASSUME TalliesInv, UNCHANGED <<file, dumps, ran, rows>>, extract' # NotExtracting => projects' # <<>>,
         rows.of = 0 \/ UNCHANGED <<db, projects, at>>
  PROVE  TalliesInv'
<1>1. \A r : Tallied(dumps[r], ran[r])' <=> Tallied(dumps[r], ran[r])
  BY DEF Tallied
<1>2. CountsFollow'
  <2>1. CASE rows.of = 0
    <3>1. Stored' = {}
      BY <2>1 DEF TalliesInv, Stored
    <3> QED BY <3>1 DEF CountsFollow
  <2>2. CASE UNCHANGED <<db, projects, at>>
    BY <2>2 DEF TalliesInv, CountsFollow, Stored, Told, InArm, Turns, TrueCount
  <2> QED BY <2>1, <2>2
<1>3. /\ rows'.of = 0 => Stored' = {}
      /\ rows'.of # 0 => projects' = <<>> /\ at' = Exited
  BY DEF TalliesInv, Stored
<1>4. extract' # NotExtracting' => projects' # <<>>
  BY DEF NotExtracting
<1> QED BY <1>1, <1>2, <1>3, <1>4 DEF TalliesInv

(* One dump more.                                                          *)
LEMMA JoiningNext ==
  ASSUME NEW S, NEW dump \in Seq(S), dump # <<>>, NEW h, Joining(h, dump), NEW x
  PROVE  \E g : /\ Joining(g, Append(dump, x))
                /\ g[Len(Append(dump, x))] = MergeScriptCoverages(h[Len(dump)], x)
<1> DEFINE n == Len(dump)
           all == Append(dump, x)
           g == [k \in 1..(n + 1) |-> IF k <= n THEN h[k] ELSE MergeScriptCoverages(h[n], x)]
<1>1. n \in Nat /\ n # 0
  BY EmptySeq, LenProperties
<1>2. Len(all) = n + 1 /\ all[n + 1] = x /\ \A k \in 1..n : all[k] = dump[k]
  <2>1. dump \in Seq(S \cup {x}) /\ x \in S \cup {x}
    BY SeqMonotonic
  <2> QED BY <2>1, AppendProperties
<1>3. h[1] = dump[1] /\ \A k \in 2..n : h[k] = MergeScriptCoverages(h[k - 1], dump[k])
  BY DEF Joining
<1>4. g[n + 1] = MergeScriptCoverages(h[n], x) /\ \A k \in 1..n : g[k] = h[k]
  BY <1>1
<1> HIDE DEF n, all, g
<1>5. g[1] = all[1]
  BY <1>1, <1>2, <1>3, <1>4
<1>6. \A k \in 2..(n + 1) : g[k] = MergeScriptCoverages(g[k - 1], all[k])
  <2> SUFFICES ASSUME NEW k \in 2..(n + 1) PROVE g[k] = MergeScriptCoverages(g[k - 1], all[k])
    OBVIOUS
  <2>1. CASE k \in 2..n
    <3>1. k \in 1..n /\ k - 1 \in 1..n
      BY <1>1, <2>1
    <3> QED BY <1>2, <1>3, <1>4, <2>1, <3>1
  <2>2. CASE k = n + 1
    <3>1. k - 1 = n /\ n \in 1..n
      BY <1>1, <2>2
    <3>2. g[k - 1] = h[n]
      BY <1>4, <3>1
    <3> QED BY <1>2, <1>4, <2>2, <3>2
  <2> QED BY <1>1, <2>1, <2>2
<1>7. Joining(g, all) /\ g[Len(all)] = MergeScriptCoverages(h[n], x)
  BY <1>2, <1>4, <1>5, <1>6 DEF Joining
<1> QED BY <1>7 DEF all, n

LEMMA DumpTallies ==
  ASSUME file \in Files, NEW S, NEW dump \in Seq(S), NEW run \in Typed, NEW seen1 \in Typed, NEW x,
         Tally(file, x, seen1, TRUE),
         dump # <<>> => Tallied(dump, run), dump = <<>> => run = Nothing(file)
  PROVE  Tallied(Append(dump, x), Plus(run, seen1))
<1>1. \A arm \in AllArms(file) :
        /\ TrueOf(run, arm) \in Nat /\ TrueOf(seen1, arm) \in Nat /\ TrueOf(Nothing(file), arm) = 0
        /\ TrueOf(Plus(run, seen1), arm) = TrueOf(run, arm) + TrueOf(seen1, arm)
  BY TrueTyped
<1> DEFINE all == Append(dump, x)
           sum == Plus(run, seen1)
<1>2. CASE dump = <<>>
  <2> DEFINE h == [k \in 1..1 |-> x]
  <2>1. Len(all) = 1 /\ all[1] = x
    BY <1>2, Singles
  <2>2. h[1] = x
    OBVIOUS
  <2> HIDE DEF h, all
  <2>3. Joining(h, all)
    BY <2>1, <2>2 DEF Joining
  <2>4. \A arm \in AllArms(file) : TrueOf(seen1, arm) = TrueOf(sum, arm)
    <3> SUFFICES ASSUME NEW arm \in AllArms(file) PROVE TrueOf(seen1, arm) = TrueOf(sum, arm)
      OBVIOUS
    <3>1. TrueOf(run, arm) = 0 /\ TrueOf(seen1, arm) \in Nat /\ TrueOf(sum, arm) = TrueOf(run, arm) + TrueOf(seen1, arm)
      BY <1>1, <1>2
    <3> QED BY <3>1
  <2> HIDE DEF sum
  <2>5. Tally(file, x, sum, TRUE)
    BY <2>4, TallySame
  <2>6. Len(all) = 1 <=> TRUE
    BY <2>1
  <2>7. Tally(file, h[Len(all)], sum, Len(all) = 1)
    BY <2>1, <2>2, <2>5, <2>6
  <2>8. Tallied(all, sum)
    BY <2>3, <2>7 DEF Tallied
  <2> QED BY <2>8 DEF all, sum
<1>3. CASE dump # <<>>
  <2>1. PICK h : Joining(h, dump) /\ Tally(file, h[Len(dump)], run, Len(dump) = 1)
    BY <1>3 DEF Tallied
  <2>2. PICK g : Joining(g, all) /\ g[Len(all)] = MergeScriptCoverages(h[Len(dump)], x)
    BY <1>3, <2>1, JoiningNext
  <2> DEFINE lone == Len(dump) = 1
             m == h[Len(dump)]
  <2>3. Tally(file, m, run, lone)
    BY <2>1
  <2>4. Len(all) # 1
    <3>1. Len(dump) \in Nat /\ Len(dump) # 0
      BY <1>3, EmptySeq, LenProperties
    <3>2. Len(all) = Len(dump) + 1
      <4>1. dump \in Seq(S \cup {x}) /\ x \in S \cup {x}
        BY SeqMonotonic
      <4> QED BY <4>1, AppendProperties
    <3> QED BY <3>1, <3>2
  <2> HIDE DEF lone, m, sum, all
  <2>5. Tally(file, MergeScriptCoverages(m, x), sum, FALSE)
    BY <1>1, <2>3, TallyMore DEF sum
  <2>6. (Len(all) = 1) <=> FALSE
    BY <2>4
  <2>7. Tally(file, g[Len(all)], sum, Len(all) = 1)
    BY <2>2, <2>5, <2>6 DEF m
  <2>8. Tallied(all, sum)
    BY <2>2, <2>7 DEF Tallied
  <2> QED BY <2>8 DEF all, sum
<1> QED BY <1>2, <1>3

LEMMA WriteFollows ==
  ASSUME IInv, FlowInv, ResultsInv, TalliesInv, WriteDump
  PROVE  TalliesInv'
<1>1. at = Idle /\ UNCHANGED <<file, projects, extract, db, rows>>
  BY DEF WriteDump, analysis, tables
<1>2. rows.of = 0 /\ Stored' = {} /\ ~InCall
  <2>1. rows.of = 0
    BY <1>1, Awake DEF TalliesInv
  <2>2. ~InCall
    BY <1>1 DEF InCall
  <2> QED BY <1>1, <2>1, <2>2 DEF TalliesInv, Stored
<1>3. PICK r \in Runs : /\ dumps' = [dumps EXCEPT ![r] = Append(@, Dump(file, seen, defined))]
                        /\ ran' = [ran EXCEPT ![r] = Plus(@, seen)]
  BY DEF WriteDump
<1> DEFINE x == Dump(file, seen, defined)
<1>4. PICK S : dumps \in [Runs -> Seq(S)]
  BY DEF ResultsInv
<1>5. ran \in [Runs -> Typed] /\ seen \in Typed /\ file \in Files
  BY DEF ResultsInv, IInv, AnalysisInv, SeenInv, Typed, Counting
<1>6. Tally(file, x, seen, TRUE)
  BY <1>2, <1>5, IdleTally
<1>7. dumps'[r] = Append(dumps[r], x) /\ ran'[r] = Plus(ran[r], seen)
  BY <1>3, <1>4, <1>5
<1>8. \A q \in Runs : q # r => dumps'[q] = dumps[q] /\ ran'[q] = ran[q]
  BY <1>3
<1> HIDE DEF x
<1>9. Tallied(Append(dumps[r], x), Plus(ran[r], seen))
  <2>1. dumps[r] \in Seq(S) /\ ran[r] \in Typed
    BY <1>4, <1>5
  <2>2. (dumps[r] # <<>> => Tallied(dumps[r], ran[r])) /\ (dumps[r] = <<>> => ran[r] = Nothing(file))
    BY DEF TalliesInv
  <2> QED BY <1>5, <1>6, <2>1, <2>2, DumpTallies
<1>10. dumps'[r] # <<>>
  <2>1. dumps[r] \in Seq(S \cup {x}) /\ x \in S \cup {x}
    BY <1>4, SeqMonotonic
  <2>2. Len(Append(dumps[r], x)) = Len(dumps[r]) + 1 /\ Len(dumps[r]) \in Nat /\ Append(dumps[r], x) \in Seq(S \cup {x})
    BY <2>1, AppendProperties, LenProperties
  <2>3. Len(Append(dumps[r], x)) # 0
    BY <2>2
  <2> QED BY <1>7, <2>2, <2>3, EmptySeq
<1>11. \A q \in Runs : dumps'[q] # <<>> => Tallied(dumps[q], ran[q])'
  <2> SUFFICES ASSUME NEW q \in Runs, dumps'[q] # <<>> PROVE Tallied(dumps[q], ran[q])'
    OBVIOUS
  <2>1. \E h : Joining(h, dumps'[q]) /\ Tally(file, h[Len(dumps'[q])], ran'[q], Len(dumps'[q]) = 1)
    <3>1. CASE q = r
      BY <1>7, <1>9, <3>1 DEF Tallied
    <3>2. CASE q # r
      <4>1. dumps'[q] = dumps[q] /\ ran'[q] = ran[q]
        BY <1>8, <3>2
      <4>2. Tallied(dumps[q], ran[q])
        BY <4>1 DEF TalliesInv
      <4> QED BY <4>1, <4>2 DEF Tallied
    <3> QED BY <3>1, <3>2
  <2> QED BY <1>1, <2>1 DEF Tallied
<1>12. \A q \in Runs : dumps'[q] = <<>> => ran'[q] = Nothing(file)'
  BY <1>1, <1>8, <1>10 DEF TalliesInv, Nothing
<1>13. CountsFollow'
  BY <1>2 DEF CountsFollow
<1>14. extract' # NotExtracting' => projects' # <<>>
  BY <1>1 DEF TalliesInv, NotExtracting
<1> QED BY <1>1, <1>2, <1>11, <1>12, <1>13, <1>14 DEF TalliesInv

(* The step.                                                               *)
LEMMA TalliesKept ==
  ASSUME IInv, FlowInv, ResultsInv, TalliesInv, [Next]_vars
  PROVE  TalliesInv'
<1>1. CASE Convert
  BY <1>1, ConvertFollows
<1>2. CASE WriteDump
  BY <1>2, WriteFollows
<1>3. ASSUME ImportProject \/ ImportCached \/ Traverse \/ Insert PROVE TalliesInv'
  <2>1. UNCHANGED <<file, dumps, ran, rows>> /\ projects # <<>>
    BY <1>3 DEF ImportProject, ImportCached, Traverse, Insert, results, tables, TalliesInv
  <2>2. rows.of = 0
    BY <2>1 DEF TalliesInv
  <2>3. extract' # NotExtracting => projects' # <<>>
    <3>1. ImportProject \/ Traverse => projects' = projects
      BY DEF ImportProject, Traverse
    <3>2. ImportCached \/ Insert => extract' = NotExtracting
      BY DEF ImportCached, Insert
    <3> QED BY <1>3, <2>1, <3>1, <3>2
  <2> QED BY <2>1, <2>2, <2>3, RowsKept
<1>4. ASSUME Start \/ CallFunction \/ Step \/ Return PROVE TalliesInv'
  <2>1. UNCHANGED <<file, dumps, ran, rows, extract, projects>>
    BY <1>4 DEF Start, CallFunction, Step, Return, results, tables, analysis
  <2>2. rows.of = 0
    <3>1. Start => rows.of = 0
      BY DEF Start
    <3>2. CallFunction \/ Step \/ Return => at # Exited
      BY Awake DEF CallFunction, Step, Return, InCall
    <3> QED BY <1>4, <3>1, <3>2 DEF TalliesInv
  <2> QED BY <2>1, <2>2, RowsKept DEF TalliesInv
<1>5. ASSUME Compare \/ UNCHANGED vars PROVE TalliesInv'
  <2>1. UNCHANGED <<file, dumps, ran, rows, extract, projects, db, at>>
    BY <1>5 DEF Compare, vars, results, tables, analysis, process
  <2> QED BY <2>1, RowsKept DEF TalliesInv
<1> QED BY <1>1, <1>2, <1>3, <1>4, <1>5 DEF Next, Analyze, Replay

(* The hit count that is stored for an arm is how often the arm ran in the *)
(* run, if one process dumped it, and never more if several did, although  *)
(* V8 leaves ranges out, functions hide in each other and dumps are merged *)
(* range by range (v8-to-canonical.ts, coverage-to-sqlite.ts).             *)
THEOREM Hitcounts == Spec => []CountsFollow
<1>1. Init => ResultsInv /\ TalliesInv
  BY ResultsStart, HitsStart
<1>2. IInv /\ FlowInv /\ ResultsInv /\ TalliesInv /\ [Next]_vars => ResultsInv' /\ TalliesInv'
  BY ResultsKept, TalliesKept
<1>3. TalliesInv => CountsFollow
  BY DEF TalliesInv
<1> QED BY <1>1, <1>2, <1>3, Invariance, Flow, PTL DEF Spec

=============================================================================
