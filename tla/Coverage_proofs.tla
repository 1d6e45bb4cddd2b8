--------------------------- MODULE Coverage_proofs ---------------------------
(***************************************************************************)
(* Machine-checked proofs about the extraction of branches and functions   *)
(* and about the replays of a file, for every syntax tree, and any number  *)
(* of libraries, calls, turns of loops, runs and dumps.                    *)
(* Counts_proofs goes on from Flow to the hit counts that are stored.      *)
(***************************************************************************)
EXTENDS Coverage, Inductions

-----------------------------------------------------------------------------
(* The nodes from a node up to the root.                                   *)

LEMMA TreeFacts ==
  ASSUME NEW p, Tree(p)
  PROVE  /\ Len(p) \in Nat /\ Len(p) # 0 /\ DOMAIN p = 1..Len(p)
         /\ \A n \in DOMAIN p : /\ n \in Nat /\ p[n].up \in 0..(n - 1)
                                /\ p[n].up \in {0} \cup DOMAIN p
                                /\ p[n].up = 0 <=> n = 1
         /\ 1 \in DOMAIN p /\ p[1].kind = "Program"
<1>1. p \in Seq([kind : STRING, up : Nat, slot : STRING]) /\ p # <<>>
  BY DEF Tree
<1>2. Len(p) \in Nat /\ Len(p) # 0 /\ DOMAIN p = 1..Len(p)
  BY <1>1, LenProperties, EmptySeq
<1>3. p[1].up = 0 /\ \A n \in 2..Len(p) : p[n].up \in 1..(n - 1)
  BY DEF Tree
<1>4. \A n \in DOMAIN p : n = 1 \/ n \in 2..Len(p)
  BY <1>2
<1> QED BY <1>2, <1>3, <1>4 DEF Tree

LEMMA UpwardsDefined ==
  ASSUME NEW p, Tree(p)
  PROVE  /\ Upwards(p, 0) = {}
         /\ \A n \in DOMAIN p : Upwards(p, n) = {n} \cup Upwards(p, p[n].up)
<1> DEFINE L == Len(p)
           Body(g, m) == IF m = 0 THEN {} ELSE {m} \cup g[p[m].up]
           f == CHOOSE g : g = [m \in 0..L |-> Body(g, m)]
           Defined == {k \in Nat : k <= L => \E g : g = [m \in 0..k |-> Body(g, m)]}
<1>1. \A n : Upwards(p, n) = f[n]
  BY DEF Upwards
<1>2. L \in Nat /\ \A n \in 1..L : p[n].up \in 0..(n - 1)
  BY TreeFacts
<1> HIDE DEF L
<1>3. 0 \in Defined
  <2>1. [m \in 0..0 |-> {}] = [m \in 0..0 |-> Body([k \in 0..0 |-> {}], m)]
    OBVIOUS
  <2> HIDE DEF Body
  <2> QED BY <2>1
<1>4. ASSUME NEW k \in Nat, k \in Defined PROVE k + 1 \in Defined
  <2> SUFFICES ASSUME k + 1 <= L PROVE \E g : g = [m \in 0..(k + 1) |-> Body(g, m)]
    OBVIOUS
  <2>1. PICK g : g = [m \in 0..k |-> Body(g, m)]
    BY <1>2, <1>4
  <2> DEFINE h == [m \in 0..(k + 1) |-> IF m = k + 1 THEN Body(g, m) ELSE g[m]]
  <2>2. \A m \in 0..(k + 1) : h[m] = Body(h, m)
    <3>1. \A m \in 0..k : h[m] = g[m]
      OBVIOUS
    <3>2. \A m \in 1..(k + 1) : p[m].up \in 0..k
      BY <1>2
    <3>3. \A m \in 0..(k + 1) : Body(h, m) = Body(g, m)
      <4> HIDE DEF h
      <4>1. \A m \in 0..(k + 1) : m = 0 \/ m \in 1..(k + 1)
        OBVIOUS
      <4> QED BY <3>1, <3>2, <4>1
    <3> HIDE DEF Body
    <3>4. \A m \in 0..k : g[m] = Body(g, m)
      BY <2>1, Zenon
    <3>5. \A m \in 0..(k + 1) : h[m] = Body(g, m)
      BY <3>4
    <3> QED BY <3>3, <3>5
  <2> HIDE DEF h, Body
  <2>3. h = [m \in 0..(k + 1) |-> h[m]]
    BY DEF h
  <2>4. h = [m \in 0..(k + 1) |-> Body(h, m)]
    BY <2>2, <2>3
  <2> QED BY <2>4
<1> HIDE DEF Body
<1>5. L \in Defined
  <2> HIDE DEF Defined
  <2> QED BY <1>2, <1>3, <1>4, Induction
<1>6. f = [m \in 0..L |-> Body(f, m)]
  <2>1. \E g : g = [m \in 0..L |-> Body(g, m)]
    BY <1>2, <1>5
  <2> QED BY <2>1, Zenon
<1> HIDE DEF f
<1>7. \A m \in 0..L : f[m] = Body(f, m)
  BY <1>6, Zenon
<1>8. f[0] = {}
  <2>1. 0 \in 0..L
    BY <1>2
  <2> QED BY <1>7, <2>1 DEF Body
<1>9. \A m \in 1..L : f[m] = {m} \cup f[p[m].up]
  <2>1. \A m \in 1..L : m \in 0..L /\ m # 0
    BY <1>2
  <2> QED BY <1>7, <2>1 DEF Body
<1>10. DOMAIN p = 1..L
  BY TreeFacts DEF L
<1> QED BY <1>1, <1>8, <1>9, <1>10

(* Induction along a tree: what holds of a node if it holds of its parent. *)
LEMMA TreeInduction ==
  ASSUME NEW p, Tree(p), NEW S,
         \A n \in DOMAIN p : (n = 1 \/ p[n].up \in S) => n \in S
  PROVE  DOMAIN p \subseteq S
<1> DEFINE Good == {k \in Nat : \A n \in DOMAIN p : n <= k => n \in S}
<1>1. \A n \in DOMAIN p : n \in Nat /\ n # 0 /\ p[n].up \in 0..(n - 1) /\ (n # 1 => p[n].up \in DOMAIN p)
  BY TreeFacts
<1>2. 0 \in Good
  BY <1>1
<1>3. ASSUME NEW k \in Nat, k \in Good PROVE k + 1 \in Good
  BY <1>1, <1>3
<1> HIDE DEF Good
<1>4. Nat \subseteq Good
  BY <1>2, <1>3, Induction
<1> QED BY <1>1, <1>4 DEF Good

(* A chain: every node with all its ancestors.                             *)
LEMMA UpwardsFacts ==
  ASSUME NEW p, Tree(p), NEW n \in DOMAIN p
  PROVE  /\ n \in Upwards(p, n) /\ 1 \in Upwards(p, n)
         /\ Upwards(p, n) \subseteq DOMAIN p
         /\ \A a \in Upwards(p, n) : a <= n /\ Upwards(p, a) \subseteq Upwards(p, n)
         /\ \A a \in Upwards(p, n) : a # n => a \in Upwards(p, p[n].up)
         /\ n # 1 => p[n].up \in DOMAIN p /\ n \notin Upwards(p, p[n].up)
<1> DEFINE Fine(m) == /\ m \in Upwards(p, m) /\ 1 \in Upwards(p, m)
                      /\ Upwards(p, m) \subseteq DOMAIN p
                      /\ \A a \in Upwards(p, m) : a <= m /\ Upwards(p, a) \subseteq Upwards(p, m)
           S == {m \in DOMAIN p : Fine(m)}
<1>1. \A m \in DOMAIN p : Upwards(p, m) = {m} \cup Upwards(p, p[m].up)
  BY UpwardsDefined
<1>2. Upwards(p, 0) = {}
  BY UpwardsDefined
<1>3. \A m \in DOMAIN p : m \in Nat /\ p[m].up \in 0..(m - 1) /\ (p[m].up = 0 <=> m = 1)
        /\ p[m].up \in {0} \cup DOMAIN p
  BY TreeFacts
<1>4. ASSUME NEW m \in DOMAIN p, m = 1 \/ p[m].up \in S PROVE Fine(m)
  <2>1. CASE m = 1
    <3>1. Upwards(p, m) = {1}
      BY <1>1, <1>2, <1>3, <2>1
    <3> QED BY <1>3, <2>1, <3>1
  <2>2. CASE p[m].up \in S
    <3>1. Fine(p[m].up) /\ p[m].up \in DOMAIN p /\ p[m].up \in Nat /\ p[m].up < m /\ m \in Nat
      BY <1>3, <2>2
    <3>2. \A a \in Upwards(p, p[m].up) : a <= m /\ Upwards(p, a) \subseteq Upwards(p, m)
      BY <1>1, <1>3, <3>1
    <3> QED BY <1>1, <3>1, <3>2
  <2> QED BY <1>4, <2>1, <2>2
<1>5. n \in S
  <2>1. \A m \in DOMAIN p : (m = 1 \/ p[m].up \in S) => m \in S
    BY <1>4
  <2> HIDE DEF S
  <2> QED BY <2>1, TreeInduction
<1>6. n # 1 => p[n].up \in S
  <2>1. \A m \in DOMAIN p : (m = 1 \/ p[m].up \in S) => m \in S
    BY <1>4
  <2>2. DOMAIN p \subseteq S
    <3> HIDE DEF S
    <3> QED BY <2>1, TreeInduction
  <2> QED BY <1>3, <2>2
<1>7. n # 1 => n \notin Upwards(p, p[n].up)
  <2> SUFFICES ASSUME n # 1 PROVE n \notin Upwards(p, p[n].up)
    OBVIOUS
  <2>1. \A a \in Upwards(p, p[n].up) : a <= p[n].up
    BY <1>6
  <2>2. p[n].up \in 0..(n - 1) /\ n \in Nat
    BY <1>3
  <2> QED BY <2>1, <2>2
<1> QED BY <1>1, <1>3, <1>5, <1>6, <1>7

(* A chain is a line: of two ancestors one is the other's.                 *)
LEMMA ChainFacts ==
  ASSUME NEW p, Tree(p), NEW n \in DOMAIN p, NEW a \in Upwards(p, n), NEW b \in Upwards(p, n)
  PROVE  /\ a \in Upwards(p, b) \/ b \in Upwards(p, a)
         /\ p[a].up = p[b].up => a = b
<1> DEFINE S == {m \in DOMAIN p : \A c, d \in Upwards(p, m) :
                   c \in Upwards(p, d) \/ d \in Upwards(p, c)}
<1>1. \A m \in DOMAIN p : (m = 1 \/ p[m].up \in S) => m \in S
  <2> SUFFICES ASSUME NEW m \in DOMAIN p, m = 1 \/ p[m].up \in S,
                      NEW c \in Upwards(p, m), NEW d \in Upwards(p, m)
               PROVE  c \in Upwards(p, d) \/ d \in Upwards(p, c)
    OBVIOUS
  <2>1. CASE c = m \/ d = m
    BY <2>1
  <2>2. CASE c # m /\ d # m
    <3>1. c \in Upwards(p, p[m].up) /\ d \in Upwards(p, p[m].up)
      BY <2>2, UpwardsFacts
    <3>2. m # 1
      BY <3>1, UpwardsDefined, TreeFacts
    <3> QED BY <3>1, <3>2
  <2> QED BY <2>1, <2>2
<1>2. DOMAIN p \subseteq S
  <2> HIDE DEF S
  <2> QED BY <1>1, TreeInduction
<1>3. a \in Upwards(p, b) \/ b \in Upwards(p, a)
  BY <1>2
<1>4. ASSUME NEW c \in DOMAIN p, NEW d \in DOMAIN p, c \in Upwards(p, d), p[c].up = p[d].up
      PROVE  c = d
  <2> SUFFICES ASSUME c # d PROVE FALSE
    OBVIOUS
  <2>1. c \in Upwards(p, p[c].up)
    BY <1>4, UpwardsFacts
  <2>2. c = 1
    BY <2>1, UpwardsFacts
  <2>3. p[c].up = 0
    BY <2>2, TreeFacts
  <2> QED BY <2>1, <2>3, UpwardsDefined
<1>5. a \in DOMAIN p /\ b \in DOMAIN p
  BY UpwardsFacts
<1> QED BY <1>3, <1>4, <1>5

(* A node that has another above it has one of that one's parts above it.  *)
LEMMA PartAbove ==
  ASSUME NEW p, Tree(p), NEW n \in DOMAIN p, NEW a \in Upwards(p, n), a # n
  PROVE  \E c \in Below(p, a) : c \in Upwards(p, n)
<1> DEFINE S == {m \in DOMAIN p : \A d \in Upwards(p, m) :
                   d # m => \E c \in Below(p, d) : c \in Upwards(p, m)}
<1>1. \A m \in DOMAIN p : (m = 1 \/ p[m].up \in S) => m \in S
  <2> SUFFICES ASSUME NEW m \in DOMAIN p, m = 1 \/ p[m].up \in S,
                      NEW d \in Upwards(p, m), d # m
               PROVE  \E c \in Below(p, d) : c \in Upwards(p, m)
    OBVIOUS
  <2>1. d \in Upwards(p, p[m].up) /\ m \in Upwards(p, m)
    BY UpwardsFacts
  <2>2. m # 1
    BY <2>1, UpwardsDefined, TreeFacts
  <2>3. p[m].up \in S /\ p[m].up \in DOMAIN p
    BY <2>2
  <2>4. Upwards(p, p[m].up) \subseteq Upwards(p, m)
    BY UpwardsDefined
  <2>5. CASE d = p[m].up
    BY <2>1, <2>5 DEF Below
  <2>6. CASE d # p[m].up
    BY <2>1, <2>3, <2>4, <2>6
  <2> QED BY <2>5, <2>6
<1>2. DOMAIN p \subseteq S
  <2> HIDE DEF S
  <2> QED BY <1>1, TreeInduction
<1> QED BY <1>2

(* A part of a node.                                                       *)
LEMMA PartFacts ==
  ASSUME NEW p, Tree(p), NEW n \in DOMAIN p, NEW c \in Below(p, n)
  PROVE  /\ c \in DOMAIN p /\ p[c].up = n /\ c # 1 /\ n < c /\ c # n
         /\ Upwards(p, c) = {c} \cup Upwards(p, n) /\ c \notin Upwards(p, n)
         /\ Upwards(p, c) \ {c} = Upwards(p, n)
<1>1. c \in DOMAIN p /\ p[c].up = n
  BY DEF Below
<1>2. n \in Nat /\ c \in Nat /\ p[c].up \in 0..(c - 1) /\ n # 0 /\ c # 1
  BY <1>1, TreeFacts
<1>3. Upwards(p, c) = {c} \cup Upwards(p, n) /\ c \notin Upwards(p, n)
  BY <1>1, <1>2, UpwardsDefined, UpwardsFacts
<1> QED BY <1>1, <1>2, <1>3

-----------------------------------------------------------------------------
(* The traversal.                                                          *)

Places(p) == [node : {0} \cup DOMAIN p, entering : BOOLEAN]

(* The nodes in the scopes of which a place is, for the stack.             *)
Path(p, place) ==
  IF place.entering THEN Upwards(p, place.node) \ {place.node} ELSE Upwards(p, place.node)

(* What the traversal has entered at a place: all that is earlier there.   *)
Passed(p, R, m, n) ==
  \E a \in Upwards(p, m), b \in Upwards(p, n) : p[a].up = p[b].up /\ Earlier(p, R, a, b)

Reached(p, R, place) ==
  {m \in DOMAIN p :
     \/ place.node = 0
     \/ m \in Upwards(p, place.node) \ {place.node}
     \/ ~place.entering /\ place.node \in Upwards(p, m)
     \/ Passed(p, R, m, place.node)}

LEMMA ForemostFacts ==
  ASSUME NEW p, Tree(p), NEW R, NEW u, NEW S \in SUBSET Below(p, u), S # {}
  PROVE  /\ Foremost(p, R, S) \in S
         /\ \A b \in S \ {Foremost(p, R, S)} : Earlier(p, R, Foremost(p, R, S), b)
<1>1. S \in SUBSET Nat /\ S \subseteq 1..Len(p) /\ Len(p) \in Nat
  BY TreeFacts DEF Below
<1>2. IsFiniteSet(S)
  <2>1. IsFiniteSet(1..Len(p))
    BY <1>1, FS_Interval
  <2> QED BY <1>1, <2>1, FS_Subset
<1>3. \A a \in S : p[a].up = u
  BY DEF Below
<1>4. \E a \in S : \A b \in S \ {a} : Earlier(p, R, a, b)
  <2>1. CASE u \in R
    <3>1. Max(S) \in S /\ \A y \in S : y <= Max(S)
      BY <1>1, <1>2, MaxFacts
    <3> DEFINE x == Max(S)
    <3> HIDE DEF x
    <3>2. \A b \in S \ {x} : x > b
      <4>1. x \in S /\ x \in Nat /\ \A y \in S : y \in Nat /\ y <= x
        BY <1>1, <3>1 DEF x
      <4> QED BY <4>1
    <3>3. x \in S
      BY <3>1 DEF x
    <3>4. \A b \in S \ {x} : Earlier(p, R, x, b)
      BY <1>3, <2>1, <3>2, <3>3 DEF Earlier
    <3> QED BY <3>3, <3>4
  <2>2. CASE u \notin R
    <3>1. Min(S) \in S /\ \A y \in S : Min(S) <= y
      BY <1>1, <1>2, MinFacts
    <3> DEFINE x == Min(S)
    <3> HIDE DEF x
    <3>2. \A b \in S \ {x} : x < b
      <4>1. x \in S /\ x \in Nat /\ \A y \in S : y \in Nat /\ x <= y
        BY <1>1, <3>1 DEF x
      <4> QED BY <4>1
    <3>3. x \in S
      BY <3>1 DEF x
    <3>4. \A b \in S \ {x} : Earlier(p, R, x, b)
      BY <1>3, <2>2, <3>2, <3>3 DEF Earlier
    <3> QED BY <3>3, <3>4
  <2> QED BY <2>1, <2>2
<1> QED BY <1>4 DEF Foremost

LEMMA EarlierFacts ==
  ASSUME NEW p, Tree(p), NEW R, NEW a \in DOMAIN p, NEW b \in DOMAIN p, p[a].up = p[b].up
  PROVE  /\ ~Earlier(p, R, a, a)
         /\ a # b => Earlier(p, R, a, b) \/ Earlier(p, R, b, a)
         /\ ~(Earlier(p, R, a, b) /\ Earlier(p, R, b, a))
         /\ \A c \in DOMAIN p : p[c].up = p[b].up /\ Earlier(p, R, a, b) /\ Earlier(p, R, b, c)
                                  => Earlier(p, R, a, c)
<1>1. a \in Nat /\ b \in Nat /\ \A c \in DOMAIN p : c \in Nat
  BY TreeFacts
<1>2. \A c \in DOMAIN p : p[c].up = p[b].up /\ Earlier(p, R, a, b) /\ Earlier(p, R, b, c)
                              => Earlier(p, R, a, c)
  BY <1>1 DEF Earlier
<1>3. (a # b => Earlier(p, R, a, b) \/ Earlier(p, R, b, a)) /\ ~Earlier(p, R, a, a)
  BY <1>1 DEF Earlier
<1>4. ~(Earlier(p, R, a, b) /\ Earlier(p, R, b, a))
  BY <1>1 DEF Earlier
<1> QED BY <1>2, <1>3, <1>4

(* What is below a node that has no parts, or has been passed.             *)
LEMMA PassedAlong ==
  ASSUME NEW p, Tree(p), NEW R, NEW n \in DOMAIN p, NEW c \in Below(p, n), NEW m \in DOMAIN p
  PROVE  Passed(p, R, m, c) <=>
           \/ Passed(p, R, m, n)
           \/ \E a \in Upwards(p, m) : a \in Below(p, n) /\ Earlier(p, R, a, c)
<1>1. Upwards(p, c) = {c} \cup Upwards(p, n) /\ p[c].up = n
  BY PartFacts
<1>2. \A a \in Upwards(p, m) : a \in Below(p, n) <=> p[a].up = p[c].up
  BY <1>1, UpwardsFacts DEF Below
<1> QED BY <1>1, <1>2 DEF Passed

LEMMA NotPassed ==
  ASSUME NEW p, Tree(p), NEW R, NEW n \in DOMAIN p
  PROVE  ~Passed(p, R, n, n)
<1> SUFFICES ASSUME NEW a \in Upwards(p, n), NEW b \in Upwards(p, n),
                    p[a].up = p[b].up, Earlier(p, R, a, b)
             PROVE  FALSE
  BY DEF Passed
<1>1. a = b
  BY ChainFacts
<1>2. a \in DOMAIN p
  BY UpwardsFacts
<1> QED BY <1>1, <1>2, EarlierFacts

(* A step of the traversal enters the node it is at, on the way in, and    *)
(* nothing on the way out.                                                 *)
Advances(p, R, place, next) ==
  /\ next \in Places(p)
  /\ Reached(p, R, next) = IF place.entering THEN Reached(p, R, place) \cup {place.node}
                                             ELSE Reached(p, R, place)
  /\ next.node # 0 => Path(p, next) = IF place.entering THEN Upwards(p, place.node)
                                      ELSE Upwards(p, place.node) \ {place.node}
  /\ place.entering => place.node \notin Reached(p, R, place)

LEMMA IntoParts ==
  ASSUME NEW p, Tree(p), NEW R, NEW n \in DOMAIN p, Below(p, n) # {},
         NEW place, place = [node |-> n, entering |-> TRUE]
  PROVE  Advances(p, R, place, Onwards(p, place, R))
<1> DEFINE c == Foremost(p, R, Below(p, n))
           next == [node |-> c, entering |-> TRUE]
<1>1. Onwards(p, place, R) = next
  BY DEF Onwards
<1>2. c \in Below(p, n) /\ \A b \in Below(p, n) \ {c} : Earlier(p, R, c, b)
  BY ForemostFacts
<1> HIDE DEF c
<1>3. /\ c \in DOMAIN p /\ p[c].up = n /\ c # 0 /\ Upwards(p, c) \ {c} = Upwards(p, n)
      /\ n # 0
  BY <1>2, PartFacts, TreeFacts
<1>4. \A b \in Below(p, n) : ~Earlier(p, R, b, c)
  <2> SUFFICES ASSUME NEW b \in Below(p, n), Earlier(p, R, b, c) PROVE FALSE
    OBVIOUS
  <2>1. b \in DOMAIN p /\ p[b].up = p[c].up
    BY <1>3 DEF Below
  <2>2. b # c
    BY <1>3, EarlierFacts
  <2>3. Earlier(p, R, c, b)
    BY <1>2, <2>2
  <2> QED BY <1>3, <2>1, <2>3, EarlierFacts
<1>5. \A m \in DOMAIN p : Passed(p, R, m, c) <=> Passed(p, R, m, n)
  BY <1>2, <1>4, PassedAlong
<1>6. n \in Upwards(p, n)
  BY UpwardsFacts
<1>7. Reached(p, R, next) = Reached(p, R, place) \cup {n}
  BY <1>3, <1>5, <1>6 DEF Reached
<1>8. n \notin Reached(p, R, place)
  BY <1>3, NotPassed DEF Reached
<1>9. next \in Places(p) /\ Path(p, next) = Upwards(p, n)
  BY <1>3 DEF Places, Path
<1> QED BY <1>1, <1>7, <1>8, <1>9 DEF Advances

LEMMA TurnsBack ==
  ASSUME NEW p, Tree(p), NEW R, NEW n \in DOMAIN p, Below(p, n) = {},
         NEW place, place = [node |-> n, entering |-> TRUE]
  PROVE  Advances(p, R, place, Onwards(p, place, R))
<1> DEFINE next == [node |-> n, entering |-> FALSE]
<1>1. Onwards(p, place, R) = next
  BY DEF Onwards
<1>2. \A m \in DOMAIN p : n \in Upwards(p, m) <=> m = n
  BY PartAbove, UpwardsFacts
<1>3. n # 0
  BY TreeFacts
<1>4. Reached(p, R, next) = Reached(p, R, place) \cup {n}
  BY <1>2, <1>3 DEF Reached
<1>5. n \notin Reached(p, R, place)
  BY <1>3, NotPassed DEF Reached
<1>6. next \in Places(p) /\ Path(p, next) = Upwards(p, n)
  BY DEF Places, Path
<1> QED BY <1>1, <1>4, <1>5, <1>6 DEF Advances

LEMMA ToSibling ==
  ASSUME NEW p, Tree(p), NEW R, NEW n \in DOMAIN p,
         {m \in Below(p, p[n].up) : Earlier(p, R, n, m)} # {},
         NEW place, place = [node |-> n, entering |-> FALSE]
  PROVE  Advances(p, R, place, Onwards(p, place, R))
<1> DEFINE later == {m \in Below(p, p[n].up) : Earlier(p, R, n, m)}
           s == Foremost(p, R, later)
           u == p[n].up
           next == [node |-> s, entering |-> TRUE]
<1>1. Onwards(p, place, R) = next
  BY DEF Onwards
<1>2. s \in later /\ \A b \in later \ {s} : Earlier(p, R, s, b)
  BY ForemostFacts
<1>3. s \in Below(p, u) /\ Earlier(p, R, n, s)
  BY <1>2
<1>4. u \in DOMAIN p /\ n \in Below(p, u)
  <2>1. s \in DOMAIN p /\ p[s].up = u
    BY <1>3 DEF Below
  <2>2. n # s
    BY <1>3, EarlierFacts
  <2>3. n # 1
    BY <2>1, <2>2, TreeFacts
  <2> QED BY <2>3, TreeFacts DEF Below
<1> DEFINE Before(b) == Earlier(p, R, b, s)
<1>5. \A b \in Below(p, u) : Earlier(p, R, b, s) <=> (b = n \/ Earlier(p, R, b, n))
  <2> SUFFICES ASSUME NEW b \in Below(p, u)
               PROVE  Earlier(p, R, b, s) <=> (b = n \/ Earlier(p, R, b, n))
    OBVIOUS
  <2>1. b \in DOMAIN p /\ s \in DOMAIN p /\ p[b].up = u /\ p[s].up = u
    BY <1>3 DEF Below
  <2>2. ASSUME Earlier(p, R, b, n) PROVE Earlier(p, R, b, s)
    BY <1>3, <2>1, <2>2, EarlierFacts
  <2>3. ASSUME Earlier(p, R, b, s), b # n, ~Earlier(p, R, b, n) PROVE FALSE
    <3>1. Earlier(p, R, n, b)
      BY <2>1, <2>3, EarlierFacts
    <3>2. b \in later /\ b # s
      BY <2>1, <2>3, <3>1, EarlierFacts
    <3>3. Earlier(p, R, s, b)
      BY <1>2, <3>2
    <3> QED BY <2>1, <2>3, <3>3, EarlierFacts
  <2> QED BY <1>3, <2>2, <2>3
<1>6. n # 0 /\ n \in Upwards(p, n)
  BY TreeFacts, UpwardsFacts
<1> HIDE DEF s, later, u
<1>7. /\ s \in DOMAIN p /\ s # 0 /\ Upwards(p, s) \ {s} = Upwards(p, u)
      /\ Upwards(p, n) \ {n} = Upwards(p, u) /\ n # 0 /\ n \in Upwards(p, n)
  <2>1. s \in DOMAIN p /\ Upwards(p, s) \ {s} = Upwards(p, u)
    BY <1>3, <1>4, PartFacts
  <2>2. Upwards(p, n) \ {n} = Upwards(p, u)
    BY <1>4, PartFacts
  <2>3. s # 0
    BY <2>1, TreeFacts
  <2> QED BY <1>6, <2>1, <2>2, <2>3
<1>8. \A m \in DOMAIN p : Passed(p, R, m, s) <=> (Passed(p, R, m, n) \/ n \in Upwards(p, m))
  <2> SUFFICES ASSUME NEW m \in DOMAIN p
               PROVE  Passed(p, R, m, s) <=> (Passed(p, R, m, n) \/ n \in Upwards(p, m))
    OBVIOUS
  <2>1. Passed(p, R, m, s) <=>
          \/ Passed(p, R, m, u)
          \/ \E a \in Upwards(p, m) : a \in Below(p, u) /\ Earlier(p, R, a, s)
    BY <1>3, <1>4, PassedAlong
  <2>2. Passed(p, R, m, n) <=>
          \/ Passed(p, R, m, u)
          \/ \E a \in Upwards(p, m) : a \in Below(p, u) /\ Earlier(p, R, a, n)
    BY <1>4, PassedAlong
  <2> QED BY <1>4, <1>5, <2>1, <2>2
<1>9. Reached(p, R, next) = Reached(p, R, place)
  BY <1>7, <1>8 DEF Reached
<1>10. next \in Places(p) /\ Path(p, next) = Upwards(p, n) \ {n}
  BY <1>7 DEF Places, Path
<1> QED BY <1>1, <1>9, <1>10 DEF Advances

LEMMA ToParent ==
  ASSUME NEW p, Tree(p), NEW R, NEW n \in DOMAIN p,
         {m \in Below(p, p[n].up) : Earlier(p, R, n, m)} = {},
         NEW place, place = [node |-> n, entering |-> FALSE]
  PROVE  Advances(p, R, place, Onwards(p, place, R))
<1> DEFINE u == p[n].up
           next == [node |-> u, entering |-> FALSE]
<1>1. Onwards(p, place, R) = next
  BY DEF Onwards
<1>2. n # 0 /\ n \in Upwards(p, n) /\ (u = 0 <=> n = 1) /\ u \in {0} \cup DOMAIN p
  BY TreeFacts, UpwardsFacts
<1>3. CASE u = 0
  <2>1. \A m \in DOMAIN p : n \in Upwards(p, m)
    BY <1>2, <1>3, UpwardsFacts
  <2>2. Reached(p, R, next) = Reached(p, R, place)
    BY <1>2, <1>3, <2>1 DEF Reached
  <2>3. next \in Places(p)
    BY <1>3 DEF Places
  <2> QED BY <1>1, <1>3, <2>2, <2>3 DEF Advances
<1>4. CASE u # 0
  <2>1. u \in DOMAIN p /\ n \in Below(p, u)
    BY <1>2, <1>4 DEF Below
  <2>2. Upwards(p, n) \ {n} = Upwards(p, u) /\ u \in Upwards(p, u) /\ Upwards(p, n) = {n} \cup Upwards(p, u)
    BY <2>1, PartFacts, UpwardsFacts
  <2>3. \A b \in Below(p, u) : b = n \/ Earlier(p, R, b, n)
    <3> SUFFICES ASSUME NEW b \in Below(p, u), b # n, ~Earlier(p, R, b, n) PROVE FALSE
      OBVIOUS
    <3>1. b \in DOMAIN p /\ p[b].up = p[n].up
      BY DEF Below
    <3>2. Earlier(p, R, n, b)
      BY <3>1, EarlierFacts
    <3> QED BY <3>2
  <2> HIDE DEF u
  <2>4. \A m \in DOMAIN p : u \in Upwards(p, m) <=>
          (m = u \/ \E a \in Upwards(p, m) : a \in Below(p, u))
    <3> SUFFICES ASSUME NEW m \in DOMAIN p
                 PROVE  u \in Upwards(p, m) <=> (m = u \/ \E a \in Upwards(p, m) : a \in Below(p, u))
      OBVIOUS
    <3>1. ASSUME u \in Upwards(p, m), m # u PROVE \E a \in Upwards(p, m) : a \in Below(p, u)
      BY <2>1, <3>1, PartAbove
    <3>2. ASSUME NEW a \in Upwards(p, m), a \in Below(p, u) PROVE u \in Upwards(p, m)
      <4>1. u \in Upwards(p, a)
        BY <2>1, <2>2, <3>2, PartFacts
      <4> QED BY <4>1, UpwardsFacts
    <3>3. m \in Upwards(p, m)
      BY UpwardsFacts
    <3> QED BY <3>1, <3>2, <3>3
  <2>5. \A m \in DOMAIN p : Passed(p, R, m, n) <=>
          \/ Passed(p, R, m, u)
          \/ \E a \in Upwards(p, m) : a \in Below(p, u) /\ Earlier(p, R, a, n)
    BY <2>1, PassedAlong
  <2>6. \A m \in DOMAIN p :
          (m \in Upwards(p, u) \ {u} \/ u \in Upwards(p, m) \/ Passed(p, R, m, u)) <=>
          (m \in Upwards(p, u) \/ n \in Upwards(p, m) \/ Passed(p, R, m, n))
    BY <2>1, <2>2, <2>3, <2>4, <2>5
  <2>7. Reached(p, R, next) = Reached(p, R, place)
    BY <1>2, <1>4, <2>2, <2>6 DEF Reached
  <2>8. next \in Places(p) /\ Path(p, next) = Upwards(p, n) \ {n}
    BY <2>1, <2>2 DEF Places, Path
  <2> QED BY <1>1, <2>7, <2>8 DEF Advances, u
<1> QED BY <1>3, <1>4

LEMMA OnwardsFacts ==
  ASSUME NEW p, Tree(p), NEW R, NEW place \in Places(p), place.node # 0
  PROVE  Advances(p, R, place, Onwards(p, place, R))
<1>1. PICK n \in DOMAIN p, e \in BOOLEAN : place = [node |-> n, entering |-> e]
  BY DEF Places
<1>2. CASE e
  BY <1>1, <1>2, IntoParts, TurnsBack
<1>3. CASE ~e
  BY <1>1, <1>3, ToSibling, ToParent
<1> QED BY <1>2, <1>3

-----------------------------------------------------------------------------
(* The arms.                                                               *)

(* The nodes that can be arms: the file, and those that a counter tells.   *)
ArmNodes(p) ==
  {m \in DOMAIN p : \/ m = 1 \/ m \in CountersIn(p)
                    \/ p[m].kind = "Logical" /\ m # 1 /\ p[p[m].up].kind # "Function"}

(* The arms that a node emits: itself, a function, or what is below it.    *)
Own(p, n) ==
  {m \in ArmNodes(p) : IF m = n THEN p[n].kind \in Scopes ELSE n \in Upwards(p, m)}

Constructs == {"FnEntry", "If", "Switch", "Conditional", "Logical", "Loop", "Try"}

ArmsAt(p, S)   == {Arm(p, m, k, i) : m \in S, k \in Constructs, i \in Nat}
PointsAt(p, S) == {Continuation(p, m, k, i) : m \in S, k \in Constructs, i \in Nat}

LEMMA SetToSeqFacts ==
  ASSUME NEW T, NEW S \in SUBSET T, IsFiniteSet(S)
  PROVE  SetToSeq(S) \in Seq(T)
<1>1. PICK n \in Nat : ExistsBijection(1..n, S)
  BY FS_NatBijection
<1>2. Cardinality(S) = n
  BY <1>1, FS_CountingElements
<1>3. PICK f : f \in Bijection(1..n, S)
  BY <1>1 DEF ExistsBijection
<1>4. f \in [1..n -> S] /\ IsInjective(f)
  BY <1>3 DEF Bijection, Injection, IsInjective
<1>5. SetToSeq(S) \in [1..n -> S]
  BY <1>2, <1>4 DEF SetToSeq
<1>6. SetToSeq(S) \in Seq(S)
  BY <1>5, FunctionIsSeq
<1> QED BY <1>6, SeqDef

LEMMA ArmsInOrder ==
  ASSUME NEW p, Tree(p), NEW A, NEW S \in SUBSET A, S \subseteq DOMAIN p,
         NEW kind \in Constructs, NEW index \in [S -> Nat]
  PROVE  SetToSeq({Arm(p, m, kind, index[m]) : m \in S}) \in Seq(ArmsAt(p, A))
<1> DEFINE T == {Arm(p, m, kind, index[m]) : m \in S}
           f == [m \in S |-> Arm(p, m, kind, index[m])]
<1>1. IsFiniteSet(S)
  <2>1. Len(p) \in Nat /\ DOMAIN p = 1..Len(p)
    BY TreeFacts
  <2>2. IsFiniteSet(1..Len(p))
    BY <2>1, FS_Interval
  <2> QED BY <2>1, <2>2, FS_Subset
<1>2. f \in Surjection(S, T)
  BY DEF Surjection
<1>3. T \subseteq ArmsAt(p, A)
  BY DEF ArmsAt
<1> HIDE DEF T, f
<1>4. IsFiniteSet(T)
  BY <1>1, <1>2, FS_Surjection
<1>5. SetToSeq(T) \in Seq(ArmsAt(p, A))
  BY <1>3, <1>4, SetToSeqFacts
<1> QED BY <1>5 DEF T

LEMMA PartArms ==
  ASSUME NEW p, Tree(p), NEW A, NEW n \in DOMAIN p, NEW slot, NEW kind \in Constructs, NEW index \in Nat,
         At(p, n, {slot}) \subseteq A
  PROVE  Part(p, n, slot, kind, index) \in Seq(ArmsAt(p, A))
<1> DEFINE S == At(p, n, {slot})
           f == [m \in S |-> index]
<1>1. S \subseteq DOMAIN p
  BY DEF At, Below
<1>2. {Arm(p, m, kind, f[m]) : m \in S} = {Arm(p, m, kind, index) : m \in S}
  OBVIOUS
<1>3. SetToSeq({Arm(p, m, kind, f[m]) : m \in S}) \in Seq(ArmsAt(p, A))
  <2>1. f \in [S -> Nat] /\ S \in SUBSET A
    OBVIOUS
  <2> HIDE DEF f, S
  <2> QED BY <1>1, <2>1, ArmsInOrder
<1> QED BY <1>2, <1>3 DEF Part

(* The visitors of BranchExtractor, construct by construct.                *)
Handlers(p, n) == UNION {At(p, m, {"body"}) : m \in At(p, n, {"handler"})}
Catching(p, n) == SetToSeq({Arm(p, m, "Try", 1) : m \in Handlers(p, n)})
Selected(p, n)  == SetToSeq({Arm(p, m, "Switch", Cardinality(Prev(p, m))) : m \in Below(p, n)})

LEMMA VisitorCases ==
  ASSUME NEW p, NEW n
  PROVE  /\ p[n].kind \in Scopes => ArmsOnEnter(p, n) = <<Arm(p, n, "FnEntry", 0)>>
         /\ p[n].kind = "If" => ArmsOnEnter(p, n) =
              Part(p, n, "consequent", "If", 0) \o Part(p, n, "alternate", "If", 1)
         /\ p[n].kind = "Conditional" => ArmsOnEnter(p, n) =
              Part(p, n, "consequent", "Conditional", 0) \o Part(p, n, "alternate", "Conditional", 1)
         /\ p[n].kind = "Logical" => ArmsOnEnter(p, n) =
              Part(p, n, "left", "Logical", 0) \o Part(p, n, "right", "Logical", 1)
         /\ p[n].kind \in Loops => ArmsOnEnter(p, n) = Part(p, n, "body", "Loop", 0)
         /\ p[n].kind = "Switch" => ArmsOnEnter(p, n) = Selected(p, n)
         /\ p[n].kind = "Try" => ArmsOnEnter(p, n) =
              Part(p, n, "block", "Try", 0) \o Catching(p, n) \o Part(p, n, "finalizer", "Try", 2)
         /\ p[n].kind \notin Scopes \cup {"If", "Conditional", "Logical", "Switch", "Try"} \cup Loops
              => ArmsOnEnter(p, n) = <<>>
<1>1. p[n].kind \in Scopes => ArmsOnEnter(p, n) = <<Arm(p, n, "FnEntry", 0)>>
  BY DEF ArmsOnEnter, Scopes, Loops
<1>2. p[n].kind = "If" => ArmsOnEnter(p, n) =
        Part(p, n, "consequent", "If", 0) \o Part(p, n, "alternate", "If", 1)
  BY DEF ArmsOnEnter, Loops, Scopes
<1>3. p[n].kind = "Conditional" => ArmsOnEnter(p, n) =
        Part(p, n, "consequent", "Conditional", 0) \o Part(p, n, "alternate", "Conditional", 1)
  BY DEF ArmsOnEnter, Loops, Scopes
<1>4. p[n].kind = "Logical" => ArmsOnEnter(p, n) =
        Part(p, n, "left", "Logical", 0) \o Part(p, n, "right", "Logical", 1)
  BY DEF ArmsOnEnter, Loops, Scopes
<1>5. p[n].kind \in Loops => ArmsOnEnter(p, n) = Part(p, n, "body", "Loop", 0)
  BY DEF ArmsOnEnter, Loops, Scopes
<1>6. p[n].kind = "Switch" => ArmsOnEnter(p, n) = Selected(p, n)
  BY DEF ArmsOnEnter, Loops, Scopes, Selected
<1>7. p[n].kind = "Try" => ArmsOnEnter(p, n) =
        Part(p, n, "block", "Try", 0) \o Catching(p, n) \o Part(p, n, "finalizer", "Try", 2)
  BY DEF ArmsOnEnter, Loops, Catching, Handlers
<1>8. p[n].kind \notin Scopes \cup {"If", "Conditional", "Logical", "Switch", "Try"} \cup Loops
        => ArmsOnEnter(p, n) = <<>>
  BY DEF ArmsOnEnter, Loops, Scopes
<1> QED BY <1>1, <1>2, <1>3, <1>4, <1>5, <1>6, <1>7, <1>8

LEMMA SelectedArms ==
  ASSUME NEW p, Tree(p), NEW A, NEW n \in DOMAIN p, Below(p, n) \subseteq A
  PROVE  Selected(p, n) \in Seq(ArmsAt(p, A))
<1> DEFINE S == Below(p, n)
           index == [m \in S |-> Cardinality(Prev(p, m))]
<1>1. index \in [S -> Nat]
  <2> SUFFICES ASSUME NEW m \in S PROVE Cardinality(Prev(p, m)) \in Nat
    OBVIOUS
  <2>1. Len(p) \in Nat /\ Prev(p, m) \subseteq 1..Len(p)
    BY TreeFacts DEF Prev, Below
  <2>2. IsFiniteSet(1..Len(p))
    BY <2>1, FS_Interval
  <2> QED BY <2>1, <2>2, FS_Subset, FS_CardinalityType
<1>2. Selected(p, n) = SetToSeq({Arm(p, m, "Switch", index[m]) : m \in S})
  <2>1. {Arm(p, m, "Switch", Cardinality(Prev(p, m))) : m \in S}
          = {Arm(p, m, "Switch", index[m]) : m \in S}
    OBVIOUS
  <2> QED BY <2>1 DEF Selected
<1>3. S \in SUBSET A /\ S \subseteq DOMAIN p /\ "Switch" \in Constructs
  BY DEF Below, Constructs
<1> HIDE DEF index, S
<1>4. SetToSeq({Arm(p, m, "Switch", index[m]) : m \in S}) \in Seq(ArmsAt(p, A))
  BY <1>1, <1>3, ArmsInOrder
<1> QED BY <1>2, <1>4

LEMMA CatchingArms ==
  ASSUME NEW p, Tree(p), NEW A, NEW n \in DOMAIN p, Handlers(p, n) \subseteq A, A \subseteq DOMAIN p
  PROVE  Catching(p, n) \in Seq(ArmsAt(p, A))
<1> DEFINE S == Handlers(p, n)
           index == [m \in S |-> 1]
<1>1. index \in [S -> Nat] /\ S \in SUBSET A /\ S \subseteq DOMAIN p /\ "Try" \in Constructs
  BY DEF Constructs
<1>2. {Arm(p, m, "Try", 1) : m \in S} = {Arm(p, m, "Try", index[m]) : m \in S}
  OBVIOUS
<1> HIDE DEF index, S
<1>3. SetToSeq({Arm(p, m, "Try", index[m]) : m \in S}) \in Seq(ArmsAt(p, A))
  BY <1>1, ArmsInOrder
<1> QED BY <1>2, <1>3 DEF Catching, S

(* Whatever the visitors of BranchExtractor emit on the way in.            *)
LEMMA ArmsOnEnterFacts ==
  ASSUME NEW p, Tree(p), Grammar(p), NEW n \in DOMAIN p
  PROVE  ArmsOnEnter(p, n) \in Seq(ArmsAt(p, Own(p, n)))
<1> DEFINE A == Own(p, n)
           kind == p[n].kind
<1>1. \A m \in Below(p, n) : /\ m \in DOMAIN p /\ m \in 2..Len(p) /\ m # n /\ m # 1 /\ n \in Upwards(p, m)
                             /\ p[m].up = n
  <2> SUFFICES ASSUME NEW m \in Below(p, n)
               PROVE  /\ m \in DOMAIN p /\ m \in 2..Len(p) /\ m # n /\ m # 1 /\ n \in Upwards(p, m)
                      /\ p[m].up = n
    OBVIOUS
  <2>1. m \in DOMAIN p /\ m # n /\ m # 1 /\ p[m].up = n /\ Upwards(p, m) = {m} \cup Upwards(p, n)
    BY PartFacts
  <2>2. n \in Upwards(p, n) /\ DOMAIN p = 1..Len(p) /\ Len(p) \in Nat
    BY UpwardsFacts, TreeFacts
  <2> QED BY <2>1, <2>2
<1>2. /\ At(p, n, {"consequent"}) \subseteq CountersIn(p)
      /\ At(p, n, {"alternate"}) \subseteq CountersIn(p)
      /\ At(p, n, {"block"}) \subseteq CountersIn(p)
      /\ At(p, n, {"finalizer"}) \subseteq CountersIn(p)
      /\ kind \in Loops => At(p, n, {"body"}) \subseteq CountersIn(p)
  BY <1>1 DEF At, CountersIn, Kinds
<1>3. At(p, n, {"consequent"}) \subseteq A /\ At(p, n, {"alternate"}) \subseteq A
  BY <1>1, <1>2 DEF At, Own, ArmNodes
<1>4. At(p, n, {"block"}) \subseteq A /\ At(p, n, {"finalizer"}) \subseteq A
  BY <1>1, <1>2 DEF At, Own, ArmNodes
<1>5. kind \in Loops => At(p, n, {"body"}) \subseteq A
  BY <1>1, <1>2 DEF At, Own, ArmNodes
<1>6. kind = "Logical" => At(p, n, {"left"}) \subseteq A /\ At(p, n, {"right"}) \subseteq A
  BY <1>1 DEF At, Own, ArmNodes, CountersIn
<1>7. kind = "Switch" => Below(p, n) \subseteq A
  BY <1>1 DEF Grammar, Own, ArmNodes, CountersIn
<1>8. ASSUME kind \in Scopes PROVE n \in A
  <2>1. kind = "Program" => n = 1
    <3>1. n = 1 \/ n \in 2..Len(p)
      BY TreeFacts
    <3> QED BY <3>1 DEF Grammar
  <2> QED BY <1>8, <2>1 DEF Own, ArmNodes, CountersIn, Scopes
<1>9. Handlers(p, n) \subseteq A /\ A \subseteq DOMAIN p
  <2> SUFFICES ASSUME NEW m \in At(p, n, {"handler"}), NEW q \in At(p, m, {"body"})
               PROVE  q \in A
    BY DEF Handlers, Own, ArmNodes
  <2>1. m \in Below(p, n) /\ p[m].slot = "handler" /\ q \in Below(p, m) /\ p[q].slot = "body"
    BY DEF At
  <2>2. m \in DOMAIN p /\ m \in 2..Len(p) /\ n \in Upwards(p, m)
    BY <1>1, <2>1
  <2>3. p[m].kind = "Catch"
    BY <2>1, <2>2 DEF Grammar
  <2>4. q \in DOMAIN p /\ p[q].up = m /\ Upwards(p, q) = {q} \cup Upwards(p, m) /\ q \notin Upwards(p, m)
    BY <2>1, <2>2, PartFacts
  <2>5. q \in CountersIn(p)
    BY <2>1, <2>3, <2>4 DEF CountersIn
  <2> QED BY <2>2, <2>4, <2>5 DEF Own, ArmNodes
<1> HIDE DEF A
<1> DEFINE T == ArmsAt(p, A)
<1>10. \A s, t \in Seq(T) : s \o t \in Seq(T)
  BY ConcatProperties
<1> HIDE DEF T
<1>11. CASE kind \in Scopes
  <2>1. Arm(p, n, "FnEntry", 0) \in T
    BY <1>8, <1>11 DEF ArmsAt, Constructs, T
  <2>2. ArmsOnEnter(p, n) = <<Arm(p, n, "FnEntry", 0)>>
    BY <1>11, VisitorCases
  <2> QED BY <2>1, <2>2 DEF A, T
<1>12. CASE kind = "If"
  <2>1. Part(p, n, "consequent", "If", 0) \in Seq(T) /\ Part(p, n, "alternate", "If", 1) \in Seq(T)
    BY <1>3, PartArms DEF Constructs, T
  <2> QED BY <1>10, <1>12, <2>1, VisitorCases DEF A, T
<1>13. CASE kind = "Conditional"
  <2>1. /\ Part(p, n, "consequent", "Conditional", 0) \in Seq(T)
        /\ Part(p, n, "alternate", "Conditional", 1) \in Seq(T)
    BY <1>3, PartArms DEF Constructs, T
  <2> QED BY <1>10, <1>13, <2>1, VisitorCases DEF A, T
<1>14. CASE kind = "Logical"
  <2>1. Part(p, n, "left", "Logical", 0) \in Seq(T) /\ Part(p, n, "right", "Logical", 1) \in Seq(T)
    BY <1>6, <1>14, PartArms DEF Constructs, T
  <2> QED BY <1>10, <1>14, <2>1, VisitorCases DEF A, T
<1>15. CASE kind \in Loops
  <2>1. Part(p, n, "body", "Loop", 0) \in Seq(T)
    BY <1>5, <1>15, PartArms DEF Constructs, T
  <2> QED BY <1>15, <2>1, VisitorCases DEF A, T
<1>16. CASE kind = "Switch"
  <2>1. Selected(p, n) \in Seq(T)
    BY <1>7, <1>16, SelectedArms DEF T
  <2> QED BY <1>16, <2>1, VisitorCases DEF A, T
<1>17. CASE kind = "Try"
  <2>1. Part(p, n, "block", "Try", 0) \in Seq(T) /\ Part(p, n, "finalizer", "Try", 2) \in Seq(T)
    BY <1>4, PartArms DEF Constructs, T
  <2>2. Catching(p, n) \in Seq(T)
    BY <1>9, CatchingArms DEF T
  <2>3. Part(p, n, "block", "Try", 0) \o Catching(p, n) \in Seq(T)
    BY <1>10, <2>1, <2>2
  <2> QED BY <1>10, <1>17, <2>1, <2>3, VisitorCases DEF A, T
<1>18. CASE kind \notin Scopes \cup {"If", "Conditional", "Logical", "Switch", "Try"} \cup Loops
  <2>1. ArmsOnEnter(p, n) = <<>>
    BY <1>18, VisitorCases
  <2> QED BY <2>1, EmptySeq DEF A
<1> QED BY <1>11, <1>12, <1>13, <1>14, <1>15, <1>16, <1>17, <1>18

-----------------------------------------------------------------------------
(* The stack of functions and the traversal.                               *)

(* The functions in U, deepest first.                                      *)
Stacked(p, stack, U) ==
  /\ stack \in Seq(DOMAIN p)
  /\ \A i, j \in DOMAIN stack : i < j => stack[j] < stack[i]
  /\ {stack[i] : i \in DOMAIN stack} = {m \in U : p[m].kind \in Scopes}

LEMMA Pushes ==
  ASSUME NEW p, Tree(p), NEW n \in DOMAIN p, NEW U \in SUBSET DOMAIN p, \A m \in U : m < n,
         NEW stack, Stacked(p, stack, U)
  PROVE  Stacked(p, Pushed(p, n, stack), U \cup {n})
<1>1. CASE p[n].kind \in Scopes
  <2> DEFINE new == <<n>> \o stack
  <2>1. stack \in Seq(DOMAIN p) /\ <<n>> \in Seq(DOMAIN p) /\ Len(<<n>>) = 1 /\ <<n>>[1] = n
    BY DEF Stacked
  <2>2. /\ new \in Seq(DOMAIN p) /\ Len(stack) \in Nat
        /\ DOMAIN new = 1..(1 + Len(stack))
        /\ \A i \in 1..1 : new[i] = <<n>>[i]
        /\ \A i \in 1..Len(stack) : new[1 + i] = stack[i]
    BY <2>1, Concatenated
  <2>3. DOMAIN stack = 1..Len(stack)
    BY <2>1, LenProperties
  <2> HIDE DEF new
  <2>4. new[1] = n /\ \A i \in 2..(1 + Len(stack)) : i - 1 \in DOMAIN stack /\ new[i] = stack[i - 1]
    <3>1. \A i \in 2..(1 + Len(stack)) : i - 1 \in 1..Len(stack) /\ 1 + (i - 1) = i
      BY <2>2
    <3>2. \A i \in 2..(1 + Len(stack)) : new[1 + (i - 1)] = stack[i - 1]
      BY <2>2, <3>1
    <3> QED BY <2>1, <2>2, <2>3, <3>1, <3>2
  <2>5. \A i \in DOMAIN stack : stack[i] \in U /\ stack[i] < n
    BY DEF Stacked
  <2>6. \A i, j \in DOMAIN new : i < j => new[j] < new[i]
    <3> SUFFICES ASSUME NEW i \in 1..(1 + Len(stack)), NEW j \in 1..(1 + Len(stack)), i < j
                 PROVE  new[j] < new[i]
      BY <2>2
    <3>1. j \in 2..(1 + Len(stack))
      BY <2>2
    <3>2. CASE i = 1
      BY <2>4, <2>5, <3>1, <3>2
    <3>3. CASE i # 1
      <4>1. i \in 2..(1 + Len(stack)) /\ i - 1 < j - 1
        BY <2>2, <3>3
      <4>2. stack[j - 1] < stack[i - 1]
        BY <2>4, <3>1, <4>1 DEF Stacked
      <4> QED BY <2>4, <3>1, <4>1, <4>2
    <3> QED BY <3>2, <3>3
  <2>7. {new[i] : i \in DOMAIN new} = {n} \cup {stack[i] : i \in DOMAIN stack}
    <3>1. ASSUME NEW i \in DOMAIN new PROVE new[i] \in {n} \cup {stack[k] : k \in DOMAIN stack}
      <4>1. i = 1 \/ i \in 2..(1 + Len(stack))
        BY <2>2
      <4> QED BY <2>4, <4>1
    <3>2. ASSUME NEW i \in DOMAIN stack PROVE \E k \in DOMAIN new : new[k] = stack[i]
      <4>1. 1 + i \in DOMAIN new /\ new[1 + i] = stack[i]
        BY <2>2, <2>3
      <4> QED BY <4>1
    <3>3. 1 \in DOMAIN new
      BY <2>2
    <3> QED BY <2>4, <3>1, <3>2, <3>3
  <2>8. {m \in U \cup {n} : p[m].kind \in Scopes} = {n} \cup {m \in U : p[m].kind \in Scopes}
    BY <1>1
  <2>9. Pushed(p, n, stack) = new
    BY <1>1 DEF Pushed, new
  <2>10. {stack[i] : i \in DOMAIN stack} = {m \in U : p[m].kind \in Scopes}
    BY DEF Stacked
  <2>11. {new[i] : i \in DOMAIN new} = {m \in U \cup {n} : p[m].kind \in Scopes}
    BY <2>7, <2>8, <2>10
  <2> QED BY <2>2, <2>6, <2>9, <2>11 DEF Stacked
<1>2. CASE p[n].kind \notin Scopes
  <2>1. {m \in U \cup {n} : p[m].kind \in Scopes} = {m \in U : p[m].kind \in Scopes}
    BY <1>2
  <2> QED BY <1>2, <2>1 DEF Stacked, Pushed
<1> QED BY <1>1, <1>2

LEMMA TopOfStack ==
  ASSUME NEW p, NEW U, NEW n \in U, \A m \in U : m <= n /\ m \in Nat,
         NEW stack, Stacked(p, stack, U), p[n].kind \in Scopes
  PROVE  stack # <<>> /\ Head(stack) = n
<1>1. stack \in Seq(DOMAIN p) /\ Len(stack) \in Nat /\ DOMAIN stack = 1..Len(stack)
  BY LenProperties DEF Stacked
<1>2. PICK i \in 1..Len(stack) : stack[i] = n
  BY <1>1 DEF Stacked
<1>3. stack # <<>> /\ 1 \in 1..Len(stack) /\ Head(stack) = stack[1]
  BY <1>1, <1>2, HeadTailProperties
<1>4. stack[1] \in U
  BY <1>1, <1>3 DEF Stacked
<1>5. i = 1
  <2> SUFFICES ASSUME i # 1 PROVE FALSE
    OBVIOUS
  <2>1. stack[i] < stack[1]
    BY <1>1, <1>3 DEF Stacked
  <2>2. stack[1] <= n /\ stack[1] \in Nat /\ n \in Nat
    BY <1>4
  <2> QED BY <1>2, <2>1, <2>2
<1> QED BY <1>2, <1>3, <1>5

LEMMA Pops ==
  ASSUME NEW p, NEW U, NEW n \in U, \A m \in U : m <= n /\ m \in Nat,
         NEW stack, Stacked(p, stack, U)
  PROVE  Stacked(p, Popped(p, n, stack), U \ {n})
<1>1. CASE p[n].kind \in Scopes
  <2> DEFINE new == Tail(stack)
  <2>1. stack \in Seq(DOMAIN p) /\ stack # <<>> /\ Head(stack) = n
    BY <1>1, TopOfStack DEF Stacked
  <2>2. Len(stack) \in Nat /\ DOMAIN stack = 1..Len(stack) /\ stack[1] = n
    BY <2>1, LenProperties, HeadTailProperties
  <2>3. /\ new \in Seq(DOMAIN p) /\ Len(new) = Len(stack) - 1
        /\ \A i \in 1..Len(new) : new[i] = stack[i + 1]
    BY <2>1, HeadTailProperties
  <2>4. DOMAIN new = 1..(Len(stack) - 1) /\ Len(stack) # 0
    BY <2>1, <2>3, LenProperties, EmptySeq
  <2> HIDE DEF new
  <2>5. \A i \in DOMAIN new : i + 1 \in 2..Len(stack) /\ new[i] = stack[i + 1]
    BY <2>2, <2>3, <2>4
  <2>6. \A i, j \in DOMAIN new : i < j => new[j] < new[i]
    <3> SUFFICES ASSUME NEW i \in DOMAIN new, NEW j \in DOMAIN new, i < j PROVE new[j] < new[i]
      OBVIOUS
    <3>1. i + 1 \in DOMAIN stack /\ j + 1 \in DOMAIN stack /\ i + 1 < j + 1
      BY <2>2, <2>4, <2>5
    <3>2. stack[j + 1] < stack[i + 1]
      BY <3>1 DEF Stacked
    <3> QED BY <2>5, <3>2
  <2>7. \A i \in 2..Len(stack) : stack[i] # n
    <3> SUFFICES ASSUME NEW i \in 2..Len(stack), stack[i] = n PROVE FALSE
      OBVIOUS
    <3>1. i \in DOMAIN stack /\ 1 \in DOMAIN stack /\ 1 < i
      BY <2>2
    <3>2. stack[i] < stack[1]
      BY <3>1 DEF Stacked
    <3> QED BY <2>2, <3>2
  <2>8. {new[i] : i \in DOMAIN new} = {stack[i] : i \in DOMAIN stack} \ {n}
    <3>1. ASSUME NEW i \in DOMAIN new PROVE new[i] \in {stack[k] : k \in DOMAIN stack} \ {n}
      <4>1. i + 1 \in DOMAIN stack
        BY <2>2, <2>5
      <4> QED BY <2>5, <2>7, <4>1
    <3>2. ASSUME NEW i \in DOMAIN stack, stack[i] # n PROVE \E k \in DOMAIN new : new[k] = stack[i]
      <4>1. i - 1 \in DOMAIN new /\ (i - 1) + 1 = i
        BY <2>2, <2>4, <3>2
      <4> QED BY <2>5, <4>1
    <3> QED BY <3>1, <3>2
  <2>9. Popped(p, n, stack) = new
    BY <1>1 DEF Popped, new
  <2>10. {stack[i] : i \in DOMAIN stack} = {m \in U : p[m].kind \in Scopes}
    BY DEF Stacked
  <2>11. {new[i] : i \in DOMAIN new} = {m \in U \ {n} : p[m].kind \in Scopes}
    BY <2>8, <2>10
  <2> QED BY <2>3, <2>6, <2>9, <2>11 DEF Stacked
<1>2. CASE p[n].kind \notin Scopes
  <2>1. {m \in U \ {n} : p[m].kind \in Scopes} = {m \in U : p[m].kind \in Scopes}
    BY <1>2
  <2> QED BY <1>2, <2>1 DEF Stacked, Popped
<1> QED BY <1>1, <1>2

(* The function on top of the stack is the innermost around a node.        *)
LEMMA Innermost ==
  ASSUME NEW p, Tree(p), Grammar(p), NEW n \in DOMAIN p, NEW stack, Stacked(p, stack, Upwards(p, n))
  PROVE  Head(stack) = FunctionOf(p, n) /\ FunctionOf(p, n) \in Kinds(p, Scopes)
<1> DEFINE S == {m \in Upwards(p, n) : p[m].kind = "Function"} \cup {1}
           U == {m \in Upwards(p, n) : p[m].kind \in Scopes}
<1>1. 1 \in Upwards(p, n) /\ Upwards(p, n) \subseteq DOMAIN p /\ DOMAIN p = 1..Len(p) /\ Len(p) \in Nat
  BY UpwardsFacts, TreeFacts
<1>2. p[1].kind = "Program" /\ \A m \in DOMAIN p : m # 1 => p[m].kind # "Program"
  BY <1>1, TreeFacts DEF Grammar
<1>3. S = U
  BY <1>1, <1>2 DEF Scopes
<1>4. IsFiniteSet(S)
  <2>1. IsFiniteSet(1..Len(p))
    BY <1>1, FS_Interval
  <2>2. S \subseteq 1..Len(p)
    BY <1>1
  <2> QED BY <2>1, <2>2, FS_Subset
<1>5. Max(S) \in S /\ \A y \in S : y <= Max(S)
  <2>1. S \in SUBSET Nat /\ S # {}
    BY <1>1
  <2> HIDE DEF S
  <2> QED BY <1>4, <2>1, MaxFacts
<1> DEFINE x == Max(S)
<1>6. x = FunctionOf(p, n)
  BY DEF FunctionOf
<1> HIDE DEF x
<1>7. x \in U /\ \A y \in U : y <= x /\ y \in Nat
  <2>1. x \in S /\ \A y \in S : y <= x
    BY <1>5 DEF x
  <2> QED BY <1>1, <1>3, <2>1
<1>8. Stacked(p, stack, U)
  BY DEF Stacked
<1>9. Head(stack) = x
  <2>1. p[x].kind \in Scopes
    BY <1>7
  <2> HIDE DEF U
  <2> QED BY <1>7, <1>8, <2>1, TopOfStack
<1> QED BY <1>1, <1>6, <1>7, <1>9 DEF Kinds

-----------------------------------------------------------------------------
(* The extraction.                                                         *)

AllArms(p) == ArmsAt(p, ArmNodes(p)) \cup PointsAt(p, CountersAfter(p))

LEMMA ArmsOnExitFacts ==
  ASSUME NEW p, NEW n \in DOMAIN p
  PROVE  ArmsOnExit(p, n) \in Seq(PointsAt(p, CountersAfter(p)))
<1>1. p[n].kind \in {"If", "Try"} \cup Loops => n \in CountersAfter(p)
  BY DEF CountersAfter, Kinds, Loops
<1>2. \A k \in Constructs : \A i \in Nat :
        p[n].kind \in {"If", "Try"} \cup Loops =>
          Continuation(p, n, k, i) \in PointsAt(p, CountersAfter(p))
  BY <1>1 DEF PointsAt
<1>3. \A t \in PointsAt(p, CountersAfter(p)) : <<t>> \in Seq(PointsAt(p, CountersAfter(p)))
  OBVIOUS
<1>4. "If" \in Constructs /\ "Try" \in Constructs /\ "Loop" \in Constructs
  BY DEF Constructs
<1>5. CASE p[n].kind = "If"
  <2>1. ArmsOnExit(p, n) = <<Continuation(p, n, "If", 2)>>
    BY <1>5 DEF ArmsOnExit, Loops
  <2> QED BY <1>2, <1>3, <1>4, <1>5, <2>1
<1>6. CASE p[n].kind \in Loops
  <2>1. ArmsOnExit(p, n) = <<Continuation(p, n, "Loop", 1)>>
    BY <1>6 DEF ArmsOnExit, Loops
  <2> QED BY <1>2, <1>3, <1>4, <1>6, <2>1
<1>7. CASE p[n].kind = "Try"
  <2>1. ArmsOnExit(p, n) = <<Continuation(p, n, "Try", 3)>>
    BY <1>7 DEF ArmsOnExit, Loops
  <2> QED BY <1>2, <1>3, <1>4, <1>7, <2>1
<1>8. CASE p[n].kind \notin {"If", "Try"} \cup Loops
  <2>1. ArmsOnExit(p, n) = <<>>
    BY <1>8 DEF ArmsOnExit, Loops
  <2> QED BY <2>1, EmptySeq
<1> QED BY <1>5, <1>6, <1>7, <1>8

(* Only blocks below a node are reversed when it is entered.               *)
LEMMA ReversedFacts ==
  ASSUME NEW p, Tree(p), NEW n \in DOMAIN p
  PROVE  /\ \A arms \in Seq(ArmsAt(p, Own(p, n))) : \A b \in Reversed(p, arms) : b \in Nat /\ n < b
         /\ \A arms \in Seq(PointsAt(p, CountersAfter(p))) : Reversed(p, arms) = {}
<1>1. ASSUME NEW arms \in Seq(ArmsAt(p, Own(p, n))), NEW b \in Reversed(p, arms)
      PROVE  b \in Nat /\ n < b
  <2>1. PICK i \in DOMAIN arms : b = arms[i].node /\ p[arms[i].node].kind = "Block"
    BY <1>1 DEF Reversed
  <2>2. arms[i] \in ArmsAt(p, Own(p, n))
    BY LenProperties
  <2>3. PICK m \in Own(p, n), k \in Constructs, j \in Nat : arms[i] = Arm(p, m, k, j)
    BY <2>2 DEF ArmsAt
  <2>4. arms[i].node = m
    BY <2>3 DEF Arm
  <2>5. b = m /\ m \in DOMAIN p
    BY <2>1, <2>4 DEF Own, ArmNodes
  <2>6. p[m].kind \notin Scopes
    BY <2>1, <2>5 DEF Scopes
  <2>7. m # n /\ n \in Upwards(p, m)
    BY <2>6 DEF Own
  <2>8. n <= m /\ m \in Nat /\ n \in Nat
    BY <2>5, <2>7, UpwardsFacts, TreeFacts
  <2> QED BY <2>5, <2>7, <2>8
<1>2. ASSUME NEW arms \in Seq(PointsAt(p, CountersAfter(p))) PROVE Reversed(p, arms) = {}
  <2>1. \A i \in DOMAIN arms : arms[i] \in PointsAt(p, CountersAfter(p))
    BY LenProperties
  <2>2. \A t \in PointsAt(p, CountersAfter(p)) : t.point
    BY DEF PointsAt, Continuation
  <2> QED BY <2>1, <2>2 DEF Reversed
<1> QED BY <1>1, <1>2

(* Reversing what lies below a place does not change what was entered.     *)
LEMMA ReversedBelow ==
  ASSUME NEW p, Tree(p), NEW R, NEW B, NEW place \in Places(p), place.node # 0,
         \A b \in B : b \in Nat /\ place.node < b
  PROVE  Reached(p, R \cup B, place) = Reached(p, R, place)
<1> DEFINE n == place.node
<1>1. n \in DOMAIN p
  BY DEF Places
<1>2. \A b \in Upwards(p, n) : p[b].up \notin B
  <2> SUFFICES ASSUME NEW b \in Upwards(p, n), p[b].up \in B PROVE FALSE
    OBVIOUS
  <2>1. b \in DOMAIN p /\ b <= n
    BY <1>1, UpwardsFacts
  <2>2. b \in Nat /\ n \in Nat /\ p[b].up \in 0..(b - 1)
    BY <1>1, <2>1, TreeFacts
  <2> QED BY <2>1, <2>2
<1>3. \A m \in DOMAIN p : Passed(p, R \cup B, m, n) <=> Passed(p, R, m, n)
  BY <1>2 DEF Passed, Earlier
<1> QED BY <1>3 DEF Reached

(* What holds while a file is extracted: the stack holds the functions of  *)
(* the path, the functions and the counts are those of what was entered,   *)
(* and every arm is at a node that the instrumentation knows.              *)
Weights(p) == [n \in DOMAIN p |-> Weight(p[n].kind)]
InFunction(p, S, f) == {n \in S : FunctionOf(p, n) = f}
CountsOf(p, S) ==
  [f \in Kinds(p, Scopes) |-> [m \in Metrics |-> Total(Weights(p), m, InFunction(p, S, f))]]

Extracting(p, x) ==
  LET entered == Reached(p, x.reversed, x.place) IN
  /\ x.place \in Places(p)
  /\ x.place.node # 0 => Stacked(p, x.stack, Path(p, x.place))
  /\ x.functions = Kinds(p, Scopes) \cap entered
  /\ x.counts = CountsOf(p, entered)
  /\ x.arms \in Seq(AllArms(p))

LEMMA WeightFacts ==
  ASSUME NEW p, NEW n \in DOMAIN p, NEW m \in Metrics
  PROVE  /\ Weights(p)[n] = Weight(p[n].kind)
         /\ Weights(p)[n][m] \in Nat
<1>1. Weights(p)[n] = Weight(p[n].kind)
  BY DEF Weights
<1>2. Weight(p[n].kind)[m] \in {0, 1}
  BY DEF Weight, Metrics
<1> QED BY <1>1, <1>2

(* Counting a node for its function.                                       *)
LEMMA CountFacts ==
  ASSUME NEW p, Tree(p), NEW n \in DOMAIN p, NEW S \in SUBSET DOMAIN p, n \notin S,
         FunctionOf(p, n) \in Kinds(p, Scopes)
  PROVE  Count(CountsOf(p, S), FunctionOf(p, n), p[n].kind) = CountsOf(p, S \cup {n})
<1> DEFINE g == FunctionOf(p, n)
           w == Weights(p)
           F == Kinds(p, Scopes)
           old == CountsOf(p, S)
           new == CountsOf(p, S \cup {n})
<1>1. \A f \in F : \A m \in Metrics :
        new[f][m] = IF f = g THEN old[f][m] + Weight(p[n].kind)[m] ELSE old[f][m]
  <2> SUFFICES ASSUME NEW f \in F, NEW m \in Metrics
               PROVE  new[f][m] = IF f = g THEN old[f][m] + Weight(p[n].kind)[m] ELSE old[f][m]
    OBVIOUS
  <2>1. /\ new[f][m] = Total(w, m, InFunction(p, S \cup {n}, f))
        /\ old[f][m] = Total(w, m, InFunction(p, S, f))
    BY DEF CountsOf
  <2>2. CASE f # g
    <3>1. InFunction(p, S \cup {n}, f) = InFunction(p, S, f)
      BY <2>2 DEF InFunction
    <3> QED BY <2>1, <2>2, <3>1
  <2>3. CASE f = g
    <3> DEFINE T == InFunction(p, S, f)
    <3>1. InFunction(p, S \cup {n}, f) = T \cup {n} /\ n \notin T /\ T \subseteq DOMAIN p
      BY <2>3 DEF InFunction
    <3>2. IsFiniteSet(T)
      <4>1. Len(p) \in Nat /\ DOMAIN p = 1..Len(p)
        BY TreeFacts
      <4>2. IsFiniteSet(1..Len(p))
        BY <4>1, FS_Interval
      <4> QED BY <3>1, <4>1, <4>2, FS_Subset
    <3>3. \A y \in T \cup {n} : w[y][m] \in Nat
      BY <3>1, WeightFacts
    <3> HIDE DEF w, T
    <3>4. Total(w, m, T) \in Nat /\ Total(w, m, T \cup {n}) = w[n][m] + Total(w, m, T)
      BY <3>1, <3>2, <3>3, SumAdds
    <3>5. w[n][m] = Weight(p[n].kind)[m] /\ w[n][m] \in Nat
      BY WeightFacts DEF w
    <3>6. new[f][m] = Total(w, m, T \cup {n}) /\ old[f][m] = Total(w, m, T)
      BY <2>1, <3>1 DEF T
    <3> HIDE DEF old, new
    <3> QED BY <2>3, <3>4, <3>5, <3>6
  <2> QED BY <2>2, <2>3
<1>2. /\ DOMAIN old = F /\ DOMAIN new = F
      /\ old = [f \in F |-> old[f]] /\ new = [f \in F |-> new[f]]
      /\ \A f \in F : old[f] = [m \in Metrics |-> old[f][m]] /\ new[f] = [m \in Metrics |-> new[f][m]]
  BY DEF CountsOf
<1> HIDE DEF old, new, g, F
<1>3. \A f \in F : new[f] = IF f = g THEN [m \in Metrics |-> old[f][m] + Weight(p[n].kind)[m]]
                                     ELSE old[f]
  <2> SUFFICES ASSUME NEW f \in F
               PROVE  new[f] = IF f = g THEN [m \in Metrics |-> old[f][m] + Weight(p[n].kind)[m]]
                                        ELSE old[f]
    OBVIOUS
  <2>1. CASE f = g
    <3>1. \A m \in Metrics : new[f][m] = old[f][m] + Weight(p[n].kind)[m]
      BY <1>1, <2>1
    <3>2. new[f] = [m \in Metrics |-> new[f][m]]
      BY <1>2
    <3> QED BY <2>1, <3>1, <3>2
  <2>2. CASE f # g
    <3>1. \A m \in Metrics : new[f][m] = old[f][m]
      BY <1>1, <2>2
    <3>2. new[f] = [m \in Metrics |-> new[f][m]] /\ old[f] = [m \in Metrics |-> old[f][m]]
      BY <1>2
    <3> QED BY <2>2, <3>1, <3>2
  <2> QED BY <2>1, <2>2
<1>4. Count(old, g, p[n].kind) = [f \in F |-> IF f = g THEN [m \in Metrics |-> old[f][m] + Weight(p[n].kind)[m]]
                                              ELSE old[f]]
  BY <1>2 DEF Count
<1>5. new = [f \in F |-> IF f = g THEN [m \in Metrics |-> old[f][m] + Weight(p[n].kind)[m]]
                         ELSE old[f]]
  BY <1>2, <1>3
<1>6. Count(old, g, p[n].kind) = new
  BY <1>4, <1>5
<1> QED BY <1>6 DEF old, new, g

LEMMA ExtractionStarts ==
  ASSUME NEW p, Tree(p)
  PROVE  Extracting(p, Untouched(p))
<1> DEFINE place == [node |-> 1, entering |-> TRUE]
<1>1. /\ 1 \in DOMAIN p /\ p[1].up = 0 /\ \A m \in DOMAIN p : p[m].up = 0 => m = 1
  BY TreeFacts
<1>2. Upwards(p, 1) = {1}
  BY <1>1, UpwardsDefined
<1>3. \A m \in DOMAIN p : ~Passed(p, {}, m, 1)
  <2> SUFFICES ASSUME NEW m \in DOMAIN p, Passed(p, {}, m, 1) PROVE FALSE
    OBVIOUS
  <2>1. PICK a \in Upwards(p, m) : p[a].up = 0 /\ Earlier(p, {}, a, 1)
    BY <1>1, <1>2 DEF Passed
  <2>2. a = 1
    BY <1>1, <2>1, UpwardsFacts
  <2> QED BY <1>1, <2>1, <2>2, EarlierFacts
<1>4. Reached(p, {}, place) = {} /\ Path(p, place) = {} /\ place \in Places(p)
  BY <1>1, <1>2, <1>3 DEF Reached, Path, Places
<1>5. CountsOf(p, {}) = NoCounts(p)
  <2>1. \A f : InFunction(p, {}, f) = {}
    BY DEF InFunction
  <2>2. \A m : Total(Weights(p), m, {}) = 0
    BY SumEmpty
  <2> QED BY <2>1, <2>2 DEF CountsOf, NoCounts
<1>6. Stacked(p, <<>>, {}) /\ <<>> \in Seq(AllArms(p))
  BY DEF Stacked
<1> QED BY <1>4, <1>5, <1>6 DEF Extracting, Untouched

(* A step of the traversal, with every plugin's visitor.                   *)
LEMMA VisitFacts ==
  ASSUME NEW p, Tree(p), Grammar(p), NEW x, Extracting(p, x), ~Extracted(x)
  PROVE  Extracting(p, Visit(p, x))
<1> DEFINE place == x.place
           n == x.place.node
           R == x.reversed
           new == IF place.entering THEN ArmsOnEnter(p, n) ELSE ArmsOnExit(p, n)
           B == Reversed(p, new)
           y == Visit(p, x)
           before == Reached(p, R, place)
           after == Reached(p, y.reversed, y.place)
<1>1. place \in Places(p) /\ n # 0 /\ n \in DOMAIN p /\ place.entering \in BOOLEAN
  BY DEF Extracting, Extracted, Places
<1>2. new \in Seq(AllArms(p)) /\ \A b \in B : b \in Nat /\ n < b
  <2>1. CASE place.entering
    <3>1. new \in Seq(ArmsAt(p, Own(p, n)))
      BY <1>1, <2>1, ArmsOnEnterFacts
    <3>2. ArmsAt(p, Own(p, n)) \subseteq AllArms(p)
      BY DEF ArmsAt, Own, AllArms
    <3>3. new \in Seq(AllArms(p))
      <4> HIDE DEF new
      <4>1. DOMAIN new = 1..Len(new) /\ Len(new) \in Nat /\ \A i \in 1..Len(new) : new[i] \in AllArms(p)
        BY <3>1, <3>2, LenProperties
      <4>2. new = [i \in 1..Len(new) |-> new[i]]
        BY <3>1, SeqDef
      <4> QED BY <4>1, <4>2, SeqDef
    <3> HIDE DEF new
    <3> QED BY <1>1, <3>1, <3>3, ReversedFacts
  <2>2. CASE ~place.entering
    <3>1. new \in Seq(PointsAt(p, CountersAfter(p)))
      BY <1>1, <2>2, ArmsOnExitFacts
    <3>2. PointsAt(p, CountersAfter(p)) \subseteq AllArms(p)
      BY DEF AllArms
    <3>3. new \in Seq(AllArms(p))
      <4> HIDE DEF new
      <4>1. DOMAIN new = 1..Len(new) /\ Len(new) \in Nat /\ \A i \in 1..Len(new) : new[i] \in AllArms(p)
        BY <3>1, <3>2, LenProperties
      <4>2. new = [i \in 1..Len(new) |-> new[i]]
        BY <3>1, SeqDef
      <4> QED BY <4>1, <4>2, SeqDef
    <3> HIDE DEF new
    <3> QED BY <1>1, <3>1, <3>3, ReversedFacts
  <2> QED BY <2>1, <2>2
<1>3. y.reversed = R \cup B /\ y.place = Onwards(p, place, R \cup B) /\ y.arms = x.arms \o new
  BY DEF Visit
<1> HIDE DEF new, B
<1>4. Reached(p, R \cup B, place) = before
  BY <1>1, <1>2, ReversedBelow
<1>5. Advances(p, R \cup B, place, y.place)
  BY <1>1, <1>3, OnwardsFacts
<1>6. /\ y.place \in Places(p)
      /\ after = IF place.entering THEN before \cup {n} ELSE before
      /\ y.place.node # 0 => Path(p, y.place) = IF place.entering THEN Upwards(p, n) ELSE Upwards(p, n) \ {n}
      /\ place.entering => n \notin before
  BY <1>3, <1>4, <1>5 DEF Advances
<1>7. y.arms \in Seq(AllArms(p))
  <2>1. x.arms \in Seq(AllArms(p))
    BY DEF Extracting
  <2> QED BY <1>2, <1>3, <2>1, Concatenated
<1>8. before \subseteq DOMAIN p
  BY DEF Reached
<1>9. /\ \A m \in Upwards(p, n) : m \in DOMAIN p /\ m \in Nat /\ m <= n
      /\ \A m \in Upwards(p, n) \ {n} : m < n
      /\ n \in Upwards(p, n)
  <2>1. Upwards(p, n) \subseteq DOMAIN p /\ n \in Upwards(p, n) /\ \A m \in Upwards(p, n) : m <= n
    BY <1>1, UpwardsFacts
  <2>2. \A m \in DOMAIN p : m \in Nat
    BY TreeFacts
  <2> QED BY <1>1, <2>1, <2>2
<1>10. CASE place.entering
  <2>1. Stacked(p, x.stack, Upwards(p, n) \ {n})
    BY <1>1, <1>10 DEF Extracting, Path
  <2> DEFINE stack == Pushed(p, n, x.stack)
  <2>2. Stacked(p, stack, Upwards(p, n))
    <3>1. Stacked(p, stack, (Upwards(p, n) \ {n}) \cup {n})
      BY <1>1, <1>9, <2>1, Pushes
    <3>2. (Upwards(p, n) \ {n}) \cup {n} = Upwards(p, n)
      BY <1>9
    <3> QED BY <3>1, <3>2
  <2>3. y.stack = stack /\ y.functions = x.functions \cup Functions(p, n)
        /\ y.counts = Count(x.counts, Head(stack), p[n].kind)
    BY <1>10 DEF Visit
  <2> HIDE DEF stack
  <2>4. Head(stack) = FunctionOf(p, n) /\ FunctionOf(p, n) \in Kinds(p, Scopes)
    BY <1>1, <2>2, Innermost
  <2>5. x.counts = CountsOf(p, before) /\ x.functions = Kinds(p, Scopes) \cap before
    BY DEF Extracting
  <2>6. y.counts = CountsOf(p, before \cup {n})
    <3> HIDE DEF before
    <3> QED BY <1>1, <1>6, <1>8, <1>10, <2>3, <2>4, <2>5, CountFacts
  <2>7. y.functions = Kinds(p, Scopes) \cap (before \cup {n})
    BY <1>1, <2>3, <2>5 DEF Functions, Kinds
  <2>8. after = before \cup {n} /\ (y.place.node # 0 => Path(p, y.place) = Upwards(p, n))
    BY <1>6, <1>10
  <2>9. y.place.node # 0 => Stacked(p, y.stack, Path(p, y.place))
    BY <2>2, <2>3, <2>8
  <2>10. y.counts = CountsOf(p, after) /\ y.functions = Kinds(p, Scopes) \cap after
    BY <2>6, <2>7, <2>8
  <2> HIDE DEF y
  <2>11. Extracting(p, y)
    BY <1>6, <1>7, <2>9, <2>10 DEF Extracting
  <2> QED BY <2>11 DEF y
<1>11. CASE ~place.entering
  <2>1. Stacked(p, x.stack, Upwards(p, n))
    BY <1>1, <1>11 DEF Extracting, Path
  <2>2. y.stack = Popped(p, n, x.stack) /\ y.functions = x.functions /\ y.counts = x.counts
    BY <1>11 DEF Visit
  <2>3. Stacked(p, y.stack, Upwards(p, n) \ {n})
    BY <1>9, <2>1, <2>2, Pops
  <2>4. x.counts = CountsOf(p, before) /\ x.functions = Kinds(p, Scopes) \cap before
    BY DEF Extracting
  <2>5. after = before /\ (y.place.node # 0 => Path(p, y.place) = Upwards(p, n) \ {n})
    BY <1>6, <1>11
  <2>6. y.place.node # 0 => Stacked(p, y.stack, Path(p, y.place))
    BY <2>3, <2>5
  <2>7. y.counts = CountsOf(p, after) /\ y.functions = Kinds(p, Scopes) \cap after
    BY <2>2, <2>4, <2>5
  <2> HIDE DEF y
  <2>8. Extracting(p, y)
    BY <1>6, <1>7, <2>6, <2>7 DEF Extracting
  <2> QED BY <2>8 DEF y
<1> QED BY <1>1, <1>10, <1>11

(* At the end everything has been entered.                                 *)
LEMMA ExtractionEnds ==
  ASSUME NEW p, NEW x, Extracting(p, x), Extracted(x)
  PROVE  /\ x.functions = Kinds(p, Scopes)
         /\ x.counts = CountsOf(p, DOMAIN p)
         /\ x.arms \in Seq(AllArms(p))
<1>1. Reached(p, x.reversed, x.place) = DOMAIN p
  BY DEF Extracted, Reached
<1> QED BY <1>1 DEF Extracting, Kinds

USE CoverageAssumption

-----------------------------------------------------------------------------
(* How control moves.                                                      *)

(* What a guard of a node can be, if its parent is no switch.              *)
LEMMA GuardFacts ==
  ASSUME NEW p, Tree(p), Grammar(p), NEW u \in DOMAIN p, NEW q \in Below(p, u)
  PROVE  /\ p[u].kind = "Switch" => Guards(p, q) \subseteq {<<u, q>>}
         /\ p[u].kind # "Switch" /\ p[q].slot = "alternate" => Guards(p, q) \subseteq {<<u, "no">>}
         /\ p[u].kind # "Switch" /\ p[q].slot \in {"consequent", "body", "right"}
              => Guards(p, q) \subseteq {<<u, "yes">>}
         /\ p[u].kind # "Switch" /\ p[q].slot \notin {"consequent", "body", "right", "alternate"}
              => Guards(p, q) = {}
         /\ p[u].kind \notin Tested \cup {"Logical", "Switch"} => Guards(p, q) = {}
<1>1. p[q].up = u /\ q \in DOMAIN p /\ q # 1
  BY PartFacts
<1>2. q \in 2..Len(p)
  BY <1>1, TreeFacts
<1>3. p[q].kind \in {"Case", "Default"} <=> p[u].kind = "Switch"
  BY <1>1, <1>2 DEF Grammar
<1>4. p[u].kind = "Switch" => Guards(p, q) \subseteq {<<u, q>>}
  <2> SUFFICES ASSUME p[u].kind = "Switch" PROVE Guards(p, q) \subseteq {<<u, q>>}
    OBVIOUS
  <2>1. p[u].kind \notin Tested
    BY DEF Tested
  <2> QED BY <1>1, <2>1 DEF Guards
<1>5. ASSUME p[u].kind # "Switch"
      PROVE  /\ p[q].slot = "alternate" => Guards(p, q) \subseteq {<<u, "no">>}
             /\ p[q].slot \in {"consequent", "body", "right"} => Guards(p, q) \subseteq {<<u, "yes">>}
             /\ p[q].slot \notin {"consequent", "body", "right", "alternate"} => Guards(p, q) = {}
             /\ p[u].kind \notin Tested \cup {"Logical"} => Guards(p, q) = {}
  <2>1. p[q].kind # "Case" /\ p[q].kind # "Default"
    BY <1>3, <1>5
  <2>2. Guards(p, q) = IF p[u].kind \in Tested /\ p[q].slot \in {"consequent", "body"} THEN {<<u, "yes">>}
                       ELSE IF p[u].kind \in Tested /\ p[q].slot = "alternate" THEN {<<u, "no">>}
                       ELSE IF p[u].kind = "Logical" /\ p[q].slot = "right" THEN {<<u, "yes">>}
                       ELSE {}
    BY <1>1, <2>1 DEF Guards
  <2> QED BY <2>2
<1> QED BY <1>4, <1>5

(* A step from n, entering a part of u or leaving u itself, decides the    *)
(* test of u at most, and so that the guard of the part it enters holds.   *)
(* A case that was not selected is fallen into from an earlier one.        *)
Allows(p, n, u, q, s) ==
  /\ p[u].kind = "Switch" =>
       \/ s.test = u /\ s.outcome = q
       \/ s.test = 0 /\ n \in Below(p, u) /\ n < q
  /\ p[u].kind # "Switch" => \A c \in Guards(p, q) : c = <<u, s.outcome>> /\ s.test = u

Moving(p, n, u, s) ==
  /\ s.test \in {0, u}
  /\ \/ s.to = Out(u, s.to.how)
     \/ \E q \in Below(p, u) : s.to = In(q) /\ Allows(p, n, u, q, s)

LEMMA GoingOut ==
  ASSUME NEW p, NEW n, NEW u, NEW how
  PROVE  /\ Moving(p, n, u, Go(Out(u, how)))
         /\ \A v : Moving(p, n, u, Decide(Out(u, how), u, v))
BY DEF Moving, Go, Decide, Out

(* A part that is entered without a test has no guard.                     *)
Plain == {"list", "test", "left", "block", "expr", "handler", "finalizer"}

LEMMA GoingIn ==
  ASSUME NEW p, Tree(p), Grammar(p), NEW n, NEW u \in DOMAIN p, NEW q \in Below(p, u),
         p[u].kind # "Switch", p[q].slot \in Plain \/ p[u].kind \notin Tested \cup {"Logical"}
  PROVE  Moving(p, n, u, Go(In(q))) /\ \A v : Moving(p, n, u, Decide(In(q), u, v))
<1>1. Guards(p, q) = {}
  BY GuardFacts DEF Plain
<1>2. Allows(p, n, u, q, Go(In(q))) /\ \A v : Allows(p, n, u, q, Decide(In(q), u, v))
  BY <1>1 DEF Allows
<1> QED BY <1>2 DEF Moving, Go, Decide

LEMMA BranchFacts ==
  ASSUME NEW p, Tree(p), Grammar(p), NEW n, NEW u \in DOMAIN p, p[u].kind # "Switch",
         NEW s \in Branch(p, u)
  PROVE  Moving(p, n, u, s) /\ (s.to.how = "in" => p[s.to.node].slot # "left")
<1> DEFINE yes == At(p, u, {"consequent", "body", "right"})
           no  == At(p, u, {"alternate"})
<1>1. \/ \E m \in yes : s = Decide(In(m), u, "yes")
      \/ s = Decide(Out(u, "normal"), u, "no")
      \/ \E m \in no : s = Decide(In(m), u, "no")
  BY DEF Branch
<1>2. CASE \E m \in yes : s = Decide(In(m), u, "yes")
  <2>1. PICK m \in Below(p, u) : p[m].slot \in {"consequent", "body", "right"} /\ s = Decide(In(m), u, "yes")
    BY <1>2 DEF At
  <2>2. Guards(p, m) \subseteq {<<u, "yes">>}
    BY <2>1, GuardFacts
  <2>3. s.test = u /\ s.outcome = "yes" /\ s.to = In(m)
    BY <2>1 DEF Decide
  <2>4. Allows(p, n, u, m, s)
    BY <2>2, <2>3 DEF Allows
  <2> QED BY <2>1, <2>3, <2>4 DEF Moving, In
<1>3. CASE s = Decide(Out(u, "normal"), u, "no")
  <2>1. s.to.how = "normal"
    BY <1>3 DEF Decide, Out
  <2> QED BY <1>3, <2>1, GoingOut
<1>4. CASE \E m \in no : s = Decide(In(m), u, "no")
  <2>1. PICK m \in Below(p, u) : p[m].slot = "alternate" /\ s = Decide(In(m), u, "no")
    BY <1>4 DEF At
  <2>2. Guards(p, m) \subseteq {<<u, "no">>}
    BY <2>1, GuardFacts
  <2>3. s.test = u /\ s.outcome = "no" /\ s.to = In(m)
    BY <2>1 DEF Decide
  <2>4. Allows(p, n, u, m, s)
    BY <2>2, <2>3 DEF Allows
  <2> QED BY <2>1, <2>3, <2>4 DEF Moving, In
<1> QED BY <1>1, <1>2, <1>3, <1>4

LEMMA FirstFacts ==
  ASSUME NEW p, Tree(p), NEW u \in DOMAIN p, NEW S \in SUBSET Below(p, u), S # {}
  PROVE  Min(S) \in S
<1>1. S \in SUBSET Nat /\ S \subseteq 1..Len(p) /\ Len(p) \in Nat
  BY TreeFacts DEF Below
<1>2. IsFiniteSet(S)
  <2>1. IsFiniteSet(1..Len(p))
    BY <1>1, FS_Interval
  <2> QED BY <1>1, <2>1, FS_Subset
<1> QED BY <1>1, <1>2, MinFacts

LEMMA EntersFacts ==
  ASSUME NEW p, Tree(p), Grammar(p), NEW n \in DOMAIN p, NEW s \in Enters(p, n)
  PROVE  Moving(p, n, n, s) /\ (s.to.how = "in" => s.to.node \in Below(p, n))
<1> DEFINE kind == p[n].kind
           first == At(p, n, {"list", "test", "left", "block", "expr"})
<1>1. first # {} => Min(first) \in Below(p, n) /\ p[Min(first)].slot \in Plain
  <2> SUFFICES ASSUME first # {} PROVE Min(first) \in first
    BY DEF At, Plain
  <2>1. first \in SUBSET Below(p, n)
    BY DEF At
  <2> HIDE DEF first
  <2> QED BY <2>1, FirstFacts
<1>2. kind # "Switch" /\ first # {} => Moving(p, n, n, Go(In(Min(first))))
  BY <1>1, GoingIn
<1>3. \A how : Moving(p, n, n, Go(Out(n, how)))
  BY GoingOut
<1> HIDE DEF first
<1>0. \A t \in Branch(p, n) : t.to.how = "in" => t.to.node \in Below(p, n)
  BY DEF Branch, Decide, At, In, Out
<1>4. CASE kind = "Switch"
  <2>1. s \in Select(p, n)
    BY <1>4 DEF Enters, Loops
  <2>2. CASE \E m \in Below(p, n) : s = Decide(In(m), n, m)
    BY <1>4, <2>2 DEF Moving, Allows, Decide, In
  <2>3. CASE s = Decide(Out(n, "normal"), n, n)
    BY <2>3, GoingOut DEF Decide, Out
  <2> QED BY <2>1, <2>2, <2>3 DEF Select
<1>5. CASE kind = "Catch"
  <2>1. s = Go(In(Only(Below(p, n))))
    BY <1>5 DEF Enters, Loops
  <2>2. Below(p, n) # {}
    BY <1>5 DEF Grammar, At
  <2>3. Only(Below(p, n)) \in Below(p, n)
    BY <2>2 DEF Only
  <2> QED BY <1>5, <2>1, <2>3, GoingIn DEF Tested, Go, In
<1>6. CASE kind \notin {"Switch", "Catch"}
  <2>1. \/ \E how : how # "in" /\ s = Go(Out(n, how))
        \/ s \in Branch(p, n)
        \/ first # {} /\ s = Go(In(Min(first)))
    BY <1>6 DEF Enters, Loops, first
  <2>2. CASE \E how : how # "in" /\ s = Go(Out(n, how))
    BY <1>3, <2>2 DEF Go, Out
  <2>3. CASE s \in Branch(p, n)
    BY <1>0, <1>6, <2>3, BranchFacts
  <2>4. CASE first # {} /\ s = Go(In(Min(first)))
    <3>1. s.to.node = Min(first)
      BY <2>4 DEF Go, In
    <3> QED BY <1>1, <1>2, <1>6, <2>4, <3>1
  <2> QED BY <2>1, <2>2, <2>3, <2>4
<1> QED BY <1>4, <1>5, <1>6

LEMMA FinallyFacts ==
  ASSUME NEW p, Tree(p), Grammar(p), NEW n, NEW u \in DOMAIN p, p[u].kind = "Try",
         NEW how, how # "in", NEW s \in Finally(p, u, how)
  PROVE  Moving(p, n, u, s) /\ (s.to.how = "in" => p[s.to.node].slot # "left")
<1> DEFINE last == At(p, u, {"finalizer"})
<1>1. CASE last = {}
  <2>1. s = Go(Out(u, how))
    BY <1>1 DEF Finally
  <2> QED BY <1>1, <2>1, GoingOut DEF Go, Out
<1>2. CASE last # {}
  <2>1. s = Decide(In(Only(last)), u, how)
    BY <1>2 DEF Finally
  <2>2. Only(last) \in last
    BY <1>2 DEF Only
  <2>3. Only(last) \in Below(p, u)
    BY <2>2 DEF At
  <2> HIDE DEF last
  <2>4. Moving(p, n, u, s)
    BY <2>1, <2>3, GoingIn DEF Tested
  <2>5. s.to.how = "in" /\ s.to.node = Only(last)
    BY <2>1 DEF Decide, In
  <2> QED BY <2>2, <2>4, <2>5 DEF last, At
<1> QED BY <1>1, <1>2

LEMMA AgainFacts ==
  ASSUME NEW p, Tree(p), Grammar(p), NEW n, NEW u \in DOMAIN p, p[u].kind # "Switch",
         NEW s \in Again(p, u)
  PROVE  Moving(p, n, u, s) /\ (s.to.how = "in" => p[s.to.node].slot # "left")
<1> DEFINE tests == At(p, u, {"test"})
<1>1. CASE tests = {}
  BY <1>1, BranchFacts DEF Again
<1>2. CASE tests # {}
  <2>1. s = Go(In(Min(tests)))
    BY <1>2 DEF Again
  <2>2. tests \in SUBSET Below(p, u)
    BY DEF At
  <2>3. Min(tests) \in tests
    <3> HIDE DEF tests
    <3> QED BY <1>2, <2>2, FirstFacts
  <2>4. Min(tests) \in Below(p, u) /\ p[Min(tests)].slot = "test"
    BY <2>3 DEF At
  <2> HIDE DEF tests
  <2>5. Moving(p, n, u, s)
    BY <2>1, <2>4, GoingIn DEF Plain
  <2> QED BY <2>1, <2>4, <2>5 DEF Go, In
<1> QED BY <1>1, <1>2

LEMMA LeavesFacts ==
  ASSUME NEW p, Tree(p), Grammar(p), NEW n \in DOMAIN p, n # 1, NEW how, how # "in", NEW ended,
         NEW s \in Leaves(p, n, how, ended)
  PROVE  Moving(p, n, p[n].up, s) /\ (s.to.how = "in" => p[s.to.node].slot # "left")
<1> DEFINE u == p[n].up
           kind == p[u].kind
           slot == p[n].slot
           Fine(t) == Moving(p, n, u, t) /\ (t.to.how = "in" => p[t.to.node].slot # "left")
<1>1. u \in DOMAIN p /\ n \in Below(p, u) /\ n \in 2..Len(p)
  BY TreeFacts DEF Below
<1> USE DEF Lists, Loops
<1>0. /\ slot = "list" <=> kind \in Lists \cup {"Switch"}
      /\ slot \in {"block", "handler", "finalizer"} <=> kind = "Try"
  BY <1>1 DEF Grammar
<1>2. \A how1 : how1 # "in" => Fine(Go(Out(u, how1)))
  BY GoingOut DEF Go, Out
<1>3. kind # "Switch" => \A t \in Branch(p, u) : Fine(t)
  BY <1>1, BranchFacts
<1>4. CASE kind \in Lists \cup {"Switch"}
  <2>1. \/ s = Go(Out(u, "normal")) \/ s = Go(Out(u, how))
        \/ Next1(p, n) # {} /\ s = Go(In(Min(Next1(p, n))))
    BY <1>0, <1>4 DEF Leaves
  <2>2. CASE Next1(p, n) # {} /\ s = Go(In(Min(Next1(p, n))))
    <3> DEFINE q == Min(Next1(p, n))
    <3>1. Next1(p, n) \in SUBSET Below(p, u)
      BY DEF Next1
    <3>2. q \in Next1(p, n)
      BY <1>1, <2>2, <3>1, FirstFacts
    <3>3. q \in Below(p, u) /\ n < q
      BY <3>2 DEF Next1
    <3> HIDE DEF q
    <3>4. q \in 2..Len(p) /\ p[q].up = u
      <4>1. q \in DOMAIN p /\ p[q].up = u /\ q # 1
        BY <1>1, <3>3, PartFacts
      <4>2. DOMAIN p = 1..Len(p) /\ Len(p) \in Nat
        BY TreeFacts
      <4>3. q \in 1..Len(p)
        BY <4>1, <4>2
      <4> QED BY <4>1, <4>2, <4>3
    <3>5. p[q].slot # "left"
      BY <1>4, <3>4 DEF Grammar
    <3>6. Moving(p, n, u, Go(In(q)))
      <4>1. CASE kind = "Switch"
        <5>1. Allows(p, n, u, q, Go(In(q)))
          BY <1>1, <3>3, <4>1 DEF Allows, Go
        <5> QED BY <3>3, <5>1 DEF Moving, Go
      <4>2. CASE kind # "Switch"
        BY <1>1, <1>4, <3>3, <4>2, GoingIn DEF Tested
      <4> QED BY <4>1, <4>2
    <3>7. s = Go(In(q))
      BY <2>2 DEF q
    <3> QED BY <3>5, <3>6, <3>7 DEF Go, In
  <2> QED BY <1>2, <2>1, <2>2
<1>5. CASE kind \notin Lists \cup {"Switch"} /\ slot \in {"test", "left"}
  <2>1. s \in Branch(p, u)
    BY <1>0, <1>5 DEF Leaves
  <2> QED BY <1>3, <1>5, <2>1
<1>6. CASE kind \in Loops /\ slot = "body"
  <2>1. kind \notin Lists \cup {"Switch"}
    BY <1>6
  <2>2. s \in Again(p, u) \/ s = Go(Out(u, "normal")) \/ s = Go(Out(u, how))
    BY <1>0, <1>6, <2>1 DEF Leaves
  <2> QED BY <1>1, <1>2, <2>1, <2>2, AgainFacts
<1>7. CASE kind = "Try" /\ slot \notin {"test", "left"}
  <2>1. kind \notin Lists \cup {"Switch"} \cup Loops
    BY <1>7
  <2>2. \/ At(p, u, {"handler"}) # {} /\ s = Go(In(Only(At(p, u, {"handler"}))))
        \/ s = Go(Out(u, ended)) \/ s = Go(Out(u, how)) \/ s \in Finally(p, u, how)
    BY <1>0, <1>7, <2>1 DEF Leaves
  <2>3. CASE At(p, u, {"handler"}) # {} /\ s = Go(In(Only(At(p, u, {"handler"}))))
    <3> DEFINE q == Only(At(p, u, {"handler"}))
    <3>1. q \in At(p, u, {"handler"})
      BY <2>3 DEF Only
    <3>2. s = Go(In(q))
      BY <2>3
    <3> HIDE DEF q
    <3>3. q \in Below(p, u) /\ p[q].slot = "handler"
      BY <3>1 DEF At
    <3>4. Moving(p, n, u, Go(In(q)))
      BY <1>1, <2>1, <3>3, GoingIn DEF Plain
    <3> QED BY <3>2, <3>3, <3>4 DEF Go, In
  <2>4. CASE s = Go(Out(u, ended))
    <3>1. s.to.node = u
      BY <2>4 DEF Go, Out
    <3>2. u = 1 \/ u \in 2..Len(p)
      <4>1. DOMAIN p = 1..Len(p) /\ Len(p) \in Nat
        BY TreeFacts
      <4>2. u \in 1..Len(p)
        BY <1>1, <4>1
      <4> QED BY <4>1, <4>2
    <3>3. p[u].slot # "left" \/ u = 1
      BY <1>7, <3>2 DEF Grammar
    <3>4. u # 1
      <4>1. p[1].kind = "Program"
        BY TreeFacts
      <4> QED BY <1>7, <4>1
    <3>5. Moving(p, n, u, s)
      BY <2>4, GoingOut
    <3> QED BY <3>1, <3>3, <3>4, <3>5
  <2> QED BY <1>1, <1>2, <1>7, <2>2, <2>3, <2>4, FinallyFacts
<1>8. CASE kind \notin Lists \cup {"Switch", "Try"} /\ slot \notin {"test", "left"} /\ ~(kind \in Loops /\ slot = "body")
  <2>1. s = Go(Out(u, how))
    BY <1>0, <1>8 DEF Leaves
  <2> QED BY <1>2, <2>1
<1>9. kind = "Try" => kind \notin Lists \cup {"Switch"}
  OBVIOUS
<1> QED BY <1>4, <1>5, <1>6, <1>7, <1>8, <1>9

(* Operands of logical expressions.                                        *)
Left(p, n) == Only(At(p, n, {"left"}))
Logicals(p) == {n \in Kinds(p, {"Logical"}) : p[p[n].up].kind # "Function"}

LEMMA LeftFacts ==
  ASSUME NEW p, Tree(p), Grammar(p), NEW n \in DOMAIN p, p[n].kind = "Logical"
  PROVE  /\ Left(p, n) \in Below(p, n) /\ p[Left(p, n)].slot = "left"
         /\ p[Left(p, n)].kind # "Function" /\ n # 1
         /\ Enters(p, n) = {Go(In(Left(p, n)))}
         /\ \A m \in Below(p, n) : p[m].slot = "left" => m = Left(p, n)
<1>1. PICK m \in DOMAIN p : At(p, n, {"left"}) = {m}
  BY DEF Grammar
<1>2. Left(p, n) = m
  BY <1>1 DEF Left, Only
<1>3. m \in Below(p, n) /\ p[m].slot = "left"
  BY <1>1 DEF At
<1>4. m \in 2..Len(p) /\ p[m].up = n /\ m \in Nat
  BY <1>3, PartFacts, TreeFacts
<1>5. p[m].kind # "Function"
  BY <1>3, <1>4 DEF Grammar
<1>6. n # 1
  BY TreeFacts
<1>7. \A q \in Below(p, n) : p[q].slot \in {"left", "right"}
  <2> SUFFICES ASSUME NEW q \in Below(p, n) PROVE p[q].slot \in {"left", "right"}
    OBVIOUS
  <2>1. q \in 2..Len(p) /\ p[q].up = n
    BY PartFacts, TreeFacts
  <2> QED BY <2>1 DEF Grammar
<1>8. At(p, n, {"list", "test", "left", "block", "expr"}) = {m}
  BY <1>1, <1>7 DEF At
<1>9. Min({m}) = m
  <2>1. {m} \in SUBSET Nat /\ IsFiniteSet({m}) /\ {m} # {}
    BY <1>4, FS_Singleton
  <2>2. Min({m}) \in {m}
    BY <2>1, MinFacts
  <2> QED BY <2>2
<1>10. Enters(p, n) = {Go(In(m))}
  BY <1>8, <1>9 DEF Enters, Loops
<1>11. \A q \in Below(p, n) : p[q].slot = "left" => q = m
  BY <1>1 DEF At
<1> QED BY <1>2, <1>3, <1>5, <1>6, <1>10, <1>11

(* Induction from the leaves: what holds of a node if of all its parts.    *)
LEMMA PartsInduction ==
  ASSUME NEW p, Tree(p), NEW S, \A n \in DOMAIN p : (\A c \in Below(p, n) : c \in S) => n \in S
  PROVE  DOMAIN p \subseteq S
<1> DEFINE L == Len(p)
           Good == {k \in Nat : \A n \in DOMAIN p : n > L - k => n \in S}
<1>1. L \in Nat /\ DOMAIN p = 1..L
  BY TreeFacts
<1>2. \A n \in DOMAIN p : \A c \in Below(p, n) : c \in DOMAIN p /\ n < c
  BY PartFacts
<1> HIDE DEF L
<1>3. 0 \in Good
  BY <1>1
<1>4. ASSUME NEW k \in Nat, k \in Good PROVE k + 1 \in Good
  <2> SUFFICES ASSUME NEW n \in DOMAIN p, n > L - (k + 1) PROVE n \in S
    OBVIOUS
  <2>1. \A c \in Below(p, n) : c \in S
    <3> SUFFICES ASSUME NEW c \in Below(p, n) PROVE c \in S
      OBVIOUS
    <3>1. c \in DOMAIN p /\ c > L - k
      BY <1>1, <1>2
    <3> QED BY <1>4, <3>1
  <2> QED BY <2>1
<1> HIDE DEF Good
<1>5. Nat \subseteq Good
  BY <1>3, <1>4, Induction
<1>6. L \in Good
  BY <1>1, <1>5
<1> QED BY <1>1, <1>6 DEF Good

(* The leftmost operand of a chain, that a counter tells.                  *)
LeafOf(p, n) == CounterOf(p, [point |-> FALSE, node |-> n])

LEMMA LeafDefined ==
  ASSUME NEW p, Tree(p), Grammar(p)
  PROVE  \A n \in DOMAIN p : LeafOf(p, n) = IF p[n].kind = "Logical" THEN LeafOf(p, Left(p, n)) ELSE n
<1> DEFINE L == Len(p)
           Body(g, m) == IF p[m].kind = "Logical" THEN g[Left(p, m)] ELSE m
           f == CHOOSE g : g = [m \in DOMAIN p |-> Body(g, m)]
           Above(k) == {m \in DOMAIN p : m > L - k}
           Defined == {k \in Nat : \E g : g = [m \in Above(k) |-> Body(g, m)]}
<1>1. \A n : LeafOf(p, n) = f[n]
  BY DEF LeafOf, CounterOf, Left
<1>2. L \in Nat /\ DOMAIN p = 1..L
  BY TreeFacts
<1>3. \A m \in DOMAIN p : p[m].kind = "Logical" => Left(p, m) \in DOMAIN p /\ m < Left(p, m)
  BY LeftFacts, PartFacts
<1> HIDE DEF L, f
<1>4. 0 \in Defined
  <2>1. Above(0) = {}
    BY <1>2
  <2>2. [m \in {} |-> {}] = [m \in {} |-> Body([k \in {} |-> {}], m)]
    OBVIOUS
  <2> HIDE DEF Body
  <2> QED BY <2>1, <2>2
<1>5. ASSUME NEW k \in Nat, k \in Defined PROVE k + 1 \in Defined
  <2>1. PICK g : g = [m \in Above(k) |-> Body(g, m)]
    BY <1>5
  <2> DEFINE h == [m \in Above(k + 1) |-> IF m \in Above(k) THEN g[m] ELSE Body(g, m)]
  <2>2. \A m \in Above(k + 1) : p[m].kind = "Logical" => Left(p, m) \in Above(k)
    BY <1>2, <1>3
  <2>3. \A m \in Above(k) : m \in Above(k + 1)
    BY <1>2
  <2> HIDE DEF Above
  <2>4. \A m \in Above(k) : h[m] = g[m]
    BY <2>3
  <2>5. \A m \in Above(k + 1) : Body(h, m) = Body(g, m)
    <3> HIDE DEF h
    <3> QED BY <2>2, <2>4
  <2> HIDE DEF Body
  <2>6. \A m \in Above(k) : g[m] = Body(g, m)
    BY <2>1, Zenon
  <2>7. \A m \in Above(k + 1) : h[m] = Body(g, m)
    BY <2>6
  <2>8. h = [m \in Above(k + 1) |-> h[m]]
    OBVIOUS
  <2> HIDE DEF h
  <2>9. h = [m \in Above(k + 1) |-> Body(h, m)]
    BY <2>5, <2>7, <2>8
  <2> QED BY <2>9
<1> HIDE DEF Body
<1>6. L \in Defined
  <2> HIDE DEF Defined
  <2> QED BY <1>2, <1>4, <1>5, Induction
<1>7. f = [m \in DOMAIN p |-> Body(f, m)]
  <2>1. Above(L) = DOMAIN p
    BY <1>2
  <2>2. \E g : g = [m \in Above(L) |-> Body(g, m)]
    BY <1>6
  <2> HIDE DEF Above
  <2>3. \E g : g = [m \in DOMAIN p |-> Body(g, m)]
    BY <2>1, <2>2
  <2> QED BY <2>3, Zenon DEF f
<1>8. \A m \in DOMAIN p : f[m] = Body(f, m)
  BY <1>7, Zenon
<1> QED BY <1>1, <1>8 DEF Body

(* It has a counter, and counts like the whole chain if every operation    *)
(* counts like its left operand.                                           *)
LEMMA LeafFacts ==
  ASSUME NEW p, Tree(p), Grammar(p), NEW n \in Logicals(p),
         NEW count, \A m \in Logicals(p) : count[m] = count[Left(p, m)]
  PROVE  LeafOf(p, n) \in CountersIn(p) /\ count[LeafOf(p, n)] = count[n]
<1> DEFINE S == {m \in DOMAIN p : m \in Logicals(p) =>
                   LeafOf(p, m) \in CountersIn(p) /\ count[LeafOf(p, m)] = count[m]}
<1>1. \A m \in DOMAIN p : (\A c \in Below(p, m) : c \in S) => m \in S
  <2> SUFFICES ASSUME NEW m \in Logicals(p), \A c \in Below(p, m) : c \in S
               PROVE  LeafOf(p, m) \in CountersIn(p) /\ count[LeafOf(p, m)] = count[m]
    OBVIOUS
  <2> DEFINE l == Left(p, m)
  <2>1. m \in DOMAIN p /\ p[m].kind = "Logical"
    BY DEF Logicals, Kinds
  <2>2. /\ l \in Below(p, m) /\ p[l].slot = "left" /\ l \in DOMAIN p /\ p[l].up = m
        /\ LeafOf(p, m) = LeafOf(p, l) /\ count[m] = count[l]
    BY <2>1, LeftFacts, LeafDefined, PartFacts
  <2> HIDE DEF l
  <2>3. CASE p[l].kind = "Logical"
    <3>1. l \in Logicals(p)
      BY <2>1, <2>2, <2>3 DEF Logicals, Kinds
    <3> QED BY <2>2, <3>1
  <2>4. CASE p[l].kind # "Logical"
    <3>1. LeafOf(p, l) = l
      BY <2>2, <2>4, LeafDefined
    <3>2. l \in CountersIn(p)
      BY <2>2, <2>4 DEF CountersIn
    <3> QED BY <2>2, <3>1, <3>2
  <2> QED BY <2>3, <2>4
<1>2. DOMAIN p \subseteq S
  <2> HIDE DEF S
  <2> QED BY <1>1, PartsInduction
<1>3. n \in DOMAIN p
  BY DEF Logicals, Kinds
<1> QED BY <1>2, <1>3

-----------------------------------------------------------------------------
(* The invariant.                                                          *)

(* What the database knows, or is being told.                              *)
AnalysisInv ==
  /\ file \in Files
  /\ extract = NotExtracting \/ Extracting(file, extract)
  /\ db.branches \in Seq(AllArms(file))
  /\ db.files # {} => db.functions = Kinds(file, Scopes) /\ db.counts = CountsOf(file, DOMAIN file)

(* The guards of a node held when they were last tested, and a case was    *)
(* selected or fallen into.                                                *)
Guarded(n) ==
  LET up == file[n].up IN
  /\ \A c \in Guards(file, n) : Held(c[1], c[2])
  /\ file[up].kind = "Switch" => \E m \in outcome[up] : m \in Nat /\ m <= n

(* Control is in the function that was called, and all that is below the   *)
(* function and around control is guarded.                                 *)
CallInv ==
  /\ DOMAIN outcome = DOMAIN file
  /\ defined \subseteq Kinds(file, {"Function"})
  /\ at = Out(at.node, at.how)
  /\ InCall => /\ at.node \in DOMAIN file
               /\ frame \in Upwards(file, at.node)
               /\ frame = 1 \/ file[frame].kind = "Function"
               /\ \A n \in Upwards(file, at.node) : frame < n => Guarded(n)

(* An operation has run as often as its left operand, or is just about to  *)
(* run it; the body of a function counts with the function.                *)
SeenInv ==
  /\ seen \in [in : [DOMAIN file -> Nat], past : [DOMAIN file -> Nat]]
  /\ \A n \in Logicals(file) :
       seen.in[n] = IF at = In(n) THEN seen.in[Left(file, n)] + 1 ELSE seen.in[Left(file, n)]

IInv == AnalysisInv /\ CallInv /\ SeenInv

LEMMA FileFacts ==
  ASSUME file \in Files
  PROVE  Tree(file) /\ Grammar(file)
BY DEF CoverageAssumption

LEMMA AnalysisStarts ==
  ASSUME Init
  PROVE  AnalysisInv
<1>1. <<>> \in Seq(AllArms(file))
  OBVIOUS
<1> QED BY <1>1 DEF Init, AnalysisInv

LEMMA AnalysisKept ==
  ASSUME AnalysisInv, [Next]_vars
  PROVE  AnalysisInv'
<1>1. file \in Files /\ Tree(file) /\ Grammar(file)
  BY FileFacts DEF AnalysisInv
<1>2. CASE ImportProject
  <2>1. Extracting(file, Untouched(file))
    BY <1>1, ExtractionStarts
  <2>2. extract' = Untouched(file) /\ file' = file /\ db' = db
    BY <1>2 DEF ImportProject
  <2> QED BY <2>1, <2>2 DEF AnalysisInv
<1>3. CASE ImportCached
  BY <1>3 DEF AnalysisInv, ImportCached, NotExtracting
<1>4. CASE Traverse
  <2>1. Extracting(file, extract) /\ ~Extracted(extract)
    BY <1>4 DEF AnalysisInv, Traverse
  <2>2. Extracting(file, Visit(file, extract))
    BY <1>1, <2>1, VisitFacts
  <2>3. extract' = Visit(file, extract) /\ file' = file /\ db' = db
    BY <1>4 DEF Traverse
  <2> QED BY <2>2, <2>3 DEF AnalysisInv
<1>5. CASE Insert
  <2>1. Extracting(file, extract) /\ Extracted(extract)
    BY <1>5 DEF AnalysisInv, Insert
  <2>2. /\ extract.functions = Kinds(file, Scopes)
        /\ extract.counts = CountsOf(file, DOMAIN file)
        /\ extract.arms \in Seq(AllArms(file))
    BY <2>1, ExtractionEnds
  <2>3. /\ extract' = NotExtracting' /\ file' = file
        /\ db'.branches = extract.arms /\ db'.functions = extract.functions
        /\ db'.counts = extract.counts
    BY <1>5 DEF Insert, NotExtracting
  <2> QED BY <1>1, <2>2, <2>3 DEF AnalysisInv
<1>6. CASE UNCHANGED <<file, extract, db>>
  BY <1>6 DEF AnalysisInv, NotExtracting
<1>7. Replay \/ Convert \/ Compare \/ UNCHANGED vars => UNCHANGED <<file, extract, db>>
  BY DEF Replay, Start, CallFunction, Step, Return, WriteDump, Convert, Compare, vars, analysis
<1> QED BY <1>2, <1>3, <1>4, <1>5, <1>6, <1>7 DEF Next, Analyze

-----------------------------------------------------------------------------
(* The replays.                                                            *)

LEMMA GuardOf ==
  ASSUME NEW p, NEW n, NEW c \in Guards(p, n)
  PROVE  c[1] = p[n].up
BY DEF Guards

LEMMA NothingFacts ==
  ASSUME NEW p
  PROVE  Nothing(p) \in [in : [DOMAIN p -> Nat], past : [DOMAIN p -> Nat]]
         /\ \A n \in DOMAIN p : Nothing(p).in[n] = 0
BY DEF Nothing

LEMMA IdleFacts ==
  /\ Exited = Out(Exited.node, Exited.how) /\ Exited.node = 0 /\ Exited.how # "in"
  /\ Idle = Out(Idle.node, Idle.how) /\ Idle.node = 0 /\ Idle.how # "in"
  /\ \A n : Exited # In(n) /\ Idle # In(n)
  /\ \A n : In(n) = Out(n, "in") /\ In(n).node = n /\ In(n).how = "in"
  /\ \A n, m : In(n) = In(m) => n = m
BY DEF Exited, Idle, Out, In

LEMMA ReplayStarts ==
  ASSUME Init
  PROVE  CallInv /\ SeenInv
<1>1. at = Exited /\ defined = {} /\ outcome = Unknown /\ seen = Nothing(file) /\ file \in Files
  BY DEF Init
<1>2. Tree(file) /\ Grammar(file)
  BY <1>1, FileFacts
<1>3. CallInv
  BY <1>1, IdleFacts DEF CallInv, InCall, Unknown
<1>4. \A n \in Logicals(file) : n \in DOMAIN file /\ Left(file, n) \in DOMAIN file
  BY <1>2, LeftFacts, PartFacts DEF Logicals, Kinds
<1>5. SeenInv
  BY <1>1, <1>4, NothingFacts, IdleFacts DEF SeenInv
<1> QED BY <1>3, <1>5

(* The operands of an operation, seen from the step that is made.          *)
LEMMA OperandFacts ==
  ASSUME file \in Files, NEW n \in Logicals(file)
  PROVE  /\ n \in DOMAIN file /\ n # 1 /\ file[n].kind = "Logical"
         /\ Left(file, n) \in DOMAIN file /\ Left(file, n) # 1 /\ Left(file, n) # n
         /\ file[Left(file, n)].up = n /\ file[Left(file, n)].slot = "left"
         /\ file[n].kind # "Function" /\ file[Left(file, n)].kind # "Function"
         /\ file[file[n].up].kind # "Function"
<1>1. n \in DOMAIN file /\ file[n].kind = "Logical" /\ file[file[n].up].kind # "Function"
  BY DEF Logicals, Kinds
<1>2. /\ Left(file, n) \in Below(file, n) /\ file[Left(file, n)].slot = "left"
      /\ file[Left(file, n)].kind # "Function" /\ n # 1
  BY <1>1, FileFacts, LeftFacts
<1>3. /\ Left(file, n) \in DOMAIN file /\ Left(file, n) # 1 /\ Left(file, n) # n
      /\ file[Left(file, n)].up = n
  BY <1>1, <1>2, FileFacts, PartFacts
<1> QED BY <1>1, <1>2, <1>3

(* Where a step leads.                                                     *)
LEMMA StepMoves ==
  ASSUME file \in Files, CallInv, InCall, ~Ended, NEW s \in Moves
  PROVE  \E u \in Upwards(file, at.node) :
           /\ u = at.node \/ u = file[at.node].up
           /\ u \in DOMAIN file /\ frame \in Upwards(file, u)
           /\ Moving(file, at.node, u, s)
           /\ s.to.how = "in" => \/ file[s.to.node].slot # "left"
                                 \/ at.how = "in" /\ s.to.node \in Below(file, at.node)
<1> DEFINE n == at.node
<1>1. n \in DOMAIN file /\ frame \in Upwards(file, n) /\ Tree(file) /\ Grammar(file)
  BY FileFacts DEF CallInv
<1>2. n \in Upwards(file, n)
  BY <1>1, UpwardsFacts
<1>3. CASE at.how = "in"
  <2>1. s \in Enters(file, n)
    BY <1>3 DEF Moves
  <2> QED BY <1>1, <1>2, <1>3, <2>1, EntersFacts
<1>4. CASE at.how # "in"
  <2>1. n # frame
    BY <1>4 DEF Ended
  <2>2. n # 1
    <3>1. Upwards(file, 1) = {1}
      BY <1>1, UpwardsDefined, TreeFacts
    <3> QED BY <1>1, <2>1, <3>1
  <2> DEFINE u == file[n].up
  <2>3. /\ u \in DOMAIN file /\ frame \in Upwards(file, u)
        /\ Upwards(file, n) = {n} \cup Upwards(file, u) /\ u \in Upwards(file, u)
    BY <1>1, <2>1, <2>2, UpwardsFacts, UpwardsDefined
  <2>4. s \in Leaves(file, n, at.how, Only(outcome[u]))
    BY <1>4 DEF Moves
  <2> QED BY <1>1, <1>4, <2>2, <2>3, <2>4, LeavesFacts
<1> QED BY <1>3, <1>4

LEMMA StepGuards ==
  ASSUME file \in Files, CallInv, Step
  PROVE  CallInv'
<1> DEFINE n == at.node
<1>1. PICK s \in Moves :
        /\ at' = s.to
        /\ outcome' = IF s.test = 0 THEN outcome ELSE [outcome EXCEPT ![s.test] = {s.outcome}]
        /\ defined' = Defining(s.to)
  BY DEF Step
<1>2. InCall /\ ~Ended /\ file' = file /\ frame' = frame
  BY DEF Step
<1>3. Tree(file) /\ Grammar(file)
  BY FileFacts
<1>4. PICK u \in Upwards(file, n) :
        /\ u = n \/ u = file[n].up
        /\ u \in DOMAIN file /\ frame \in Upwards(file, u)
        /\ Moving(file, n, u, s)
  BY <1>2, StepMoves
<1>5. /\ frame = 1 \/ file[frame].kind = "Function"
      /\ \A q \in Upwards(file, n) : frame < q => Guarded(q)
  BY <1>2 DEF CallInv
<1>6. /\ DOMAIN outcome' = DOMAIN file
      /\ \A x \in DOMAIN file : x # u => outcome'[x] = outcome[x]
      /\ s.test = u => outcome'[u] = {s.outcome}
      /\ s.test = 0 => outcome' = outcome
      /\ s.test \in {0, u} /\ u # 0
  BY <1>1, <1>3, <1>4, TreeFacts DEF CallInv, Moving
<1>7. /\ n \in DOMAIN file /\ u \in Upwards(file, u) /\ Upwards(file, u) \subseteq Upwards(file, n)
      /\ \A q \in Upwards(file, u) : q \in DOMAIN file /\ q \in Nat /\ q <= u /\ file[q].up # u
      /\ u \in Nat /\ frame \in Nat /\ frame <= u
  <2>1. n \in DOMAIN file
    BY <1>2 DEF CallInv
  <2>2. /\ u \in Upwards(file, u) /\ Upwards(file, u) \subseteq Upwards(file, n)
        /\ \A q \in Upwards(file, u) : q \in DOMAIN file /\ q <= u
    BY <1>3, <1>4, <2>1, UpwardsFacts
  <2>3. \A q \in Upwards(file, u) : q \in Nat /\ file[q].up \in 0..(q - 1)
    BY <1>3, <2>2, TreeFacts
  <2>4. \A q \in Upwards(file, u) : file[q].up # u
    BY <2>2, <2>3
  <2> QED BY <1>4, <2>1, <2>2, <2>3, <2>4
<1>8. ASSUME NEW q \in Upwards(file, u), frame < q PROVE Guarded(q)'
  <2>1. Guarded(q) /\ file[q].up # u
    BY <1>5, <1>7, <1>8
  <2>2. file[q].up \in DOMAIN file
    <3>1. q # 1
      <4>1. frame # 0
        <5>1. frame \in DOMAIN file
          BY <1>4, <1>7
        <5> QED BY <1>3, <5>1, TreeFacts
      <4> QED BY <1>7, <1>8, <4>1
    <3> QED BY <1>3, <1>7, <3>1, TreeFacts
  <2>3. outcome'[file[q].up] = outcome[file[q].up]
    BY <1>6, <2>1, <2>2
  <2>4. \A c \in Guards(file, q) : c[1] = file[q].up
    BY GuardOf
  <2> QED BY <1>2, <2>1, <2>3, <2>4 DEF Guarded, Held
<1>9. CASE s.to = Out(u, s.to.how)
  <2>1. at'.node = u /\ at' = Out(u, at'.how)
    BY <1>1, <1>9 DEF Out
  <2>2. defined' \subseteq Kinds(file, {"Function"})
    BY <1>1, <1>4, <2>1 DEF CallInv, Kinds, Defining
  <2> QED BY <1>2, <1>4, <1>5, <1>6, <1>8, <2>1, <2>2 DEF CallInv
<1>10. CASE \E q \in Below(file, u) : s.to = In(q) /\ Allows(file, n, u, q, s)
  <2>1. PICK q \in Below(file, u) : s.to = In(q) /\ Allows(file, n, u, q, s)
    BY <1>10
  <2>2. /\ q \in DOMAIN file /\ file[q].up = u /\ u < q /\ q \in Nat
        /\ Upwards(file, q) = {q} \cup Upwards(file, u)
    BY <1>3, <1>4, <2>1, PartFacts, TreeFacts
  <2>3. at'.node = q /\ at' = Out(q, at'.how)
    BY <1>1, <2>1 DEF In, Out
  <2>4. defined' \subseteq Kinds(file, {"Function"})
    BY <1>1, <2>2, <2>3 DEF CallInv, Kinds, Defining
  <2>5. Guarded(q)'
    <3>1. CASE file[u].kind # "Switch"
      <4>1. \A c \in Guards(file, q) : c = <<u, s.outcome>> /\ outcome'[u] = {s.outcome}
        BY <1>6, <2>1, <3>1 DEF Allows
      <4> QED BY <1>2, <2>2, <3>1, <4>1 DEF Guarded, Held
    <3>2. CASE file[u].kind = "Switch" /\ s.test = u /\ s.outcome = q
      <4>1. outcome'[u] = {q}
        BY <1>6, <3>2
      <4>2. Guards(file, q) \subseteq {<<u, q>>}
        BY <1>3, <1>4, <3>2, GuardFacts
      <4>3. \E m \in outcome'[u] : m \in Nat /\ m <= q
        BY <2>2, <4>1
      <4> QED BY <1>2, <2>2, <4>1, <4>2, <4>3 DEF Guarded, Held
    <3>3. CASE file[u].kind = "Switch" /\ s.test = 0 /\ n \in Below(file, u) /\ n < q
      <4>1. n \in Nat /\ file[n].up = u /\ u < n /\ n \in Upwards(file, n)
        <5>1. n \in Nat /\ n \in Upwards(file, n)
          BY <1>3, <1>7, UpwardsFacts, TreeFacts
        <5>2. file[n].up = u /\ u < n
          BY <1>3, <1>4, <3>3, PartFacts
        <5> QED BY <5>1, <5>2
      <4>2. frame < n
        BY <1>7, <4>1
      <4>3. Guarded(n)
        BY <1>5, <4>1, <4>2
      <4>4. PICK m \in outcome[u] : m \in Nat /\ m <= n
        BY <3>3, <4>1, <4>3 DEF Guarded
      <4>5. outcome' = outcome /\ m < q /\ m <= q
        BY <1>6, <2>2, <3>3, <4>1, <4>4
      <4>6. Guards(file, q) \subseteq {<<u, q>>}
        BY <1>3, <1>4, <3>3, GuardFacts
      <4> QED BY <1>2, <2>2, <3>3, <4>4, <4>5, <4>6 DEF Guarded, Held
    <3> QED BY <2>1, <3>1, <3>2, <3>3 DEF Allows
  <2>6. \A m \in Upwards(file, q) : frame < m => Guarded(m)'
    BY <1>8, <2>2, <2>5
  <2>7. frame \in Upwards(file, q)
    BY <1>4, <2>2
  <2> QED BY <1>2, <1>5, <1>6, <2>2, <2>3, <2>4, <2>6, <2>7 DEF CallInv
<1> QED BY <1>4, <1>9, <1>10 DEF Moving

LEMMA StepCounts ==
  ASSUME file \in Files, CallInv, SeenInv, Step
  PROVE  SeenInv'
<1> DEFINE n == at.node
<1>1. PICK s \in Moves : at' = s.to /\ seen' = Counts(s.to)
  BY DEF Step
<1>2. InCall /\ ~Ended /\ file' = file
  BY DEF Step
<1>3. Tree(file) /\ Grammar(file)
  BY FileFacts
<1>4. PICK u \in Upwards(file, n) :
        /\ u = n \/ u = file[n].up
        /\ u \in DOMAIN file
        /\ Moving(file, n, u, s)
        /\ s.to.how = "in" => \/ file[s.to.node].slot # "left"
                              \/ at.how = "in" /\ s.to.node \in Below(file, n)
  BY <1>2, StepMoves
<1>5. /\ n \in DOMAIN file /\ at = Out(n, at.how)
      /\ frame = 1 \/ file[frame].kind = "Function"
  BY <1>2 DEF CallInv
<1>6. s.to = Out(s.to.node, s.to.how) /\ s.to.node \in DOMAIN file
  <2>1. CASE s.to = Out(u, s.to.how)
    BY <1>4, <2>1 DEF Out
  <2>2. CASE \E q \in Below(file, u) : s.to = In(q)
    BY <2>2 DEF In, Out, Below
  <2> QED BY <1>4, <2>1, <2>2 DEF Moving
<1>7. seen \in [in : [DOMAIN file -> Nat], past : [DOMAIN file -> Nat]]
  BY DEF SeenInv
<1>8. seen' \in [in : [DOMAIN file -> Nat], past : [DOMAIN file -> Nat]]
  <2>1. \A f \in [DOMAIN file -> Nat] : \A m \in DOMAIN file : Added(f, m) \in [DOMAIN file -> Nat]
    BY DEF Added
  <2>2. seen.in \in [DOMAIN file -> Nat] /\ seen.past \in [DOMAIN file -> Nat]
    BY <1>7
  <2>3. \/ seen' = seen
        \/ seen' = [seen EXCEPT !.in = Added(seen.in, s.to.node)]
        \/ seen' = [seen EXCEPT !.past = Added(seen.past, s.to.node)]
    BY <1>1 DEF Counts
  <2>4. \A f \in [DOMAIN file -> Nat] :
          /\ [seen EXCEPT !.in = f] \in [in : [DOMAIN file -> Nat], past : [DOMAIN file -> Nat]]
          /\ [seen EXCEPT !.past = f] \in [in : [DOMAIN file -> Nat], past : [DOMAIN file -> Nat]]
    BY <1>7
  <2> QED BY <1>6, <1>7, <2>1, <2>2, <2>3, <2>4
<1>9. \A m \in DOMAIN file : m # 1 /\ file[m].kind # "Function" =>
        seen'.in[m] = IF at' = In(m) THEN seen.in[m] + 1 ELSE seen.in[m]
  <2> SUFFICES ASSUME NEW m \in DOMAIN file, m # 1, file[m].kind # "Function"
               PROVE  seen'.in[m] = IF at' = In(m) THEN seen.in[m] + 1 ELSE seen.in[m]
    OBVIOUS
  <2>1. m # frame
    BY <1>5
  <2>2. CASE at' = In(m)
    <3>1. s.to.node = m /\ s.to.how = "in" /\ s.to.node # frame
      BY <1>1, <2>1, <2>2, IdleFacts
    <3>2. seen' = [seen EXCEPT !.in = Added(seen.in, m)]
      BY <1>1, <3>1 DEF Counts
    <3>3. seen'.in = Added(seen.in, m)
      BY <1>7, <3>2
    <3> QED BY <1>7, <2>2, <3>3 DEF Added
  <2>3. CASE at' # In(m)
    <3>1. s.to.how # "in" \/ s.to.node # m
      BY <1>1, <1>6, <2>3, IdleFacts
    <3>2. \/ seen' = seen
          \/ s.to.how = "in" /\ seen' = [seen EXCEPT !.in = Added(seen.in, s.to.node)]
          \/ seen' = [seen EXCEPT !.past = Added(seen.past, s.to.node)]
      BY <1>1 DEF Counts
    <3>3. seen'.in = seen.in \/ (s.to.node # m /\ seen'.in = Added(seen.in, s.to.node))
      BY <1>7, <3>1, <3>2
    <3> QED BY <1>7, <2>3, <3>3 DEF Added
  <2> QED BY <2>2, <2>3
<1>10. ASSUME NEW m \in Logicals(file)
       PROVE  seen'.in[m] = IF at' = In(m) THEN seen'.in[Left(file, m)] + 1 ELSE seen'.in[Left(file, m)]
  <2> DEFINE l == Left(file, m)
  <2>1. /\ m \in DOMAIN file /\ m # 1 /\ file[m].kind = "Logical"
        /\ l \in DOMAIN file /\ l # 1 /\ l # m /\ file[l].up = m /\ file[l].slot = "left"
        /\ file[m].kind # "Function" /\ file[l].kind # "Function"
    BY OperandFacts
  <2>2. seen.in[m] = IF at = In(m) THEN seen.in[l] + 1 ELSE seen.in[l]
    BY DEF SeenInv
  <2>3. /\ seen'.in[m] = IF at' = In(m) THEN seen.in[m] + 1 ELSE seen.in[m]
        /\ seen'.in[l] = IF at' = In(l) THEN seen.in[l] + 1 ELSE seen.in[l]
    BY <1>9, <2>1
  <2>4. seen.in[m] \in Nat /\ seen.in[l] \in Nat
    BY <1>7, <2>1
  <2> DEFINE Same == seen'.in[m] = IF at' = In(m) THEN seen'.in[l] + 1 ELSE seen'.in[l]
  <2>5. ASSUME at = In(m) PROVE Same
    <3>1. n = m /\ at.how = "in"
      BY <2>5, IdleFacts
    <3>2. Enters(file, m) = {Go(In(Left(file, m)))}
      BY <1>3, <2>1, LeftFacts
    <3>3. at' = In(l)
      BY <1>1, <3>1, <3>2 DEF Moves, Go
    <3>4. at' # In(m)
      BY <2>1, <3>3, IdleFacts
    <3> HIDE DEF l
    <3> QED BY <2>2, <2>3, <2>4, <2>5, <3>3, <3>4
  <2>6. ASSUME at # In(m) PROVE Same
    <3>1. at' # In(l)
      <4> SUFFICES ASSUME at' = In(l) PROVE FALSE
        OBVIOUS
      <4>1. s.to.node = l /\ s.to.how = "in"
        BY <1>1 DEF In
      <4>2. at.how = "in" /\ l \in Below(file, n)
        BY <1>4, <2>1, <4>1
      <4>3. m = n
        BY <2>1, <4>2 DEF Below
      <4> QED BY <1>5, <2>6, <4>2, <4>3, IdleFacts
    <3> HIDE DEF l
    <3> QED BY <2>2, <2>3, <2>4, <2>6, <3>1
  <2> QED BY <2>5, <2>6
<1> QED BY <1>2, <1>8, <1>10 DEF SeenInv

LEMMA StartKeeps ==
  ASSUME file \in Files, CallInv, SeenInv, Start
  PROVE  CallInv' /\ SeenInv'
<1>1. /\ at' = In(1) /\ frame' = 1 /\ outcome' = Unknown /\ defined' = {} /\ file' = file
      /\ seen' = [Nothing(file) EXCEPT !.in = Added(Nothing(file).in, 1)]
  BY DEF Start
<1>2. Tree(file) /\ Grammar(file) /\ 1 \in DOMAIN file
  BY FileFacts, TreeFacts
<1>3. Upwards(file, 1) = {1}
  BY <1>2, UpwardsDefined, TreeFacts
<1>4. /\ at'.node = 1 /\ at' = Out(at'.node, at'.how)
      /\ DOMAIN outcome' = DOMAIN file
      /\ \A n \in Upwards(file, 1) : ~(1 < n)
  BY <1>1, <1>3, IdleFacts DEF Unknown
<1>5. CallInv'
  BY <1>1, <1>2, <1>3, <1>4 DEF CallInv
<1>6. /\ Nothing(file) \in [in : [DOMAIN file -> Nat], past : [DOMAIN file -> Nat]]
      /\ \A n \in DOMAIN file : Nothing(file).in[n] = 0
  BY NothingFacts
<1>7. /\ seen' \in [in : [DOMAIN file -> Nat], past : [DOMAIN file -> Nat]]
      /\ \A n \in DOMAIN file : n # 1 => seen'.in[n] = 0
  BY <1>1, <1>6 DEF Added
<1>8. \A n \in Logicals(file) : /\ n \in DOMAIN file /\ n # 1
                                /\ Left(file, n) \in DOMAIN file /\ Left(file, n) # 1
  BY OperandFacts
<1>9. \A n \in Logicals(file) : at' # In(n)
  BY <1>1, <1>8, IdleFacts
<1> QED BY <1>1, <1>5, <1>7, <1>8, <1>9 DEF SeenInv

LEMMA CallKeeps ==
  ASSUME file \in Files, CallInv, SeenInv, CallFunction
  PROVE  CallInv' /\ SeenInv'
<1>1. PICK f \in defined :
        /\ at' = In(Only(At(file, f, {"body"}))) /\ frame' = f
        /\ seen' = [Counts(at') EXCEPT !.in = Added(Counts(at').in, f)]
  BY DEF CallFunction
<1>2. at = Idle /\ outcome' = Unknown /\ file' = file /\ defined' = Defining(at')
  BY DEF CallFunction
<1>3. Tree(file) /\ Grammar(file) /\ f \in DOMAIN file /\ file[f].kind = "Function"
  BY FileFacts DEF CallInv, Kinds
<1>4. PICK q \in Below(file, f) : at' = In(q)
  <2>1. At(file, f, {"body"}) # {}
    BY <1>3 DEF Grammar
  <2>2. Only(At(file, f, {"body"})) \in Below(file, f)
    BY <2>1 DEF Only, At
  <2> QED BY <1>1, <2>2
<1>5. /\ q \in DOMAIN file /\ file[q].up = f /\ Upwards(file, q) = {q} \cup Upwards(file, f)
      /\ f \in Upwards(file, f) /\ f \in Nat
      /\ \A n \in Upwards(file, f) : n \in Nat /\ n <= f
  <2>1. q \in DOMAIN file /\ file[q].up = f /\ Upwards(file, q) = {q} \cup Upwards(file, f)
    BY <1>3, <1>4, PartFacts
  <2>2. /\ f \in Upwards(file, f) /\ Upwards(file, f) \subseteq DOMAIN file
        /\ \A n \in Upwards(file, f) : n <= f
    BY <1>3, UpwardsFacts
  <2>3. \A n \in DOMAIN file : n \in Nat
    BY <1>3, TreeFacts
  <2> QED BY <1>3, <2>1, <2>2, <2>3
<1>6. at'.node = q /\ at' = Out(at'.node, at'.how) /\ at' = In(q)
  BY <1>4, IdleFacts
<1>7. Guarded(q)'
  <2>1. Guards(file, q) = {}
    BY <1>3, <1>4, GuardFacts DEF Tested
  <2> QED BY <1>2, <1>3, <1>5, <2>1 DEF Guarded
<1>8. \A n \in Upwards(file, q) : f < n => n = q
  BY <1>5
<1>9. CallInv'
  <2>1. DOMAIN outcome' = DOMAIN file
    BY <1>2 DEF Unknown
  <2>2. defined' \subseteq Kinds(file, {"Function"})
    BY <1>2, <1>5, <1>6 DEF CallInv, Defining, Kinds
  <2>3. f \in Upwards(file, q)
    BY <1>5
  <2>4. \A n \in Upwards(file, q) : f < n => Guarded(n)'
    BY <1>7, <1>8
  <2> QED BY <1>1, <1>2, <1>3, <1>5, <1>6, <2>1, <2>2, <2>3, <2>4 DEF CallInv
<1>10. seen \in [in : [DOMAIN file -> Nat], past : [DOMAIN file -> Nat]]
  BY DEF SeenInv
<1>11. /\ seen' \in [in : [DOMAIN file -> Nat], past : [DOMAIN file -> Nat]]
       /\ \A n \in DOMAIN file : n \notin {f, q} => seen'.in[n] = seen.in[n]
  <2> DEFINE c == Counts(at')
  <2>1. c = seen \/ c = [seen EXCEPT !.in = Added(seen.in, q)]
    BY <1>6, IdleFacts DEF Counts
  <2>2. \A g \in [DOMAIN file -> Nat] : \A m \in DOMAIN file :
          Added(g, m) \in [DOMAIN file -> Nat] /\ \A n \in DOMAIN file : n # m => Added(g, m)[n] = g[n]
    BY DEF Added
  <2>3. /\ c \in [in : [DOMAIN file -> Nat], past : [DOMAIN file -> Nat]]
        /\ \A n \in DOMAIN file : n # q => c.in[n] = seen.in[n]
    <3>1. Added(seen.in, q) \in [DOMAIN file -> Nat] /\ \A n \in DOMAIN file : n # q => Added(seen.in, q)[n] = seen.in[n]
      BY <1>5, <1>10, <2>2
    <3> HIDE DEF c
    <3> QED BY <1>10, <2>1, <3>1
  <2>4. seen' = [c EXCEPT !.in = Added(c.in, f)]
    BY <1>1
  <2> HIDE DEF c
  <2>5. Added(c.in, f) \in [DOMAIN file -> Nat] /\ \A n \in DOMAIN file : n # f => Added(c.in, f)[n] = c.in[n]
    BY <1>3, <2>2, <2>3
  <2> QED BY <2>3, <2>4, <2>5
<1>12. \A n \in Logicals(file) : /\ n \in DOMAIN file /\ n \notin {f, q}
                                 /\ Left(file, n) \in DOMAIN file /\ Left(file, n) \notin {f, q}
                                 /\ file[file[n].up].kind # "Function"
  <2> SUFFICES ASSUME NEW n \in Logicals(file)
               PROVE  /\ n \in DOMAIN file /\ n \notin {f, q}
                      /\ Left(file, n) \in DOMAIN file /\ Left(file, n) \notin {f, q}
                      /\ file[file[n].up].kind # "Function"
    OBVIOUS
  <2>1. /\ n \in DOMAIN file /\ file[n].kind = "Logical"
        /\ Left(file, n) \in DOMAIN file /\ file[Left(file, n)].up = n
        /\ file[Left(file, n)].kind # "Function"
        /\ file[file[n].up].kind # "Function"
    BY <1>2, OperandFacts
  <2> QED BY <1>3, <1>5, <2>1
<1>13. \A n \in Logicals(file) : at # In(n) /\ at' # In(n)
  BY <1>2, <1>3, <1>5, <1>6, <1>12, IdleFacts
<1>14. \A n \in Logicals(file) : seen.in[n] = seen.in[Left(file, n)]
  BY <1>13 DEF SeenInv
<1>15. \A n \in Logicals(file) : seen'.in[n] = seen'.in[Left(file, n)]
  BY <1>11, <1>12, <1>14
<1> QED BY <1>2, <1>9, <1>11, <1>13, <1>15 DEF SeenInv

LEMMA ReturnKeeps ==
  ASSUME file \in Files, CallInv, SeenInv, Return
  PROVE  CallInv' /\ SeenInv'
<1>1. /\ at' = Idle /\ at.how # "in"
      /\ file' = file /\ outcome' = outcome /\ seen' = seen /\ defined' = defined
  BY DEF Return, Ended
<1>2. CallInv'
  BY <1>1, IdleFacts DEF CallInv, InCall, Idle
<1>3. \A n : at # In(n) /\ at' # In(n)
  BY <1>1, IdleFacts
<1> QED BY <1>1, <1>2, <1>3 DEF SeenInv

LEMMA DumpKeeps ==
  ASSUME file \in Files, CallInv, SeenInv, WriteDump
  PROVE  CallInv' /\ SeenInv'
<1>1. /\ at' = Exited /\ outcome' = Unknown /\ seen' = Nothing(file) /\ defined' = {} /\ file' = file
  BY DEF WriteDump
<1>2. CallInv'
  BY <1>1, IdleFacts DEF CallInv, InCall, Exited, Unknown
<1>3. \A n : at' # In(n)
  BY <1>1, IdleFacts
<1>4. \A n \in Logicals(file) : n \in DOMAIN file /\ Left(file, n) \in DOMAIN file
  BY OperandFacts
<1> QED BY <1>1, <1>2, <1>3, <1>4, NothingFacts DEF SeenInv

LEMMA ReplayKept ==
  ASSUME IInv, [Next]_vars
  PROVE  CallInv' /\ SeenInv'
<1>1. file \in Files /\ CallInv /\ SeenInv
  BY DEF IInv, AnalysisInv
<1>2. CASE UNCHANGED <<file, process>>
  BY <1>1, <1>2 DEF CallInv, SeenInv, InCall, Exited, Idle, Guarded, Held, process
<1>3. Analyze \/ Convert \/ Compare \/ UNCHANGED vars => UNCHANGED <<file, process>>
  BY DEF Analyze, ImportProject, ImportCached, Traverse, Insert, Convert, Compare, vars
<1>4. CASE Replay
  BY <1>1, <1>4, StartKeeps, CallKeeps, StepGuards, StepCounts, ReturnKeeps, DumpKeeps DEF Replay
<1> QED BY <1>2, <1>3, <1>4 DEF Next

(* The invariant holds, whatever is analyzed, called and dumped.           *)
THEOREM Invariance == Spec => []IInv
<1>1. Init => IInv
  BY AnalysisStarts, ReplayStarts DEF IInv
<1>2. IInv /\ [Next]_vars => IInv'
  BY AnalysisKept, ReplayKept DEF IInv
<1> QED BY <1>1, <1>2, PTL DEF Spec

-----------------------------------------------------------------------------
(* What follows.                                                           *)

(* An arm of the database.                                                 *)
LEMMA ArmFacts ==
  ASSUME AnalysisInv, NEW i \in DOMAIN db.branches
  PROVE  LET arm == db.branches[i] IN
         \/ /\ ~arm.point /\ arm.node \in ArmNodes(file)
            /\ arm.path = Predicates(file, arm.node)
         \/ /\ arm.point /\ arm.node \in CountersAfter(file)
            /\ arm.path = Predicates(file, file[arm.node].up)
<1>1. db.branches[i] \in AllArms(file)
  <2>1. db.branches \in Seq(AllArms(file))
    BY DEF AnalysisInv
  <2> QED BY <2>1, LenProperties
<1>2. CASE db.branches[i] \in ArmsAt(file, ArmNodes(file))
  BY <1>2 DEF ArmsAt, Arm
<1>3. CASE db.branches[i] \in PointsAt(file, CountersAfter(file))
  BY <1>3 DEF PointsAt, Continuation
<1> QED BY <1>1, <1>2, <1>3 DEF AllArms

(* Every function has its row and its counts are those of the nodes whose  *)
(* innermost function it is, although the traversal is shared by plugins   *)
(* that reverse statements while it runs (function-stack-analysis.ts).     *)
THEOREM Attribution == Spec => []AttributionAgrees
<1>1. AnalysisInv => AttributionAgrees
  <2> SUFFICES ASSUME AnalysisInv, db.files # {} PROVE AttributionAgrees
    BY DEF AttributionAgrees
  <2>1. db.functions = Kinds(file, Scopes) /\ db.counts = CountsOf(file, DOMAIN file)
    BY DEF AnalysisInv
  <2>2. \A f \in db.functions : \A m \in Metrics :
          db.counts[f][m] = Total(Weights(file), m, InFunction(file, DOMAIN file, f))
    BY <2>1 DEF CountsOf
  <2> QED BY <2>1, <2>2 DEF AttributionAgrees, Weights, InFunction, Total
<1> QED BY <1>1, Invariance, PTL DEF IInv

(* The predicates of an arm were tested in this call.                      *)
LEMMA PredicatesHold ==
  ASSUME IInv, InCall, NEW n \in Upwards(file, at.node),
         n = at.node \/ (n = file[at.node].up /\ at.node # 1 /\ file[at.node].kind # "Function"),
         NEW c \in Predicates(file, n)
  PROVE  Held(c[1], c[2])
<1>1. file \in Files /\ CallInv
  BY DEF IInv, AnalysisInv
<1>2. Tree(file) /\ Grammar(file)
  BY <1>1, FileFacts
<1>3. /\ at.node \in DOMAIN file /\ frame \in Upwards(file, at.node)
      /\ frame = 1 \/ file[frame].kind = "Function"
      /\ \A q \in Upwards(file, at.node) : frame < q => Guarded(q)
  BY <1>1 DEF CallInv
<1>4. PICK q \in Upwards(file, n) \ {1} :
        /\ \A f \in Upwards(file, n) : file[f].kind = "Function" => f < q
        /\ c \in Guards(file, q)
  BY DEF Predicates
<1>5. Upwards(file, n) \subseteq Upwards(file, at.node) /\ Upwards(file, n) \subseteq DOMAIN file
  BY <1>2, <1>3, UpwardsFacts
<1>6. q \in Nat /\ q # 0
  BY <1>2, <1>4, <1>5, TreeFacts
<1>7. frame < q
  <2>1. CASE frame = 1
    BY <1>4, <1>6, <2>1
  <2>2. CASE file[frame].kind = "Function"
    <3>1. frame \in Upwards(file, n)
      BY <1>2, <1>3, <2>2, UpwardsFacts
    <3> QED BY <1>4, <2>2, <3>1
  <2> QED BY <1>3, <2>1, <2>2
<1>8. Guarded(q)
  BY <1>3, <1>4, <1>5, <1>7
<1> QED BY <1>4, <1>8 DEF Guarded

(* Whenever an arm runs, every predicate that computeBranchPredicates      *)
(* stored for it held when it was last tested in the call.                 *)
THEOREM Paths == Spec => []PathsHold
<1>1. IInv => PathsHold
  <2> SUFFICES ASSUME IInv, InCall, NEW i \in DOMAIN db.branches, Entered(db.branches[i]),
                      NEW c \in db.branches[i].path
               PROVE  Held(c[1], c[2])
    BY DEF PathsHold
  <2> DEFINE arm == db.branches[i]
  <2>1. AnalysisInv /\ file \in Files /\ CallInv
    BY DEF IInv, AnalysisInv
  <2>2. at.node \in DOMAIN file /\ Tree(file)
    BY <2>1, FileFacts DEF CallInv
  <2>3. \/ ~arm.point /\ arm.path = Predicates(file, arm.node)
        \/ /\ arm.point /\ arm.node \in CountersAfter(file)
           /\ arm.path = Predicates(file, file[arm.node].up)
    BY <2>1, ArmFacts
  <2>4. at.node = arm.node
    BY DEF Entered, In, Out
  <2>5. at.node \in Upwards(file, at.node)
    BY <2>2, UpwardsFacts
  <2>6. CASE ~arm.point
    BY <2>3, <2>4, <2>5, <2>6, PredicatesHold
  <2>7. CASE arm.point
    <3>1. file[at.node].kind \notin {"Function", "Program"}
      BY <2>3, <2>4, <2>7 DEF CountersAfter, Kinds, Loops
    <3>2. at.node # 1
      BY <2>2, <3>1, TreeFacts
    <3>3. file[at.node].up \in Upwards(file, at.node)
      <4>1. file[at.node].up \in DOMAIN file
        BY <2>2, <3>2, TreeFacts
      <4>2. file[at.node].up \in Upwards(file, file[at.node].up)
        BY <2>2, <4>1, UpwardsFacts
      <4> QED BY <2>2, <4>2, UpwardsDefined
    <3> QED BY <2>3, <2>4, <2>7, <3>1, <3>2, <3>3, PredicatesHold
  <2> QED BY <2>6, <2>7
<1> QED BY <1>1, Invariance, PTL

(* Every arm but the file has a counter in the instrumented file, that is  *)
(* hit exactly as often as the arm runs (instrument.ts).                   *)
THEOREM Counters == Spec => []CountersCount
<1>1. IInv => CountersCount
  <2> SUFFICES ASSUME IInv, NEW i \in DOMAIN db.branches, db.branches[i].node # 1
               PROVE  LET arm == db.branches[i]
                          n   == CounterOf(file, arm)
                      IN IF arm.point THEN n \in CountersAfter(file)
                         ELSE n \in CountersIn(file) /\ (at.how # "in" => seen.in[n] = seen.in[arm.node])
    BY DEF CountersCount
  <2> DEFINE arm == db.branches[i]
             m == arm.node
  <2>1. AnalysisInv /\ file \in Files /\ SeenInv
    BY DEF IInv, AnalysisInv
  <2>2. Tree(file) /\ Grammar(file)
    BY <2>1, FileFacts
  <2>3. \/ ~arm.point /\ m \in ArmNodes(file)
        \/ arm.point /\ m \in CountersAfter(file)
    BY <2>1, ArmFacts
  <2>4. CASE arm.point
    BY <2>3, <2>4 DEF CounterOf
  <2>5. CASE ~arm.point
    <3>1. CounterOf(file, arm) = LeafOf(file, m)
      BY <2>5 DEF CounterOf, LeafOf
    <3>2. m \in DOMAIN file
      BY <2>3, <2>5 DEF ArmNodes
    <3>3. CASE m \in Logicals(file)
      <4>1. LeafOf(file, m) \in CountersIn(file)
        <5> DEFINE none == [n \in DOMAIN file |-> 0]
        <5>1. \A n \in Logicals(file) : none[n] = none[Left(file, n)]
          BY <2>1, OperandFacts
        <5> HIDE DEF none
        <5> QED BY <2>2, <3>3, <5>1, LeafFacts
      <4>2. ASSUME at.how # "in" PROVE seen.in[LeafOf(file, m)] = seen.in[m]
        <5>1. \A n \in Logicals(file) : at # In(n)
          BY <4>2, IdleFacts
        <5>2. \A n \in Logicals(file) : seen.in[n] = seen.in[Left(file, n)]
          BY <2>1, <5>1 DEF SeenInv
        <5> QED BY <2>2, <3>3, <5>2, LeafFacts
      <4> QED BY <2>5, <3>1, <4>1, <4>2
    <3>4. CASE m \notin Logicals(file)
      <4>1. m \in CountersIn(file) /\ file[m].kind # "Logical"
        <5>1. file[m].kind = "Logical" => file[file[m].up].kind = "Function"
          BY <3>2, <3>4 DEF Logicals, Kinds
        <5>2. m \in CountersIn(file)
          BY <2>3, <2>5, <5>1 DEF ArmNodes
        <5>3. file[m].kind # "Logical"
          <6> SUFFICES ASSUME file[m].kind = "Logical" PROVE FALSE
            OBVIOUS
          <6>1. file[file[m].up].kind = "Function"
            BY <5>1
          <6>2. m \in 2..Len(file)
            BY <2>2, <3>2, TreeFacts
          <6>3. file[m].slot \notin {"consequent", "alternate", "block", "finalizer"}
            BY <2>2, <6>1, <6>2 DEF Grammar
          <6>4. file[m].kind \notin {"Function", "Case", "Default"}
            OBVIOUS
          <6> QED BY <5>2, <6>1, <6>3, <6>4 DEF CountersIn, Loops
        <5> QED BY <5>2, <5>3
      <4>2. LeafOf(file, m) = m
        BY <2>2, <3>2, <4>1, LeafDefined
      <4> QED BY <2>5, <3>1, <4>1, <4>2
    <3> QED BY <3>3, <3>4
  <2> QED BY <2>4, <2>5
<1> QED BY <1>1, Invariance, PTL

-----------------------------------------------------------------------------
(* Reading a text, line by line.                                           *)
Totals == {"FNF", "FNH", "LF", "LH", "BRF", "BRH"}
PathNames == STRING \cup {"index.js"}  \* the provers do not know that the constant is a string
Line == {<<"TN">>, <<"end_of_record">>} \cup ({"SF"} \X PathNames) \cup (Totals \X Nat)
        \cup ({"DA"} \X Nat \X Nat) \cup ({"BRDA"} \X Nat \X Nat \X Nat \X Nat)
        \cup ({"FN", "FNDA"} \X Nat \X STRING)
Steps(f, text, a) == f[0] = a /\ \A k \in 1..Len(text) : f[k] = ReadLine(f[k - 1], text[k])
Reads(text, a, b) == \E f : Steps(f, text, a) /\ b = f[Len(text)]

Unread == [files |-> <<>>, current |-> NoFile]

(* A text that can be read line by line is parsed by reading it so.        *)
LEMMA ParseFacts ==
  ASSUME NEW text \in Seq(Line), NEW b, Reads(text, Unread, b)
  PROVE  ParseLcov(text) = b.files
<1> DEFINE n == Len(text)
           Body(h, k) == IF k = 0 THEN Unread ELSE ReadLine(h[k - 1], text[k])
           d == CHOOSE h : h = [k \in 0..n |-> Body(h, k)]
<1>1. n \in Nat
  OBVIOUS
<1>2. PICK f : Steps(f, text, Unread) /\ b = f[n]
  BY DEF Reads
<1>3. ParseLcov(text) = d[n].files
  BY DEF ParseLcov, Unread
<1> DEFINE g == [k \in 0..n |-> f[k]]
<1> HIDE DEF n
<1>4. \A k \in 0..n : g[k] = Body(g, k)
  <2>1. n = Len(text)
    BY DEF n
  <2>2. g[0] = Unread /\ \A k \in 1..n : g[k] = f[k] /\ g[k - 1] = f[k - 1]
    BY <1>1, <1>2 DEF Steps
  <2>3. \A k \in 1..n : f[k] = ReadLine(f[k - 1], text[k])
    BY <1>2, <2>1 DEF Steps
  <2> HIDE DEF g
  <2>4. \A k \in 0..n : k = 0 \/ k \in 1..n
    BY <1>1
  <2> QED BY <2>2, <2>3, <2>4
<1>5. g = [k \in 0..n |-> Body(g, k)]
  <2>1. g = [k \in 0..n |-> g[k]]
    OBVIOUS
  <2> HIDE DEF g, Body
  <2> QED BY <1>4, <2>1, Zenon
<1> HIDE DEF g, Body
<1>6. d = [k \in 0..n |-> Body(d, k)]
  BY <1>5
<1> HIDE DEF d
<1>7. \A k \in 0..n : d[k] = Body(d, k)
  BY <1>6, Zenon
<1> DEFINE Good == {k \in Nat : k <= n => d[k] = g[k]}
<1>8. Nat \subseteq Good
  <2>1. 0 \in Good
    BY <1>1, <1>4, <1>7 DEF Body
  <2>2. ASSUME NEW k \in Nat, k \in Good PROVE k + 1 \in Good
    <3> SUFFICES ASSUME k + 1 <= n PROVE d[k + 1] = g[k + 1]
      OBVIOUS
    <3>1. k + 1 \in 0..n /\ k + 1 # 0 /\ (k + 1) - 1 = k /\ d[k] = g[k]
      BY <1>1, <2>2
    <3> QED BY <1>4, <1>7, <3>1 DEF Body
  <2> HIDE DEF Good
  <2> QED BY <2>1, <2>2, Induction
<1>9. d[n] = g[n] /\ g[n] = f[n]
  <2>1. n \in 0..n /\ n <= n
    BY <1>1
  <2>2. n \in Good
    BY <1>1, <1>8
  <2>3. d[n] = g[n]
    BY <2>1, <2>2
  <2>4. g[n] = f[n]
    BY <2>1 DEF g
  <2> QED BY <2>3, <2>4
<1> QED BY <1>2, <1>3, <1>9

(* Reading a text and then another is reading the one after the other.     *)
LEMMA ReadsNext ==
  ASSUME NEW s \in Seq(Line), NEW t \in Seq(Line), NEW a, NEW b, NEW c, Reads(s, a, b), Reads(t, b, c)
  PROVE  Reads(s \o t, a, c)
<1> DEFINE m == Len(s)
           n == Len(t)
<1>1. PICK f : Steps(f, s, a) /\ b = f[m]
  BY DEF Reads
<1>2. PICK g : Steps(g, t, b) /\ c = g[n]
  BY DEF Reads
<1>3. /\ m \in Nat /\ n \in Nat /\ Len(s \o t) = m + n
      /\ \A i \in 1..m : (s \o t)[i] = s[i]
      /\ \A i \in 1..n : (s \o t)[m + i] = t[i]
  BY Concatenated
<1> DEFINE h == [k \in 0..(m + n) |-> IF k <= m THEN f[k] ELSE g[k - m]]
<1>4. /\ f[0] = a /\ \A k \in 1..m : f[k] = ReadLine(f[k - 1], s[k])
      /\ g[0] = b /\ \A k \in 1..n : g[k] = ReadLine(g[k - 1], t[k])
  BY <1>1, <1>2 DEF Steps
<1>5. \A k \in 0..m : h[k] = f[k]
  BY <1>3
<1>6. \A k \in 0..n : h[m + k] = g[k]
  <2>1. ASSUME NEW k \in 0..n PROVE h[m + k] = g[k]
    <3>1. CASE k = 0
      BY <1>1, <1>3, <1>4, <3>1
    <3>2. CASE k # 0
      BY <1>3, <3>2
    <3> QED BY <3>1, <3>2
  <2> QED BY <2>1
<1> HIDE DEF h, m, n
<1>7. \A k \in 1..(m + n) : h[k] = ReadLine(h[k - 1], (s \o t)[k])
  <2> SUFFICES ASSUME NEW k \in 1..(m + n) PROVE h[k] = ReadLine(h[k - 1], (s \o t)[k])
    OBVIOUS
  <2>1. CASE k <= m
    <3>1. k \in 1..m /\ k \in 0..m /\ k - 1 \in 0..m
      BY <1>3, <2>1
    <3>2. h[k] = f[k] /\ h[k - 1] = f[k - 1] /\ (s \o t)[k] = s[k]
      BY <1>3, <1>5, <3>1
    <3> QED BY <1>4, <3>1, <3>2
  <2>2. CASE k > m
    <3>1. PICK j \in 1..n : k = m + j
      <4>1. k - m \in 1..n /\ k = m + (k - m)
        BY <1>3, <2>2
      <4> QED BY <4>1
    <3>2. j \in 0..n /\ j - 1 \in 0..n /\ k - 1 = m + (j - 1)
      BY <1>3, <3>1
    <3>3. h[k] = g[j] /\ h[k - 1] = g[j - 1] /\ (s \o t)[k] = t[j]
      BY <1>3, <1>6, <3>1, <3>2
    <3> QED BY <1>4, <3>1, <3>3
  <2> QED BY <1>3, <2>1, <2>2
<1>8. h[0] = a /\ h[m + n] = c
  BY <1>2, <1>3, <1>4, <1>5, <1>6 DEF n
<1>9. Steps(h, s \o t, a) /\ c = h[Len(s \o t)]
  BY <1>3, <1>7, <1>8 DEF Steps
<1> QED BY <1>9 DEF Reads

(* A text of one line.                                                     *)
LEMMA ReadsOne ==
  ASSUME NEW l \in Line, NEW a
  PROVE  <<l>> \in Seq(Line) /\ Reads(<<l>>, a, ReadLine(a, l))
<1> DEFINE f == [k \in 0..1 |-> IF k = 0 THEN a ELSE ReadLine(a, l)]
<1>1. <<l>> \in Seq(Line) /\ Len(<<l>>) = 1 /\ <<l>>[1] = l
  OBVIOUS
<1>2. f[0] = a /\ f[1] = ReadLine(a, l)
  OBVIOUS
<1> HIDE DEF f
<1>3. \A k \in 1..1 : k = 1 /\ k - 1 = 0
  OBVIOUS
<1>4. Steps(f, <<l>>, a)
  BY <1>1, <1>2, <1>3 DEF Steps
<1> QED BY <1>1, <1>2, <1>4 DEF Reads

(* The record that is being read.                                          *)
FileOf(path, ln, br, fn, fd) ==
  [path |-> path, lines |-> ln, branches |-> br, functions |-> fn, fnData |-> fd]
Acc(files, current) == [files |-> files, current |-> current]

(* What each kind of line adds to the record.                              *)
LEMMA ReadDA ==
  ASSUME NEW p, NEW ln, NEW br, NEW fn, NEW fd, NEW x, NEW c
  PROVE  ReadLine(Acc(<<>>, FileOf(p, ln, br, fn, fd)), <<"DA", x, c>>)
           = Acc(<<>>, FileOf(p, Append(ln, [line |-> x, count |-> c]), br, fn, fd))
  BY DEF ReadLine, Acc, FileOf

LEMMA ReadBRDA ==
  ASSUME NEW p, NEW ln, NEW br, NEW fn, NEW fd, NEW x, NEW y, NEW z, NEW c
  PROVE  ReadLine(Acc(<<>>, FileOf(p, ln, br, fn, fd)), <<"BRDA", x, y, z, c>>)
           = Acc(<<>>, FileOf(p, ln, Append(br, [line |-> x, block |-> y, expr |-> z, count |-> c]), fn, fd))
  BY DEF ReadLine, Acc, FileOf

LEMMA ReadFN ==
  ASSUME NEW p, NEW ln, NEW br, NEW fn, NEW fd, NEW x, NEW y
  PROVE  ReadLine(Acc(<<>>, FileOf(p, ln, br, fn, fd)), <<"FN", x, y>>)
           = Acc(<<>>, FileOf(p, ln, br, Append(fn, [line |-> x, name |-> y]), fd))
  BY DEF ReadLine, Acc, FileOf

LEMMA ReadFNDA ==
  ASSUME NEW p, NEW ln, NEW br, NEW fn, NEW fd, NEW x, NEW c
  PROVE  ReadLine(Acc(<<>>, FileOf(p, ln, br, fn, fd)), <<"FNDA", c, x>>)
           = Acc(<<>>, FileOf(p, ln, br, fn, Append(fd, [name |-> x, count |-> c])))
  BY DEF ReadLine, Acc, FileOf

(* The end of a record closes it.                                          *)
LEMMA ReadEnd ==
  ASSUME NEW p, NEW ln, NEW br, NEW fn, NEW fd, p # ""
  PROVE  ReadLine(Acc(<<>>, FileOf(p, ln, br, fn, fd)), <<"end_of_record">>)
           = Acc(<<FileOf(p, ln, br, fn, fd)>>, NoFile)
<1> DEFINE record == FileOf(p, ln, br, fn, fd)
           a == Acc(<<>>, record)
<1>1. a.files = <<>> /\ a.current = record /\ a.current.path = p
  BY DEF Acc, FileOf
<1>2. Append(<<>>, record) = <<record>>
  BY Singles
<1> HIDE DEF a, record
<1>3. ReadLine(a, <<"end_of_record">>) = Acc(Append(a.files, a.current), NoFile)
  BY <1>1 DEF ReadLine, Acc
<1> QED BY <1>1, <1>2, <1>3 DEF a, record

(* The lines that say nothing.                                             *)
LEMMA ReadNothing ==
  ASSUME NEW p, NEW ln, NEW br, NEW fn, NEW fd, NEW total \in Totals, NEW x
  PROVE  /\ ReadLine(Acc(<<>>, FileOf(p, ln, br, fn, fd)), <<"TN">>) = Acc(<<>>, FileOf(p, ln, br, fn, fd))
         /\ ReadLine(Acc(<<>>, FileOf(p, ln, br, fn, fd)), <<total, x>>)
              = Acc(<<>>, FileOf(p, ln, br, fn, fd))
  BY DEF ReadLine, Acc, FileOf, Totals

(* A part of the record that grows with every line of a text.              *)
LEMMA ReadsEach ==
  ASSUME NEW S, NEW s \in Seq(S), NEW text, NEW acc,
         \A k \in 1..Len(s) : text[k] \in Line,
         text = [k \in 1..Len(s) |-> text[k]],
         \A t \in Seq(S) : \A k \in 1..Len(s) : ReadLine(acc[t], text[k]) = acc[Append(t, s[k])]
  PROVE  text \in Seq(Line) /\ Reads(text, acc[<<>>], acc[s])
<1> DEFINE n == Len(s)
           f == [k \in 0..n |-> acc[SubSeq(s, 1, k)]]
<1>1. n \in Nat /\ \A k \in 1..n : s[k] \in S
  OBVIOUS
<1>2. text \in Seq(Line) /\ Len(text) = n
  <2>1. text \in [1..n -> Line]
    OBVIOUS
  <2> QED BY <1>1, <2>1, FunctionIsSeq
<1>3. \A k \in 0..n : f[k] = acc[SubSeq(s, 1, k)]
  OBVIOUS
<1> HIDE DEF f
<1>4. f[0] = acc[<<>>] /\ f[n] = acc[s]
  <2>1. 0 \in 0..n /\ n \in 0..n
    BY <1>1
  <2>2. SubSeq(s, 1, 0) = <<>> /\ SubSeq(s, 1, n) = s
    BY Growing
  <2> HIDE DEF n
  <2> QED BY <1>3, <2>1, <2>2
<1>5. ASSUME NEW k \in 1..n PROVE f[k] = ReadLine(f[k - 1], text[k])
  <2>1. k \in 0..n /\ k - 1 \in 0..n
    BY <1>1
  <2>2. SubSeq(s, 1, k - 1) \in Seq(S)
    <3>1. \A i \in 1 .. (k - 1) : s[i] \in S
      BY <1>1
    <3> QED BY <1>1, <3>1, SubSeqProperties
  <2>3. Append(SubSeq(s, 1, k - 1), s[k]) = SubSeq(s, 1, k)
    BY Growing
  <2>4. ReadLine(acc[SubSeq(s, 1, k - 1)], text[k]) = acc[Append(SubSeq(s, 1, k - 1), s[k])]
    BY <2>2
  <2> QED BY <1>3, <2>1, <2>3, <2>4
<1> HIDE DEF n
<1>6. Steps(f, text, acc[<<>>]) /\ acc[s] = f[Len(text)]
  BY <1>2, <1>4, <1>5 DEF Steps
<1> QED BY <1>2, <1>6 DEF Reads

(* The records of a file.                                                  *)
LineData == [line : Nat, count : Nat]
BranchData == [line : Nat, block : Nat, expr : Nat, count : Nat]
FnRef == [line : Nat, name : STRING]
FnData == [name : STRING, count : Nat]

FnLines(fn) == Each(fn, LAMBDA f : <<"FN", f.line, f.name>>)
FndaLines(fd) == Each(fd, LAMBDA f : <<"FNDA", f.count, f.name>>)
DaLines(ln) == Each(ln, LAMBDA l : <<"DA", l.line, l.count>>)
BrdaLines(br) == Each(br, LAMBDA b : <<"BRDA", b.line, b.block, b.expr, b.count>>)

(* Reading the lines of each kind adds all that they were written for.     *)
LEMMA ReadsLines ==
  ASSUME NEW p, NEW ln \in Seq(LineData), NEW br, NEW fn, NEW fd
  PROVE  /\ DaLines(ln) \in Seq(Line)
         /\ Reads(DaLines(ln), Acc(<<>>, FileOf(p, <<>>, br, fn, fd)), Acc(<<>>, FileOf(p, ln, br, fn, fd)))
<1> DEFINE acc == [t \in Seq(LineData) |-> Acc(<<>>, FileOf(p, t, br, fn, fd))]
           text == DaLines(ln)
<1>1. Len(ln) \in Nat /\ DOMAIN ln = 1..Len(ln) /\ <<>> \in Seq(LineData)
      /\ \A t \in Seq(LineData) : \A k \in 1..Len(ln) : Append(t, ln[k]) \in Seq(LineData)
  OBVIOUS
<1>2. text = [k \in 1..Len(ln) |-> <<"DA", ln[k].line, ln[k].count>>]
  BY <1>1 DEF DaLines, Each
<1>3. \A k \in 1..Len(ln) : /\ ln[k].line \in Nat /\ ln[k].count \in Nat
                            /\ ln[k] = [line |-> ln[k].line, count |-> ln[k].count]
  <2>1. \A k \in 1..Len(ln) : ln[k] \in LineData
    OBVIOUS
  <2> QED BY <2>1 DEF LineData
<1>4. \A k \in 1..Len(ln) : text[k] \in Line
  <2>1. ASSUME NEW x \in Nat, NEW c \in Nat PROVE <<"DA", x, c>> \in Line
    BY DEF Line
  <2> QED BY <1>2, <1>3, <2>1
<1>5. text = [k \in 1..Len(ln) |-> text[k]]
  BY <1>2
<1>6. \A t \in Seq(LineData) : acc[t] = Acc(<<>>, FileOf(p, t, br, fn, fd))
  OBVIOUS
<1>7. \A k \in 1..Len(ln) : text[k] = <<"DA", ln[k].line, ln[k].count>>
  BY <1>2
<1> HIDE DEF acc, text
<1>8. ASSUME NEW t \in Seq(LineData), NEW k \in 1..Len(ln)
      PROVE  ReadLine(acc[t], text[k]) = acc[Append(t, ln[k])]
  <2>1. ReadLine(Acc(<<>>, FileOf(p, t, br, fn, fd)), <<"DA", ln[k].line, ln[k].count>>)
          = Acc(<<>>, FileOf(p, Append(t, [line |-> ln[k].line, count |-> ln[k].count]), br, fn, fd))
    BY ReadDA
  <2> QED BY <1>1, <1>3, <1>6, <1>7, <2>1
<1>9. text \in Seq(Line) /\ Reads(text, acc[<<>>], acc[ln])
  BY <1>4, <1>5, <1>8, ReadsEach
<1> QED BY <1>1, <1>6, <1>9 DEF text

LEMMA ReadsBranches ==
  ASSUME NEW p, NEW ln, NEW br \in Seq(BranchData), NEW fn, NEW fd
  PROVE  /\ BrdaLines(br) \in Seq(Line)
         /\ Reads(BrdaLines(br), Acc(<<>>, FileOf(p, ln, <<>>, fn, fd)), Acc(<<>>, FileOf(p, ln, br, fn, fd)))
<1> DEFINE acc == [t \in Seq(BranchData) |-> Acc(<<>>, FileOf(p, ln, t, fn, fd))]
           text == BrdaLines(br)
<1>1. Len(br) \in Nat /\ DOMAIN br = 1..Len(br) /\ <<>> \in Seq(BranchData)
      /\ \A t \in Seq(BranchData) : \A k \in 1..Len(br) : Append(t, br[k]) \in Seq(BranchData)
  OBVIOUS
<1>2. text = [k \in 1..Len(br) |-> <<"BRDA", br[k].line, br[k].block, br[k].expr, br[k].count>>]
  BY <1>1 DEF BrdaLines, Each
<1>3. \A k \in 1..Len(br) : /\ br[k].line \in Nat /\ br[k].block \in Nat /\ br[k].expr \in Nat /\ br[k].count \in Nat
                            /\ br[k] = [line |-> br[k].line, block |-> br[k].block, expr |-> br[k].expr, count |-> br[k].count]
  <2>1. \A k \in 1..Len(br) : br[k] \in BranchData
    OBVIOUS
  <2> QED BY <2>1 DEF BranchData
<1>4. \A k \in 1..Len(br) : text[k] \in Line
  <2>1. ASSUME NEW x \in Nat, NEW y \in Nat, NEW z \in Nat, NEW c \in Nat PROVE <<"BRDA", x, y, z, c>> \in Line
    BY DEF Line
  <2>2. \A k \in 1..Len(br) : <<"BRDA", br[k].line, br[k].block, br[k].expr, br[k].count>> \in Line
    BY <1>3, <2>1
  <2>3. \A k \in 1..Len(br) : text[k] = <<"BRDA", br[k].line, br[k].block, br[k].expr, br[k].count>>
    BY <1>2
  <2> HIDE DEF text
  <2> QED BY <2>2, <2>3
<1>5. text = [k \in 1..Len(br) |-> text[k]]
  BY <1>2
<1>6. \A t \in Seq(BranchData) : acc[t] = Acc(<<>>, FileOf(p, ln, t, fn, fd))
  OBVIOUS
<1>7. \A k \in 1..Len(br) : text[k] = <<"BRDA", br[k].line, br[k].block, br[k].expr, br[k].count>>
  BY <1>2
<1> HIDE DEF acc, text
<1>8. ASSUME NEW t \in Seq(BranchData), NEW k \in 1..Len(br)
      PROVE  ReadLine(acc[t], text[k]) = acc[Append(t, br[k])]
  <2>1. ReadLine(Acc(<<>>, FileOf(p, ln, t, fn, fd)), <<"BRDA", br[k].line, br[k].block, br[k].expr, br[k].count>>)
          = Acc(<<>>, FileOf(p, ln, Append(t, [line |-> br[k].line, block |-> br[k].block, expr |-> br[k].expr, count |-> br[k].count]), fn, fd))
    BY ReadBRDA
  <2> QED BY <1>1, <1>3, <1>6, <1>7, <2>1
<1>9. text \in Seq(Line) /\ Reads(text, acc[<<>>], acc[br])
  BY <1>4, <1>5, <1>8, ReadsEach
<1> QED BY <1>1, <1>6, <1>9 DEF text

LEMMA ReadsFunctions ==
  ASSUME NEW p, NEW ln, NEW br, NEW fn \in Seq(FnRef), NEW fd
  PROVE  /\ FnLines(fn) \in Seq(Line)
         /\ Reads(FnLines(fn), Acc(<<>>, FileOf(p, ln, br, <<>>, fd)), Acc(<<>>, FileOf(p, ln, br, fn, fd)))
<1> DEFINE acc == [t \in Seq(FnRef) |-> Acc(<<>>, FileOf(p, ln, br, t, fd))]
           text == FnLines(fn)
<1>1. Len(fn) \in Nat /\ DOMAIN fn = 1..Len(fn) /\ <<>> \in Seq(FnRef)
      /\ \A t \in Seq(FnRef) : \A k \in 1..Len(fn) : Append(t, fn[k]) \in Seq(FnRef)
  OBVIOUS
<1>2. text = [k \in 1..Len(fn) |-> <<"FN", fn[k].line, fn[k].name>>]
  BY <1>1 DEF FnLines, Each
<1>3. \A k \in 1..Len(fn) : /\ fn[k].line \in Nat /\ fn[k].name \in STRING
                            /\ fn[k] = [line |-> fn[k].line, name |-> fn[k].name]
  <2>1. \A k \in 1..Len(fn) : fn[k] \in FnRef
    OBVIOUS
  <2> QED BY <2>1 DEF FnRef
<1>4. \A k \in 1..Len(fn) : text[k] \in Line
  <2>1. ASSUME NEW x \in Nat, NEW y \in STRING PROVE <<"FN", x, y>> \in Line
    BY DEF Line
  <2> QED BY <1>2, <1>3, <2>1
<1>5. text = [k \in 1..Len(fn) |-> text[k]]
  BY <1>2
<1>6. \A t \in Seq(FnRef) : acc[t] = Acc(<<>>, FileOf(p, ln, br, t, fd))
  OBVIOUS
<1>7. \A k \in 1..Len(fn) : text[k] = <<"FN", fn[k].line, fn[k].name>>
  BY <1>2
<1> HIDE DEF acc, text
<1>8. ASSUME NEW t \in Seq(FnRef), NEW k \in 1..Len(fn)
      PROVE  ReadLine(acc[t], text[k]) = acc[Append(t, fn[k])]
  <2>1. ReadLine(Acc(<<>>, FileOf(p, ln, br, t, fd)), <<"FN", fn[k].line, fn[k].name>>)
          = Acc(<<>>, FileOf(p, ln, br, Append(t, [line |-> fn[k].line, name |-> fn[k].name]), fd))
    BY ReadFN
  <2> QED BY <1>1, <1>3, <1>6, <1>7, <2>1
<1>9. text \in Seq(Line) /\ Reads(text, acc[<<>>], acc[fn])
  BY <1>4, <1>5, <1>8, ReadsEach
<1> QED BY <1>1, <1>6, <1>9 DEF text

LEMMA ReadsFnData ==
  ASSUME NEW p, NEW ln, NEW br, NEW fn, NEW fd \in Seq(FnData)
  PROVE  /\ FndaLines(fd) \in Seq(Line)
         /\ Reads(FndaLines(fd), Acc(<<>>, FileOf(p, ln, br, fn, <<>>)), Acc(<<>>, FileOf(p, ln, br, fn, fd)))
<1> DEFINE acc == [t \in Seq(FnData) |-> Acc(<<>>, FileOf(p, ln, br, fn, t))]
           text == FndaLines(fd)
<1>1. Len(fd) \in Nat /\ DOMAIN fd = 1..Len(fd) /\ <<>> \in Seq(FnData)
      /\ \A t \in Seq(FnData) : \A k \in 1..Len(fd) : Append(t, fd[k]) \in Seq(FnData)
  OBVIOUS
<1>2. text = [k \in 1..Len(fd) |-> <<"FNDA", fd[k].count, fd[k].name>>]
  BY <1>1 DEF FndaLines, Each
<1>3. \A k \in 1..Len(fd) : /\ fd[k].name \in STRING /\ fd[k].count \in Nat
                            /\ fd[k] = [name |-> fd[k].name, count |-> fd[k].count]
  <2>1. \A k \in 1..Len(fd) : fd[k] \in FnData
    OBVIOUS
  <2> QED BY <2>1 DEF FnData
<1>4. \A k \in 1..Len(fd) : text[k] \in Line
  <2>1. ASSUME NEW c \in Nat, NEW x \in STRING PROVE <<"FNDA", c, x>> \in Line
    BY DEF Line
  <2> QED BY <1>2, <1>3, <2>1
<1>5. text = [k \in 1..Len(fd) |-> text[k]]
  BY <1>2
<1>6. \A t \in Seq(FnData) : acc[t] = Acc(<<>>, FileOf(p, ln, br, fn, t))
  OBVIOUS
<1>7. \A k \in 1..Len(fd) : text[k] = <<"FNDA", fd[k].count, fd[k].name>>
  BY <1>2
<1> HIDE DEF acc, text
<1>8. ASSUME NEW t \in Seq(FnData), NEW k \in 1..Len(fd)
      PROVE  ReadLine(acc[t], text[k]) = acc[Append(t, fd[k])]
  <2>1. ReadLine(Acc(<<>>, FileOf(p, ln, br, fn, t)), <<"FNDA", fd[k].count, fd[k].name>>)
          = Acc(<<>>, FileOf(p, ln, br, fn, Append(t, [name |-> fd[k].name, count |-> fd[k].count])))
    BY ReadFNDA
  <2> QED BY <1>1, <1>3, <1>6, <1>7, <2>1
<1>9. text \in Seq(Line) /\ Reads(text, acc[<<>>], acc[fd])
  BY <1>4, <1>5, <1>8, ReadsEach
<1> QED BY <1>1, <1>6, <1>9 DEF text

(* What is read of a text that has no totals, and of one that has.         *)
LEMMA FirstLines ==
  ASSUME NEW p \in PathNames
  PROVE  /\ <<<<"TN">>, <<"SF", p>>>> \in Seq(Line)
         /\ Reads(<<<<"TN">>, <<"SF", p>>>>, Unread, Acc(<<>>, FileOf(p, <<>>, <<>>, <<>>, <<>>)))
<1>1. Unread = Acc(<<>>, FileOf("", <<>>, <<>>, <<>>, <<>>))
  BY DEF Unread, Acc, NoFile, FileOf
<1>2. <<"TN">> \in Line /\ <<"SF", p>> \in Line
  BY DEF Line
<1>3. /\ <<<<"TN">>>> \in Seq(Line) /\ <<<<"SF", p>>>> \in Seq(Line)
      /\ Reads(<<<<"TN">>>>, Unread, ReadLine(Unread, <<"TN">>))
      /\ Reads(<<<<"SF", p>>>>, Unread, ReadLine(Unread, <<"SF", p>>))
  BY <1>2, ReadsOne
<1>4. ReadLine(Unread, <<"TN">>) = Unread
      /\ ReadLine(Unread, <<"SF", p>>) = Acc(<<>>, FileOf(p, <<>>, <<>>, <<>>, <<>>))
  <2> DEFINE a == Acc(<<>>, FileOf("", <<>>, <<>>, <<>>, <<>>))
  <2>1. ReadLine(a, <<"TN">>) = a
    <3>1. "LF" \in Totals
      BY DEF Totals
    <3> QED BY <3>1, ReadNothing
  <2>2. ReadLine(a, <<"SF", p>>) = Acc(<<>>, FileOf(p, <<>>, <<>>, <<>>, <<>>))
    BY DEF ReadLine, Acc, FileOf, NoFile
  <2> HIDE DEF a
  <2>3. Unread = a
    BY <1>1 DEF a
  <2> QED BY <2>1, <2>2, <2>3
<1>5. Reads(<<<<"TN">>>> \o <<<<"SF", p>>>>, Unread, Acc(<<>>, FileOf(p, <<>>, <<>>, <<>>, <<>>)))
  BY <1>3, <1>4, ReadsNext
<1>6. <<<<"TN">>>> \o <<<<"SF", p>>>> = <<<<"TN">>, <<"SF", p>>>> /\ <<<<"TN">>, <<"SF", p>>>> \in Seq(Line)
  <2> DEFINE x == <<"TN">>
             y == <<"SF", p>>
  <2>1. x \in Line /\ y \in Line
    BY <1>2
  <2> HIDE DEF x, y
  <2>2. <<x>> \o <<y>> = <<x, y>> /\ <<x, y>> \in Seq(Line)
    BY <2>1, Pairs
  <2> QED BY <2>2 DEF x, y
<1> QED BY <1>5, <1>6

(* The totals change nothing.                                              *)
LEMMA TotalLines ==
  ASSUME NEW t \in Totals, NEW u \in Totals, NEW m \in Nat, NEW n \in Nat,
         NEW p, NEW ln, NEW br, NEW fn, NEW fd
  PROVE  /\ <<<<t, m>>, <<u, n>>>> \in Seq(Line)
         /\ Reads(<<<<t, m>>, <<u, n>>>>, Acc(<<>>, FileOf(p, ln, br, fn, fd)),
                  Acc(<<>>, FileOf(p, ln, br, fn, fd)))
<1> DEFINE a == Acc(<<>>, FileOf(p, ln, br, fn, fd))
           x == <<t, m>>
           y == <<u, n>>
<1>1. x \in Line /\ y \in Line
  BY DEF Line
<1>2. ReadLine(a, x) = a /\ ReadLine(a, y) = a
  BY ReadNothing
<1> HIDE DEF a, x, y
<1>3. /\ <<x>> \in Seq(Line) /\ <<y>> \in Seq(Line) /\ Reads(<<x>>, a, a) /\ Reads(<<y>>, a, a)
  BY <1>1, <1>2, ReadsOne
<1>4. Reads(<<x>> \o <<y>>, a, a)
  BY <1>3, ReadsNext
<1>5. <<x>> \o <<y>> = <<x, y>> /\ <<x, y>> \in Seq(Line)
  BY <1>1, Pairs
<1>6. Reads(<<x, y>>, a, a) /\ <<x, y>> \in Seq(Line)
  BY <1>4, <1>5
<1> QED BY <1>6 DEF a, x, y

(* The last line closes the record.                                        *)
LEMMA LastLine ==
  ASSUME NEW p, p # "", NEW ln, NEW br, NEW fn, NEW fd
  PROVE  /\ <<<<"end_of_record">>>> \in Seq(Line)
         /\ Reads(<<<<"end_of_record">>>>, Acc(<<>>, FileOf(p, ln, br, fn, fd)),
                  Acc(<<FileOf(p, ln, br, fn, fd)>>, NoFile))
<1>1. <<"end_of_record">> \in Line
  BY DEF Line
<1>2. ReadLine(Acc(<<>>, FileOf(p, ln, br, fn, fd)), <<"end_of_record">>)
        = Acc(<<FileOf(p, ln, br, fn, fd)>>, NoFile)
  BY ReadEnd
<1> QED BY <1>1, <1>2, ReadsOne

-----------------------------------------------------------------------------
(* Selecting from a sequence.                                              *)

(* t has those of the first n elements of s that are at places in P, once. *)
Selects(t, s, n, P) ==
  \E pos : /\ \A k \in 1..Len(t) : pos[k] \in 1..n /\ pos[k] \in P /\ t[k] = s[pos[k]]
           /\ \A i \in 1..n : i \in P => \E k \in 1..Len(t) : pos[k] = i
           /\ \A k, l \in 1..Len(t) : pos[k] = pos[l] => k = l

(* The next element is selected, or is not.                                *)
LEMMA SelectsOneMore ==
  ASSUME NEW S, NEW s \in Seq(S), NEW P, NEW t \in Seq(S), NEW n \in Nat,
         n + 1 \in 1..Len(s), Selects(t, s, n, P)
  PROVE  LET one == IF n + 1 \in P THEN <<s[n + 1]>> ELSE <<>>
         IN t \o one \in Seq(S) /\ Selects(t \o one, s, n + 1, P)
<1> DEFINE m == Len(t)
<1>1. PICK pos : /\ \A k \in 1..m : pos[k] \in 1..n /\ pos[k] \in P /\ t[k] = s[pos[k]]
                 /\ \A i \in 1..n : i \in P => \E k \in 1..m : pos[k] = i
                 /\ \A k, l \in 1..m : pos[k] = pos[l] => k = l
  BY DEF Selects
<1>2. \A i \in 1..(n + 1) : i \in 1..n \/ i = n + 1
  OBVIOUS
<1>3. CASE n + 1 \in P
  <2> DEFINE x == s[n + 1]
             u == t \o <<x>>
             q == [k \in 1..(m + 1) |-> IF k = m + 1 THEN n + 1 ELSE pos[k]]
  <2>1. x \in S /\ <<x>> \in Seq(S) /\ Len(<<x>>) = 1 /\ <<x>>[1] = x
    OBVIOUS
  <2>2. /\ u \in Seq(S) /\ Len(u) = m + 1 /\ m \in Nat
        /\ (\A k \in 1..m : u[k] = t[k]) /\ u[m + 1] = x
    <3> HIDE DEF x
    <3>1. 1 \in 1..Len(<<x>>)
      BY <2>1
    <3> QED BY <2>1, <3>1, Concatenated
  <2>3. (\A k \in 1..m : q[k] = pos[k]) /\ q[m + 1] = n + 1
    BY <2>2
  <2>4. \A k \in 1..(m + 1) : k \in 1..m \/ k = m + 1
    BY <2>2
  <2>5. m + 1 \in 1..(m + 1) /\ (\A k \in 1..m : k \in 1..(m + 1)) /\ n + 1 \in 1..(n + 1)
        /\ (\A i \in 1..n : i \in 1..(n + 1) /\ i # n + 1)
    BY <2>2
  <2> HIDE DEF u, q, x, m
  <2>6. \A k \in 1..(m + 1) : q[k] \in 1..(n + 1) /\ q[k] \in P /\ u[k] = s[q[k]]
    BY <1>1, <1>3, <2>2, <2>3, <2>4, <2>5 DEF x
  <2>7. \A i \in 1..(n + 1) : i \in P => \E k \in 1..(m + 1) : q[k] = i
    BY <1>1, <1>2, <2>3, <2>5
  <2>8. \A k, l \in 1..(m + 1) : q[k] = q[l] => k = l
    BY <1>1, <2>3, <2>4, <2>5
  <2>9. Selects(u, s, n + 1, P)
    <3>1. /\ \A k \in 1..Len(u) : q[k] \in 1..(n + 1) /\ q[k] \in P /\ u[k] = s[q[k]]
          /\ \A i \in 1..(n + 1) : i \in P => \E k \in 1..Len(u) : q[k] = i
          /\ \A k, l \in 1..Len(u) : q[k] = q[l] => k = l
      BY <2>2, <2>6, <2>7, <2>8
    <3> QED BY <3>1, Zenon DEF Selects
  <2> QED BY <1>3, <2>2, <2>9 DEF u, x
<1>4. CASE n + 1 \notin P
  <2>1. t \o <<>> = t
    BY ConcatEmptySeq
  <2>2. \A k \in 1..m : pos[k] \in 1..(n + 1) /\ pos[k] \in P /\ t[k] = s[pos[k]]
    BY <1>1
  <2>3. \A i \in 1..(n + 1) : i \in P => \E k \in 1..m : pos[k] = i
    BY <1>1, <1>2, <1>4
  <2>4. \A k, l \in 1..m : pos[k] = pos[l] => k = l
    BY <1>1
  <2>5. Selects(t, s, n + 1, P)
    BY <2>2, <2>3, <2>4, Zenon DEF Selects
  <2> QED BY <1>4, <2>1, <2>5
<1> QED BY <1>3, <1>4

(* Picked selects from the whole sequence.                                 *)
LEMMA PickedFacts ==
  ASSUME NEW S, NEW s \in Seq(S), NEW P
  PROVE  Picked(s, P) \in Seq(S) /\ Selects(Picked(s, P), s, Len(s), P)
<1> DEFINE n == Len(s)
           one(i) == IF i \in P THEN <<s[i]>> ELSE <<>>
           ones == [i \in 1..n |-> one(i)]
<1>1. n \in Nat /\ DOMAIN s = 1..n /\ \A i \in 1..n : s[i] \in S
  OBVIOUS
<1>2. Picked(s, P) = FlattenSeq(ones)
  BY <1>1 DEF Picked
<1>3. ones \in Seq(Seq(S)) /\ Len(ones) = n /\ \A i \in 1..n : ones[i] = one(i)
  <2>1. \A i \in 1..n : one(i) \in Seq(S)
    BY <1>1
  <2>2. ones \in [1..n -> Seq(S)]
    BY <2>1
  <2>3. \A i \in 1..n : ones[i] = one(i)
    OBVIOUS
  <2> HIDE DEF ones, n
  <2> QED BY <1>1, <2>2, <2>3, FunctionIsSeq
<1>4. <<>> \in Seq(S) /\ Selects(<<>>, s, 0, P)
  <2>1. <<>> \in Seq(S) /\ Len(<<>>) = 0 /\ 1..0 = {}
    OBVIOUS
  <2> QED BY <2>1 DEF Selects
<1> HIDE DEF ones
<1>5. CASE n = 0
  <2>1. FlattenSeq(ones) = ones /\ ones = <<>>
    BY <1>3, <1>5, EmptySeq DEF FlattenSeq
  <2> QED BY <1>2, <1>4, <1>5, <2>1
<1>6. CASE n # 0
  <2>1. PICK f : /\ FlattenSeq(ones) = f[n] /\ f[1] = ones[1]
                 /\ \A i \in 2..n : f[i] = f[i - 1] \o ones[i]
    BY <1>1, <1>3, <1>6, FlattenDefined
  <2> DEFINE Good == {m \in Nat : m \in 1..n => f[m] \in Seq(S) /\ Selects(f[m], s, m, P)}
  <2> HIDE DEF n
  <2>2. 0 \in Good
    OBVIOUS
  <2>3. ASSUME NEW m \in Nat, m \in Good PROVE m + 1 \in Good
    <3> SUFFICES ASSUME m + 1 \in 1..n
                 PROVE  f[m + 1] \in Seq(S) /\ Selects(f[m + 1], s, m + 1, P)
      OBVIOUS
    <3>1. m + 1 \in 1..Len(s) /\ ones[m + 1] = one(m + 1)
      BY <1>3 DEF n
    <3>2. CASE m = 0
      <4>1. f[m + 1] = one(m + 1)
        BY <2>1, <3>1, <3>2
      <4>2. <<>> \o one(m + 1) = one(m + 1)
        <5>1. one(m + 1) \in Seq(S)
          BY <1>1, <3>1
        <5> HIDE DEF one
        <5> QED BY <5>1, ConcatEmptySeq
      <4>3. <<>> \o one(m + 1) \in Seq(S) /\ Selects(<<>> \o one(m + 1), s, m + 1, P)
        BY <1>4, <3>1, <3>2, SelectsOneMore
      <4> HIDE DEF one
      <4> QED BY <4>1, <4>2, <4>3
    <3>3. CASE m # 0
      <4>1. m \in 1..n /\ m + 1 \in 2..n /\ (m + 1) - 1 = m
        BY <1>1, <3>3
      <4>2. f[m + 1] = f[m] \o one(m + 1)
        BY <2>1, <3>1, <4>1
      <4>3. f[m] \in Seq(S) /\ Selects(f[m], s, m, P)
        BY <2>3, <4>1
      <4>4. f[m] \o one(m + 1) \in Seq(S) /\ Selects(f[m] \o one(m + 1), s, m + 1, P)
        BY <3>1, <4>3, SelectsOneMore
      <4> QED BY <4>2, <4>4
    <3> QED BY <3>2, <3>3
  <2>4. n \in Good
    <3> HIDE DEF Good
    <3> QED BY <1>1, <2>2, <2>3, Induction
  <2> QED BY <1>1, <1>2, <1>6, <2>1, <2>4 DEF n
<1> QED BY <1>5, <1>6

(* The only one that is selected.                                          *)
LEMMA PickedOne ==
  ASSUME NEW S, NEW s \in Seq(S), NEW i \in 1..Len(s)
  PROVE  Picked(s, {i}) = <<s[i]>>
<1> DEFINE t == Picked(s, {i})
<1>1. t \in Seq(S) /\ Selects(t, s, Len(s), {i})
  BY PickedFacts
<1> HIDE DEF t
<1>2. PICK pos : /\ \A k \in 1..Len(t) : pos[k] = i /\ t[k] = s[pos[k]]
                 /\ \E k \in 1..Len(t) : pos[k] = i
                 /\ \A k, l \in 1..Len(t) : pos[k] = pos[l] => k = l
  BY <1>1 DEF Selects
<1>3. Len(t) = 1
  <2>1. Len(t) \in Nat /\ \A k, l \in 1..Len(t) : k = l
    BY <1>1, <1>2
  <2>2. PICK k \in 1..Len(t) : TRUE
    BY <1>2
  <2>3. Len(t) >= 1
    BY <2>1, <2>2
  <2>4. ~(Len(t) >= 2)
    <3> SUFFICES ASSUME Len(t) >= 2 PROVE FALSE
      OBVIOUS
    <3>1. 1 \in 1..Len(t) /\ 2 \in 1..Len(t)
      BY <2>1
    <3>2. 1 = 2
      BY <2>1, <3>1
    <3> QED BY <3>2
  <2> DEFINE l == Len(t)
  <2>5. l \in Nat /\ l >= 1 /\ ~(l >= 2)
    BY <2>1, <2>3, <2>4
  <2> HIDE DEF l
  <2>6. l = 1
    BY <2>5
  <2> QED BY <2>6 DEF l
<1>4. t[1] = s[i] /\ s[i] \in S
  BY <1>2, <1>3
<1>5. <<s[i]>> \in Seq(S) /\ Len(<<s[i]>>) = 1 /\ <<s[i]>>[1] = s[i]
  BY <1>4
<1>6. \A k \in 1..1 : k = 1
  OBVIOUS
<1>7. t = <<s[i]>>
  BY <1>1, <1>3, <1>4, <1>5, <1>6, SeqEqual
<1> QED BY <1>7 DEF t

(* When there is nothing to select.                                        *)
LEMMA PickedNone ==
  ASSUME NEW S, NEW s \in Seq(S), NEW P, P \cap DOMAIN s = {}
  PROVE  Picked(s, P) = <<>>
<1> DEFINE t == Picked(s, P)
<1>1. t \in Seq(S) /\ Selects(t, s, Len(s), P)
  BY PickedFacts
<1> HIDE DEF t
<1>2. \A k \in 1..Len(t) : FALSE
  BY <1>1 DEF Selects
<1>3. Len(t) = 0
  <2>1. Len(t) \in Nat
    BY <1>1
  <2>2. Len(t) # 0 => 1 \in 1..Len(t)
    BY <2>1
  <2> QED BY <1>2, <2>2
<1>4. t = <<>>
  BY <1>1, <1>3, EmptySeq
<1> QED BY <1>4 DEF t

-----------------------------------------------------------------------------
(* Whole files.                                                            *)
Opening(p) == <<<<"TN">>, <<"SF", p>>>>
Total2(t, m, u, n) == <<<<t, m>>, <<u, n>>>>
Closing == <<<<"end_of_record">>>>

(* The text that c8 writes of a run.                                       *)
LEMMA ReadsDump ==
  ASSUME NEW p \in PathNames, p # "", NEW ln \in Seq(LineData), NEW br \in Seq(BranchData),
         NEW fn \in Seq(FnRef), NEW fd \in Seq(FnData)
  PROVE  ParseLcov(Opening(p) \o FnLines(fn) \o FndaLines(fd) \o DaLines(ln) \o BrdaLines(br)
                   \o Closing) = <<FileOf(p, ln, br, fn, fd)>>
<1> DEFINE t1 == Opening(p)
           t2 == t1 \o FnLines(fn)
           t3 == t2 \o FndaLines(fd)
           t4 == t3 \o DaLines(ln)
           t5 == t4 \o BrdaLines(br)
           t6 == t5 \o Closing
           acc(l, b, f, d) == Acc(<<>>, FileOf(p, l, b, f, d))
<1>1. t1 \in Seq(Line) /\ Reads(t1, Unread, acc(<<>>, <<>>, <<>>, <<>>))
  BY FirstLines DEF Opening
<1> HIDE DEF t1
<1>2. t2 \in Seq(Line) /\ Reads(t2, Unread, acc(<<>>, <<>>, fn, <<>>))
  <2>1. FnLines(fn) \in Seq(Line) /\ Reads(FnLines(fn), acc(<<>>, <<>>, <<>>, <<>>), acc(<<>>, <<>>, fn, <<>>))
    BY ReadsFunctions
  <2> HIDE DEF acc
  <2> QED BY <1>1, <2>1, Concatenated, ReadsNext
<1> HIDE DEF t2
<1>3. t3 \in Seq(Line) /\ Reads(t3, Unread, acc(<<>>, <<>>, fn, fd))
  <2>1. FndaLines(fd) \in Seq(Line) /\ Reads(FndaLines(fd), acc(<<>>, <<>>, fn, <<>>), acc(<<>>, <<>>, fn, fd))
    BY ReadsFnData
  <2> HIDE DEF acc
  <2> QED BY <1>2, <2>1, Concatenated, ReadsNext
<1> HIDE DEF t3
<1>4. t4 \in Seq(Line) /\ Reads(t4, Unread, acc(ln, <<>>, fn, fd))
  <2>1. DaLines(ln) \in Seq(Line) /\ Reads(DaLines(ln), acc(<<>>, <<>>, fn, fd), acc(ln, <<>>, fn, fd))
    BY ReadsLines
  <2> HIDE DEF acc
  <2> QED BY <1>3, <2>1, Concatenated, ReadsNext
<1> HIDE DEF t4
<1>5. t5 \in Seq(Line) /\ Reads(t5, Unread, acc(ln, br, fn, fd))
  <2>1. BrdaLines(br) \in Seq(Line) /\ Reads(BrdaLines(br), acc(ln, <<>>, fn, fd), acc(ln, br, fn, fd))
    BY ReadsBranches
  <2> HIDE DEF acc
  <2> QED BY <1>4, <2>1, Concatenated, ReadsNext
<1> HIDE DEF t5
<1>6. t6 \in Seq(Line) /\ Reads(t6, Unread, Acc(<<FileOf(p, ln, br, fn, fd)>>, NoFile))
  <2>1. Closing \in Seq(Line) /\ Reads(Closing, acc(ln, br, fn, fd), Acc(<<FileOf(p, ln, br, fn, fd)>>, NoFile))
    BY LastLine DEF Closing
  <2> HIDE DEF acc
  <2> QED BY <1>5, <2>1, Concatenated, ReadsNext
<1> HIDE DEF t6
<1>7. ParseLcov(t6) = Acc(<<FileOf(p, ln, br, fn, fd)>>, NoFile).files
  BY <1>6, ParseFacts
<1>8. \A x, y : Acc(x, y).files = x
  BY DEF Acc
<1> QED BY <1>7, <1>8 DEF t1, t2, t3, t4, t5, t6

(* The totals that formatLcov writes are numbers.                          *)
LEMMA SizeFacts ==
  ASSUME NEW S, NEW s \in Seq(S)
  PROVE  Len(s) \in Nat /\ Cardinality(Hit(s)) \in Nat
<1>1. Len(s) \in Nat /\ DOMAIN s = 1..Len(s)
  BY LenProperties
<1>2. IsFiniteSet(1..Len(s))
  BY <1>1, FS_Interval
<1>3. IsFiniteSet(Hit(s))
  BY <1>1, <1>2, FS_Subset DEF Hit
<1> QED BY <1>1, <1>3, FS_CardinalityType

(* What formatLcov writes of a file is read as the file.                   *)
LEMMA ReadsFile ==
  ASSUME NEW p \in PathNames, p # "", NEW ln \in Seq(LineData), NEW br \in Seq(BranchData),
         NEW fn \in Seq(FnRef), NEW fd \in Seq(FnData)
  PROVE  ParseLcov(FileLines(FileOf(p, ln, br, fn, fd))) = <<FileOf(p, ln, br, fn, fd)>>
<1> DEFINE hits(s) == Cardinality(Hit(s))
           total1 == Total2("FNF", Len(fn), "FNH", hits(fd))
           total2 == Total2("LF", Len(ln), "LH", hits(ln))
           total3 == Total2("BRF", Len(br), "BRH", hits(br))
           t1 == Opening(p)
           t2 == t1 \o FnLines(fn)
           t3 == t2 \o total1
           t4 == t3 \o FndaLines(fd)
           t5 == t4 \o DaLines(ln)
           t6 == t5 \o total2
           t7 == t6 \o BrdaLines(br)
           last == <<<<"BRF", Len(br)>>, <<"BRH", hits(br)>>, <<"end_of_record">>>>
           t8 == t7 \o last
           acc(l, b, f, d) == Acc(<<>>, FileOf(p, l, b, f, d))
           record == FileOf(p, ln, br, fn, fd)
<1>1. FileLines(record) = t8
  BY DEF FileLines, FileOf, Opening, FnLines, FndaLines, DaLines, BrdaLines, Total2
<1>2. \A s \in {ln, br, fn, fd} : Len(s) \in Nat /\ hits(s) \in Nat
  BY SizeFacts
<1>3. /\ total1 \in Seq(Line) /\ Reads(total1, acc(<<>>, <<>>, fn, <<>>), acc(<<>>, <<>>, fn, <<>>))
      /\ total2 \in Seq(Line) /\ Reads(total2, acc(ln, <<>>, fn, fd), acc(ln, <<>>, fn, fd))
      /\ total3 \in Seq(Line) /\ Reads(total3, acc(ln, br, fn, fd), acc(ln, br, fn, fd))
  <2> HIDE DEF hits
  <2>1. {"FNF", "FNH", "LF", "LH", "BRF", "BRH"} \subseteq Totals
    BY DEF Totals
  <2>2. total1 \in Seq(Line) /\ Reads(total1, acc(<<>>, <<>>, fn, <<>>), acc(<<>>, <<>>, fn, <<>>))
    BY <1>2, <2>1, TotalLines DEF Total2
  <2>3. total2 \in Seq(Line) /\ Reads(total2, acc(ln, <<>>, fn, fd), acc(ln, <<>>, fn, fd))
    BY <1>2, <2>1, TotalLines DEF Total2
  <2>4. total3 \in Seq(Line) /\ Reads(total3, acc(ln, br, fn, fd), acc(ln, br, fn, fd))
    BY <1>2, <2>1, TotalLines DEF Total2
  <2> QED BY <2>2, <2>3, <2>4
<1>4. /\ Closing \in Seq(Line) /\ Reads(Closing, acc(ln, br, fn, fd), Acc(<<record>>, NoFile))
  BY LastLine DEF Closing
<1>5. last = total3 \o Closing
  <2> DEFINE x == <<"BRF", Len(br)>>
             y == <<"BRH", hits(br)>>
             z == <<"end_of_record">>
  <2>1. <<x, y>> \o <<z>> = <<x, y, z>>
    <3> DEFINE S == {x, y, z}
    <3>1. x \in S /\ y \in S /\ z \in S
      OBVIOUS
    <3> HIDE DEF S, x, y, z
    <3> QED BY <3>1, Triples
  <2> QED BY <2>1 DEF Total2, Closing
<1>6. last \in Seq(Line) /\ Reads(last, acc(ln, br, fn, fd), Acc(<<record>>, NoFile))
  <2> HIDE DEF total3, last, acc, record
  <2> QED BY <1>3, <1>4, <1>5, Concatenated, ReadsNext
<1> HIDE DEF last, total1, total2, total3, hits, record
<1>7. t1 \in Seq(Line) /\ Reads(t1, Unread, acc(<<>>, <<>>, <<>>, <<>>))
  BY FirstLines DEF Opening
<1> HIDE DEF t1
<1>8. t2 \in Seq(Line) /\ Reads(t2, Unread, acc(<<>>, <<>>, fn, <<>>))
  <2>1. FnLines(fn) \in Seq(Line) /\ Reads(FnLines(fn), acc(<<>>, <<>>, <<>>, <<>>), acc(<<>>, <<>>, fn, <<>>))
    BY ReadsFunctions
  <2> HIDE DEF acc
  <2> QED BY <1>7, <2>1, Concatenated, ReadsNext
<1> HIDE DEF t2
<1>9. t3 \in Seq(Line) /\ Reads(t3, Unread, acc(<<>>, <<>>, fn, <<>>))
  <2> HIDE DEF acc
  <2> QED BY <1>3, <1>8, Concatenated, ReadsNext
<1> HIDE DEF t3
<1>10. t4 \in Seq(Line) /\ Reads(t4, Unread, acc(<<>>, <<>>, fn, fd))
  <2>1. FndaLines(fd) \in Seq(Line) /\ Reads(FndaLines(fd), acc(<<>>, <<>>, fn, <<>>), acc(<<>>, <<>>, fn, fd))
    BY ReadsFnData
  <2> HIDE DEF acc
  <2> QED BY <1>9, <2>1, Concatenated, ReadsNext
<1> HIDE DEF t4
<1>11. t5 \in Seq(Line) /\ Reads(t5, Unread, acc(ln, <<>>, fn, fd))
  <2>1. DaLines(ln) \in Seq(Line) /\ Reads(DaLines(ln), acc(<<>>, <<>>, fn, fd), acc(ln, <<>>, fn, fd))
    BY ReadsLines
  <2> HIDE DEF acc
  <2> QED BY <1>10, <2>1, Concatenated, ReadsNext
<1> HIDE DEF t5
<1>12. t6 \in Seq(Line) /\ Reads(t6, Unread, acc(ln, <<>>, fn, fd))
  <2> HIDE DEF acc
  <2> QED BY <1>3, <1>11, Concatenated, ReadsNext
<1> HIDE DEF t6
<1>13. t7 \in Seq(Line) /\ Reads(t7, Unread, acc(ln, br, fn, fd))
  <2>1. BrdaLines(br) \in Seq(Line) /\ Reads(BrdaLines(br), acc(ln, <<>>, fn, fd), acc(ln, br, fn, fd))
    BY ReadsBranches
  <2> HIDE DEF acc
  <2> QED BY <1>12, <2>1, Concatenated, ReadsNext
<1> HIDE DEF t7
<1>14. t8 \in Seq(Line) /\ Reads(t8, Unread, Acc(<<record>>, NoFile))
  <2> HIDE DEF acc
  <2> QED BY <1>6, <1>13, Concatenated, ReadsNext
<1> HIDE DEF t8
<1>15. ParseLcov(t8) = Acc(<<record>>, NoFile).files
  BY <1>14, ParseFacts
<1>16. \A x, y : Acc(x, y).files = x
  BY DEF Acc
<1> QED BY <1>1, <1>15, <1>16 DEF record

(* What formatLcov writes of one file, and of none.                        *)
LEMMA FormatFacts ==
  ASSUME NEW f
  PROVE  FormatLcov(<<f>>) = FileLines(f) /\ FormatLcov(<<>>) = <<>> /\ ParseLcov(<<>>) = <<>>
<1>1. FormatLcov(<<f>>) = FileLines(f)
  <2>1. Each(<<f>>, FileLines) = <<FileLines(f)>>
    BY DEF Each
  <2> QED BY <2>1, FlattenOne DEF FormatLcov
<1>2. FormatLcov(<<>>) = <<>>
  <2>1. Each(<<>>, FileLines) = <<>> /\ Len(<<>>) = 0
    BY DEF Each
  <2> QED BY <2>1 DEF FormatLcov, FlattenSeq
<1>3. ParseLcov(<<>>) = <<>>
  <2>1. <<>> \in Seq(Line) /\ Len(<<>>) = 0 /\ 1..0 = {}
    OBVIOUS
  <2>2. Reads(<<>>, Unread, Unread)
    <3> DEFINE f0 == [k \in 0..0 |-> Unread]
    <3>1. f0[0] = Unread
      OBVIOUS
    <3> HIDE DEF f0
    <3>2. Steps(f0, <<>>, Unread)
      BY <2>1, <3>1 DEF Steps
    <3> QED BY <2>1, <3>1, <3>2 DEF Reads
  <2>3. ParseLcov(<<>>) = Unread.files
    BY <2>1, <2>2, ParseFacts
  <2> QED BY <2>3 DEF Unread
<1> QED BY <1>1, <1>2, <1>3

-----------------------------------------------------------------------------
(* The lcov.info files of the runs.                                        *)

FunctionNodes == Kinds(file, {"Function"})
BlockNodes == {n \in DOMAIN file : Counted(file, n) /\ file[n].kind \notin Scopes}
Fns == InOrder(FunctionNodes)
Blocks == InOrder(BlockNodes)
LnOf(c) == Each(Nodes, LAMBDA n : [line |-> n, count |-> c[n]])
BrOf(c) == Each(Blocks, LAMBDA n : [line |-> n, block |-> n, expr |-> 0, count |-> c[n]])
FnOf == Each(Fns, LAMBDA n : [line |-> n, name |-> FunctionName(n)])
FdOf(c) == Each(Fns, LAMBDA n : [name |-> FunctionName(n), count |-> c[n]])
ReportOf(c) == FileOf("index.js", LnOf(c), BrOf(c), FnOf, FdOf(c))

(* The nodes in order, and some of them.                                   *)
LEMMA OrderFacts ==
  ASSUME Tree(file), NEW S \in SUBSET DOMAIN file
  PROVE  /\ Nodes \in Seq(DOMAIN file) /\ Len(Nodes) = Len(file) /\ DOMAIN file = 1..Len(file)
         /\ Len(file) \in Nat /\ \A n \in DOMAIN file : Nodes[n] = n /\ n \in Nat
         /\ InOrder(S) \in Seq(S)
         /\ \A n \in S : \E k \in DOMAIN InOrder(S) : InOrder(S)[k] = n
         /\ \A k, l \in DOMAIN InOrder(S) : InOrder(S)[k] = InOrder(S)[l] => k = l
<1> DEFINE t == InOrder(S)
<1>1. DOMAIN file = 1..Len(file) /\ Len(file) \in Nat
  BY LenProperties DEF Tree
<1>2. Nodes \in [1..Len(file) -> DOMAIN file] /\ \A n \in DOMAIN file : Nodes[n] = n
  BY <1>1 DEF Nodes
<1>3. Nodes \in Seq(DOMAIN file) /\ Len(Nodes) = Len(file)
  BY <1>1, <1>2, FunctionIsSeq
<1>4. t \in Seq(DOMAIN file) /\ Selects(t, Nodes, Len(file), S)
  BY <1>3, PickedFacts DEF InOrder
<1> HIDE DEF t
<1>5. PICK pos : /\ \A k \in 1..Len(t) : pos[k] \in 1..Len(file) /\ pos[k] \in S /\ t[k] = Nodes[pos[k]]
                 /\ \A i \in 1..Len(file) : i \in S => \E k \in 1..Len(t) : pos[k] = i
                 /\ \A k, l \in 1..Len(t) : pos[k] = pos[l] => k = l
  BY <1>4 DEF Selects
<1>6. DOMAIN t = 1..Len(t) /\ Len(t) \in Nat
  BY <1>4, LenProperties
<1>7. \A k \in 1..Len(t) : t[k] = pos[k] /\ t[k] \in S
  BY <1>1, <1>2, <1>5
<1>8. t \in Seq(S)
  <2>1. t \in [1..Len(t) -> S]
    <3>1. t \in [1..Len(t) -> DOMAIN file]
      BY <1>4, LenProperties
    <3>2. t = [k \in 1..Len(t) |-> t[k]]
      BY <3>1
    <3> QED BY <1>7, <3>2
  <2> QED BY <1>6, <2>1, FunctionIsSeq
<1>9. \A n \in S : \E k \in 1..Len(t) : t[k] = n
  BY <1>1, <1>5, <1>7
<1>10. \A k, l \in 1..Len(t) : t[k] = t[l] => k = l
  BY <1>5, <1>7
<1>11. \A n \in DOMAIN file : n \in Nat
  BY <1>1
<1> QED BY <1>1, <1>2, <1>3, <1>6, <1>8, <1>9, <1>10, <1>11 DEF t

Counting == [DOMAIN file -> Nat]

(* What is read of a run has the types that lcov.ts gives it.              *)
LEMMA RecordsTyped ==
  ASSUME Tree(file), NEW c \in Counting
  PROVE  /\ LnOf(c) \in Seq(LineData) /\ BrOf(c) \in Seq(BranchData)
         /\ FnOf \in Seq(FnRef) /\ FdOf(c) \in Seq(FnData)
         /\ Fns \in Seq(DOMAIN file) /\ Blocks \in Seq(DOMAIN file)
         /\ DOMAIN FdOf(c) = DOMAIN Fns /\ DOMAIN FnOf = DOMAIN Fns /\ DOMAIN BrOf(c) = DOMAIN Blocks
         /\ DOMAIN LnOf(c) = DOMAIN file
<1>1. FunctionNodes \in SUBSET DOMAIN file /\ BlockNodes \in SUBSET DOMAIN file
  BY DEF FunctionNodes, BlockNodes, Kinds
<1>2. /\ Nodes \in Seq(DOMAIN file) /\ Fns \in Seq(FunctionNodes) /\ Blocks \in Seq(BlockNodes)
      /\ \A n \in DOMAIN file : n \in Nat
  BY <1>1, OrderFacts DEF Fns, Blocks
<1>3. Fns \in Seq(DOMAIN file) /\ Blocks \in Seq(DOMAIN file)
  BY <1>1, <1>2, SeqMonotonic
<1>4. \A n \in DOMAIN file : FunctionName(n) \in STRING
  <2>1. file \in Seq([kind : STRING, up : Nat, slot : STRING])
    BY DEF Tree
  <2>2. \A n \in DOMAIN file : file[n] \in [kind : STRING, up : Nat, slot : STRING]
    BY <2>1, LenProperties
  <2> QED BY <2>2 DEF FunctionName
<1>5. LnOf(c) \in Seq(LineData)
  <2> DEFINE f == [n \in DOMAIN file |-> [line |-> n, count |-> c[n]]]
  <2>1. \A n \in DOMAIN file : f[n] \in LineData
    BY <1>2 DEF LineData, Counting
  <2>2. LnOf(c) = [k \in DOMAIN Nodes |-> f[Nodes[k]]]
    BY <1>2, LenProperties DEF LnOf, Each
  <2> HIDE DEF f
  <2>3. [k \in DOMAIN Nodes |-> f[Nodes[k]]] \in Seq(LineData)
    <3>1. Nodes \in Seq(DOMAIN file)
      BY <1>2
    <3> QED BY <2>1, <3>1, EachIsSeq
  <2> QED BY <2>2, <2>3
<1>6. BrOf(c) \in Seq(BranchData)
  <2> DEFINE f == [n \in DOMAIN file |-> [line |-> n, block |-> n, expr |-> 0, count |-> c[n]]]
  <2>1. \A n \in DOMAIN file : f[n] \in BranchData
    BY <1>2 DEF BranchData, Counting
  <2>2. BrOf(c) = [k \in DOMAIN Blocks |-> f[Blocks[k]]]
    BY <1>3, LenProperties DEF BrOf, Each
  <2> HIDE DEF f
  <2>3. [k \in DOMAIN Blocks |-> f[Blocks[k]]] \in Seq(BranchData)
    BY <1>3, <2>1, EachIsSeq
  <2> QED BY <2>2, <2>3
<1>7. FnOf \in Seq(FnRef)
  <2> DEFINE f == [n \in DOMAIN file |-> [line |-> n, name |-> FunctionName(n)]]
  <2>1. \A n \in DOMAIN file : f[n] \in FnRef
    BY <1>2, <1>4 DEF FnRef
  <2>2. FnOf = [k \in DOMAIN Fns |-> f[Fns[k]]]
    BY <1>3, LenProperties DEF FnOf, Each
  <2> HIDE DEF f
  <2>3. [k \in DOMAIN Fns |-> f[Fns[k]]] \in Seq(FnRef)
    BY <1>3, <2>1, EachIsSeq
  <2> QED BY <2>2, <2>3
<1>8. FdOf(c) \in Seq(FnData)
  <2> DEFINE f == [n \in DOMAIN file |-> [name |-> FunctionName(n), count |-> c[n]]]
  <2>1. \A n \in DOMAIN file : f[n] \in FnData
    BY <1>2, <1>4 DEF FnData, Counting
  <2>2. FdOf(c) = [k \in DOMAIN Fns |-> f[Fns[k]]]
    BY <1>3, LenProperties DEF FdOf, Each
  <2> HIDE DEF f
  <2>3. [k \in DOMAIN Fns |-> f[Fns[k]]] \in Seq(FnData)
    BY <1>3, <2>1, EachIsSeq
  <2> QED BY <2>2, <2>3
<1>9. /\ DOMAIN FdOf(c) = DOMAIN Fns /\ DOMAIN FnOf = DOMAIN Fns /\ DOMAIN BrOf(c) = DOMAIN Blocks
      /\ DOMAIN LnOf(c) = DOMAIN file
  BY DEF FdOf, FnOf, BrOf, LnOf, Each, Nodes
<1> QED BY <1>3, <1>5, <1>6, <1>7, <1>8, <1>9

(* What c8 wrote of a run is read as the counts of the run.                *)
LEMMA LinesRead ==
  ASSUME Tree(file), NEW r \in Runs, ran[r].in \in Counting
  PROVE  /\ dumps[r] # <<>> => ParseLcov(Lines(r)) = <<ReportOf(ran[r].in)>>
         /\ dumps[r] = <<>> => ParseLcov(Lines(r)) = <<>>
<1> DEFINE c == ran[r].in
<1>1. CASE dumps[r] # <<>>
  <2>1. FnLines(FnOf) = Each(Fns, LAMBDA n : <<"FN", n, FunctionName(n)>>)
    BY DEF FnLines, FnOf, Each
  <2>2. FndaLines(FdOf(c)) = Each(Fns, LAMBDA n : <<"FNDA", c[n], FunctionName(n)>>)
    BY DEF FndaLines, FdOf, Each
  <2>3. DaLines(LnOf(c)) = Each(Nodes, LAMBDA n : <<"DA", n, c[n]>>)
    BY DEF DaLines, LnOf, Each
  <2>4. BrdaLines(BrOf(c)) = Each(Blocks, LAMBDA n : <<"BRDA", n, n, 0, c[n]>>)
    BY DEF BrdaLines, BrOf, Each
  <2>5. Lines(r) = Opening("index.js") \o FnLines(FnOf) \o FndaLines(FdOf(c)) \o DaLines(LnOf(c))
                   \o BrdaLines(BrOf(c)) \o Closing
    BY <1>1, <2>1, <2>2, <2>3, <2>4 DEF Lines, Opening, Closing, Fns, Blocks, FunctionNodes, BlockNodes
  <2>6. LnOf(c) \in Seq(LineData) /\ BrOf(c) \in Seq(BranchData) /\ FnOf \in Seq(FnRef)
        /\ FdOf(c) \in Seq(FnData)
    BY RecordsTyped
  <2> HIDE DEF c
  <2>7. "index.js" \in PathNames /\ "file" # ""
    BY DEF PathNames
  <2>8. ParseLcov(Lines(r)) = <<ReportOf(c)>>
    BY <2>5, <2>6, <2>7, ReadsDump DEF ReportOf
  <2> QED BY <1>1, <2>8 DEF c
<1>2. CASE dumps[r] = <<>>
  BY <1>2, FormatFacts DEF Lines
<1> QED BY <1>1, <1>2

(* Counts of a Map: of the only place of a key, of none, and of any.       *)
LEMMA LastOne ==
  ASSUME NEW s, NEW i \in Nat
  PROVE  LastCount(s, {i}) = s[i].count
<1>1. {i} \in SUBSET Nat /\ {i} # {}
  OBVIOUS
<1>2. IsFiniteSet({i})
  BY FS_Singleton
<1>3. Max({i}) = i
  BY <1>1, <1>2, MaxFacts
<1> QED BY <1>1, <1>3 DEF LastCount

LEMMA LastFacts ==
  ASSUME NEW s, NEW n \in Nat, NEW T \in SUBSET (1..n), \A i \in 1..n : s[i].count \in Nat
  PROVE  LastCount(s, T) \in Nat
<1>1. CASE T = {}
  BY <1>1 DEF LastCount
<1>2. CASE T # {}
  <2>1. IsFiniteSet(1..n)
    BY FS_Interval
  <2>2. IsFiniteSet(T)
    BY <2>1, FS_Subset
  <2>3. T \in SUBSET Nat
    OBVIOUS
  <2>4. Max(T) \in T
    BY <1>2, <2>2, <2>3, MaxFacts
  <2>5. s[Max(T)].count \in Nat
    BY <2>4
  <2> QED BY <1>2, <2>5 DEF LastCount
<1> QED BY <1>1, <1>2

(* Only the new run's counts, of the places that the base never counted.   *)
OnlyNew(a, c) == [n \in DOMAIN file |-> IF a[n] = 0 THEN c[n] ELSE 0]
Zeros == [n \in DOMAIN file |-> 0]

(* The base of a comparison: what was read of a run, or nothing at all.    *)
Base(b, a) == b = ReportOf(a) \/ (b = NoFile /\ a = Zeros)

DiffData(b, c) ==
  Each(FdOf(c), LAMBDA f : [f EXCEPT !.count = Unique(@, LastCount(b.fnData, NameOf(b.fnData, f)))])

Shared(n) == \E m \in FunctionNodes \ {n} : FunctionName(m) = FunctionName(n)

(* The lines, and then the branches: each is found again in the base.      *)
LEMMA DiffLines ==
  ASSUME Tree(file), NEW a \in Counting, NEW c \in Counting, NEW b, Base(b, a)
  PROVE  Each(LnOf(c), LAMBDA l : [l EXCEPT !.count = Unique(@, LastCount(b.lines, LineOf(b.lines, l)))])
           = LnOf(OnlyNew(a, c))
<1> DEFINE new(k) == [LnOf(c)[k] EXCEPT !.count = Unique(@, LastCount(b.lines, LineOf(b.lines, LnOf(c)[k])))]
<1>1. /\ DOMAIN file = 1..Len(file) /\ Len(file) \in Nat
      /\ \A n \in DOMAIN file : Nodes[n] = n /\ n \in Nat
      /\ DOMAIN Nodes = DOMAIN file
  BY OrderFacts DEF Nodes
<1>2. ASSUME NEW d \in Counting
      PROVE  /\ DOMAIN LnOf(d) = DOMAIN file
             /\ \A n \in DOMAIN file : LnOf(d)[n] = [line |-> n, count |-> d[n]] /\ d[n] \in Nat
  BY <1>1 DEF LnOf, Each, Counting
<1>3. OnlyNew(a, c) \in Counting
  BY DEF OnlyNew, Counting
<1> HIDE DEF new
<1>4. ASSUME NEW n \in DOMAIN file
      PROVE  LastCount(b.lines, LineOf(b.lines, LnOf(c)[n])) = a[n]
  <2>1. CASE b = ReportOf(a)
    <3>1. b.lines = LnOf(a)
      BY <2>1 DEF ReportOf, FileOf
    <3>2. DOMAIN LnOf(a) = DOMAIN file
          /\ \A i \in DOMAIN file : LnOf(a)[i].line = i /\ LnOf(a)[i].count = a[i] /\ a[i] \in Nat
      <4>1. \A i \in DOMAIN file : LnOf(a)[i] = [line |-> i, count |-> a[i]]
        BY <1>2
      <4>2. \A i \in DOMAIN file : a[i] \in Nat
        BY DEF Counting
      <4>3. DOMAIN LnOf(a) = DOMAIN file
        BY <1>2
      <4>4. ASSUME NEW i \in DOMAIN file PROVE LnOf(a)[i].line = i /\ LnOf(a)[i].count = a[i]
        <5>1. LnOf(a)[i] = [line |-> i, count |-> a[i]]
          BY <4>1
        <5> HIDE DEF LnOf
        <5> QED BY <5>1
      <4> QED BY <4>2, <4>3, <4>4
    <3>3. LineOf(b.lines, LnOf(c)[n]) = {n}
      <4>1. LnOf(c)[n].line = n
        <5>1. LnOf(c)[n] = [line |-> n, count |-> c[n]]
          BY <1>2
        <5> QED BY <5>1
      <4> HIDE DEF LnOf
      <4> QED BY <3>1, <3>2, <4>1 DEF LineOf
    <3>4. LastCount(LnOf(a), {n}) = LnOf(a)[n].count
      <4>1. n \in Nat
        BY <1>1
      <4> QED BY <4>1, LastOne
    <3>5. LnOf(a)[n].count = a[n]
      BY <3>2
    <3> QED BY <3>1, <3>3, <3>4, <3>5
  <2>2. CASE b = NoFile /\ a = Zeros
    <3>1. b.lines = <<>> /\ a[n] = 0
      BY <2>2 DEF NoFile, Zeros
    <3>2. LineOf(<<>>, LnOf(c)[n]) = {}
      BY DEF LineOf
    <3> QED BY <3>1, <3>2 DEF LastCount
  <2> QED BY <2>1, <2>2 DEF Base
<1>5. ASSUME NEW n \in DOMAIN file PROVE new(n) = LnOf(OnlyNew(a, c))[n]
  <2>1. LnOf(c)[n] = [line |-> n, count |-> c[n]] /\ c[n] \in Nat /\ a[n] \in Nat
    BY <1>2
  <2>2. LnOf(OnlyNew(a, c))[n] = [line |-> n, count |-> OnlyNew(a, c)[n]]
    BY <1>2, <1>3
  <2>3. new(n) = [line |-> n, count |-> Unique(c[n], a[n])]
    BY <1>4, <2>1 DEF new
  <2>4. Unique(c[n], a[n]) = OnlyNew(a, c)[n]
    BY <2>1 DEF Unique, OnlyNew
  <2> QED BY <2>2, <2>3, <2>4
<1>6. LnOf(OnlyNew(a, c)) = [n \in DOMAIN file |-> LnOf(OnlyNew(a, c))[n]]
  BY <1>1 DEF LnOf, Each
<1>7. Each(LnOf(c), LAMBDA l : [l EXCEPT !.count = Unique(@, LastCount(b.lines, LineOf(b.lines, l)))])
        = [n \in DOMAIN file |-> new(n)]
  BY <1>2 DEF Each, new
<1> QED BY <1>5, <1>6, <1>7

LEMMA DiffBranches ==
  ASSUME Tree(file), NEW a \in Counting, NEW c \in Counting, NEW b, Base(b, a)
  PROVE  Each(BrOf(c), LAMBDA l : [l EXCEPT !.count = Unique(@, LastCount(b.branches, BranchOf(b.branches, l)))])
           = BrOf(OnlyNew(a, c))
<1> DEFINE new(k) == [BrOf(c)[k] EXCEPT !.count = Unique(@, LastCount(b.branches, BranchOf(b.branches, BrOf(c)[k])))]
           N == DOMAIN Blocks
<1>1. /\ N = 1..Len(Blocks) /\ Len(Blocks) \in Nat
      /\ \A k \in N : Blocks[k] \in DOMAIN file
      /\ \A k, l \in N : Blocks[k] = Blocks[l] => k = l
  <2>1. BlockNodes \in SUBSET DOMAIN file
    BY DEF BlockNodes
  <2>2. Blocks \in Seq(BlockNodes) /\ \A k, l \in N : Blocks[k] = Blocks[l] => k = l
    BY <2>1, OrderFacts DEF Blocks
  <2> QED BY <2>1, <2>2, LenProperties
<1> HIDE DEF N
<1>2. ASSUME NEW d \in Counting
      PROVE  /\ DOMAIN BrOf(d) = N
             /\ \A k \in N : /\ BrOf(d)[k] = [line |-> Blocks[k], block |-> Blocks[k], expr |-> 0,
                                              count |-> d[Blocks[k]]]
                             /\ d[Blocks[k]] \in Nat
  <2>1. \A k \in N : d[Blocks[k]] \in Nat
    BY <1>1 DEF Counting
  <2> QED BY <2>1 DEF BrOf, Each, N
<1>3. OnlyNew(a, c) \in Counting
  BY DEF OnlyNew, Counting
<1> HIDE DEF new
<1>4. ASSUME NEW n \in N
      PROVE  LastCount(b.branches, BranchOf(b.branches, BrOf(c)[n])) = a[Blocks[n]]
  <2>1. CASE b = ReportOf(a)
    <3>1. b.branches = BrOf(a)
      BY <2>1 DEF ReportOf, FileOf
    <3>2. DOMAIN BrOf(a) = N
          /\ \A i \in N : /\ BrOf(a)[i].line = Blocks[i] /\ BrOf(a)[i].block = Blocks[i]
                          /\ BrOf(a)[i].expr = 0
                          /\ BrOf(a)[i].count = a[Blocks[i]] /\ a[Blocks[i]] \in Nat
      <4>1. \A i \in N : BrOf(a)[i] = [line |-> Blocks[i], block |-> Blocks[i], expr |-> 0,
                                       count |-> a[Blocks[i]]] /\ a[Blocks[i]] \in Nat
        BY <1>2
      <4>2. DOMAIN BrOf(a) = N
        BY <1>2
      <4>3. ASSUME NEW i \in N
            PROVE  /\ BrOf(a)[i].line = Blocks[i] /\ BrOf(a)[i].block = Blocks[i]
                   /\ BrOf(a)[i].expr = 0 /\ BrOf(a)[i].count = a[Blocks[i]]
        <5>1. BrOf(a)[i] = [line |-> Blocks[i], block |-> Blocks[i], expr |-> 0, count |-> a[Blocks[i]]]
          BY <4>1
        <5> QED BY <5>1
      <4> QED BY <4>1, <4>2, <4>3
    <3>3. BranchOf(b.branches, BrOf(c)[n]) = {n}
      <4>1. BrOf(c)[n].line = Blocks[n] /\ BrOf(c)[n].block = Blocks[n] /\ BrOf(c)[n].expr = 0
        <5>1. BrOf(c)[n] = [line |-> Blocks[n], block |-> Blocks[n], expr |-> 0, count |-> c[Blocks[n]]]
          BY <1>2
        <5> QED BY <5>1
      <4> QED BY <1>1, <3>1, <3>2, <4>1 DEF BranchOf
    <3>4. LastCount(BrOf(a), {n}) = BrOf(a)[n].count
      <4>1. n \in Nat
        BY <1>1
      <4> QED BY <4>1, LastOne
    <3>5. BrOf(a)[n].count = a[Blocks[n]]
      BY <3>2
    <3> QED BY <3>1, <3>3, <3>4, <3>5
  <2>2. CASE b = NoFile /\ a = Zeros
    <3>1. b.branches = <<>> /\ a[Blocks[n]] = 0
      BY <1>1, <2>2 DEF NoFile, Zeros
    <3>2. BranchOf(<<>>, BrOf(c)[n]) = {}
      BY DEF BranchOf
    <3> QED BY <3>1, <3>2 DEF LastCount
  <2> QED BY <2>1, <2>2 DEF Base
<1>5. ASSUME NEW n \in N PROVE new(n) = BrOf(OnlyNew(a, c))[n]
  <2> DEFINE m == Blocks[n]
  <2>1. BrOf(c)[n] = [line |-> m, block |-> m, expr |-> 0, count |-> c[m]] /\ c[m] \in Nat /\ a[m] \in Nat
    BY <1>2
  <2>2. BrOf(OnlyNew(a, c))[n] = [line |-> m, block |-> m, expr |-> 0, count |-> OnlyNew(a, c)[m]]
    BY <1>2, <1>3
  <2>3. new(n) = [line |-> m, block |-> m, expr |-> 0, count |-> Unique(c[m], a[m])]
    BY <1>4, <2>1 DEF new
  <2>4. Unique(c[m], a[m]) = OnlyNew(a, c)[m]
    BY <1>1, <2>1 DEF Unique, OnlyNew
  <2> QED BY <2>2, <2>3, <2>4
<1>6. BrOf(OnlyNew(a, c)) = [n \in N |-> BrOf(OnlyNew(a, c))[n]]
  BY DEF BrOf, Each, N
<1>7. Each(BrOf(c), LAMBDA l : [l EXCEPT !.count = Unique(@, LastCount(b.branches, BranchOf(b.branches, l)))])
        = [n \in N |-> new(n)]
  BY <1>2 DEF Each, new
<1> QED BY <1>5, <1>6, <1>7

(* The functions: told apart by their names.                               *)
LEMMA NamesFacts ==
  ASSUME Tree(file), NEW k \in DOMAIN Fns, NEW d,
         DOMAIN d = DOMAIN Fns, \A i \in DOMAIN Fns : d[i].name = FunctionName(Fns[i]) /\ d[i].count \in Nat,
         NEW f, f.name = FunctionName(Fns[k])
  PROVE  /\ LastCount(d, NameOf(d, f)) \in Nat
         /\ ~Shared(Fns[k]) => LastCount(d, NameOf(d, f)) = d[k].count
<1>1. /\ DOMAIN Fns = 1..Len(Fns) /\ Len(Fns) \in Nat
      /\ \A i \in DOMAIN Fns : Fns[i] \in FunctionNodes
      /\ \A i, l \in DOMAIN Fns : Fns[i] = Fns[l] => i = l
  <2>1. FunctionNodes \in SUBSET DOMAIN file
    BY DEF FunctionNodes, Kinds
  <2>2. Fns \in Seq(FunctionNodes) /\ \A i, l \in DOMAIN Fns : Fns[i] = Fns[l] => i = l
    BY <2>1, OrderFacts DEF Fns
  <2> QED BY <2>2, LenProperties
<1>2. NameOf(d, f) = {i \in DOMAIN Fns : FunctionName(Fns[i]) = FunctionName(Fns[k])}
  BY DEF NameOf
<1>3. NameOf(d, f) \subseteq 1..Len(Fns)
  BY <1>1, <1>2
<1>4. LastCount(d, NameOf(d, f)) \in Nat
  <2>1. NameOf(d, f) \in SUBSET (1..Len(Fns)) /\ \A i \in 1..Len(Fns) : d[i].count \in Nat
    BY <1>1, <1>3
  <2> QED BY <1>1, <2>1, LastFacts
<1>5. ASSUME ~Shared(Fns[k]) PROVE LastCount(d, NameOf(d, f)) = d[k].count
  <2>1. NameOf(d, f) = {k}
    BY <1>1, <1>2, <1>5 DEF Shared
  <2>2. LastCount(d, {k}) = d[k].count
    <3>1. k \in Nat
      BY <1>1
    <3> QED BY <3>1, LastOne
  <2> QED BY <2>1, <2>2
<1> QED BY <1>4, <1>5

(* The counts of functions keep what only the new run has, by their names. *)
LEMMA DataFacts ==
  ASSUME Tree(file), NEW a \in Counting, NEW c \in Counting, NEW b, Base(b, a)
  PROVE  /\ DiffData(b, c) \in Seq(FnData) /\ DOMAIN DiffData(b, c) = DOMAIN Fns
         /\ \A k \in DOMAIN Fns :
              /\ DiffData(b, c)[k].name = FunctionName(Fns[k]) /\ DiffData(b, c)[k].count \in Nat
              /\ ~Shared(Fns[k]) => DiffData(b, c)[k].count = OnlyNew(a, c)[Fns[k]]
<1> DEFINE N == DOMAIN Fns
           last(k) == LastCount(b.fnData, NameOf(b.fnData, FdOf(c)[k]))
           new == DiffData(b, c)
<1>1. /\ N = 1..Len(Fns) /\ Len(Fns) \in Nat
      /\ \A k \in N : Fns[k] \in DOMAIN file
  <2>1. Fns \in Seq(DOMAIN file)
    BY RecordsTyped
  <2> QED BY <2>1, LenProperties
<1> HIDE DEF N
<1>2. ASSUME NEW d \in Counting
      PROVE  /\ DOMAIN FdOf(d) = N
             /\ \A k \in N : /\ FdOf(d)[k] = [name |-> FunctionName(Fns[k]), count |-> d[Fns[k]]]
                             /\ FdOf(d)[k].name = FunctionName(Fns[k]) /\ FdOf(d)[k].count = d[Fns[k]]
                             /\ d[Fns[k]] \in Nat /\ FunctionName(Fns[k]) \in STRING
  <2>1. \A k \in N : d[Fns[k]] \in Nat
    BY <1>1 DEF Counting
  <2>2. DOMAIN FdOf(d) = N /\ \A k \in N : FdOf(d)[k] = [name |-> FunctionName(Fns[k]), count |-> d[Fns[k]]]
    BY DEF FdOf, Each, N
  <2>3. ASSUME NEW k \in N
        PROVE  FdOf(d)[k].name = FunctionName(Fns[k]) /\ FdOf(d)[k].count = d[Fns[k]]
    <3>1. FdOf(d)[k] = [name |-> FunctionName(Fns[k]), count |-> d[Fns[k]]]
      BY <2>2
    <3> QED BY <3>1
  <2>4. ASSUME NEW k \in N PROVE FunctionName(Fns[k]) \in STRING
    <3>1. FdOf(d) \in Seq(FnData)
      BY RecordsTyped
    <3>2. FdOf(d)[k] \in FnData
      BY <2>2, <3>1, LenProperties
    <3> QED BY <2>3, <3>2 DEF FnData
  <2> QED BY <2>1, <2>2, <2>3, <2>4
<1>3. ASSUME NEW k \in N
      PROVE  last(k) \in Nat /\ (~Shared(Fns[k]) => last(k) = a[Fns[k]])
  <2>1. FdOf(c)[k].name = FunctionName(Fns[k]) /\ k \in DOMAIN Fns
    BY <1>2 DEF N
  <2>2. CASE b = ReportOf(a)
    <3>1. b.fnData = FdOf(a)
      BY <2>2 DEF ReportOf, FileOf
    <3>2. /\ DOMAIN FdOf(a) = N
          /\ \A i \in N : FdOf(a)[i].name = FunctionName(Fns[i]) /\ FdOf(a)[i].count \in Nat
          /\ FdOf(a)[k].count = a[Fns[k]]
      BY <1>2
    <3>3. /\ LastCount(FdOf(a), NameOf(FdOf(a), FdOf(c)[k])) \in Nat
          /\ ~Shared(Fns[k]) => LastCount(FdOf(a), NameOf(FdOf(a), FdOf(c)[k])) = FdOf(a)[k].count
      BY <2>1, <3>2, NamesFacts DEF N
    <3> QED BY <3>1, <3>2, <3>3
  <2>3. CASE b = NoFile /\ a = Zeros
    <3>1. b.fnData = <<>> /\ a[Fns[k]] = 0
      BY <1>1, <2>3 DEF NoFile, Zeros
    <3>2. NameOf(<<>>, FdOf(c)[k]) = {}
      BY DEF NameOf
    <3> QED BY <3>1, <3>2 DEF LastCount
  <2> QED BY <2>2, <2>3 DEF Base
<1>4. ASSUME NEW k \in N
      PROVE  new[k] = [name |-> FunctionName(Fns[k]), count |-> Unique(c[Fns[k]], last(k))]
  <2>1. FdOf(c)[k] = [name |-> FunctionName(Fns[k]), count |-> c[Fns[k]]]
    BY <1>2
  <2>2. new[k] = [FdOf(c)[k] EXCEPT !.count = Unique(@, last(k))]
    BY <1>2 DEF DiffData, Each
  <2> HIDE DEF new, last
  <2> QED BY <2>1, <2>2
<1>5. DOMAIN new = N /\ new = [k \in N |-> new[k]]
  BY <1>2 DEF DiffData, Each
<1> HIDE DEF new, last
<1>6. \A k \in N : Unique(c[Fns[k]], last(k)) \in Nat
  BY <1>2 DEF Unique
<1>7. ASSUME NEW k \in N
      PROVE  new[k].name = FunctionName(Fns[k]) /\ new[k].count = Unique(c[Fns[k]], last(k))
  <2>1. new[k] = [name |-> FunctionName(Fns[k]), count |-> Unique(c[Fns[k]], last(k))]
    BY <1>4
  <2> QED BY <2>1
<1>8. new \in Seq(FnData)
  <2>1. ASSUME NEW k \in N PROVE new[k] \in FnData
    <3>1. FunctionName(Fns[k]) \in STRING /\ Unique(c[Fns[k]], last(k)) \in Nat
      BY <1>2, <1>6
    <3>2. new[k] = [name |-> FunctionName(Fns[k]), count |-> Unique(c[Fns[k]], last(k))]
      BY <1>4
    <3> QED BY <3>1, <3>2 DEF FnData
  <2>2. new \in [1..Len(Fns) -> FnData]
    BY <1>1, <1>5, <2>1
  <2> QED BY <1>1, <2>2, FunctionIsSeq
<1>9. ASSUME NEW k \in N, ~Shared(Fns[k]) PROVE new[k].count = OnlyNew(a, c)[Fns[k]]
  <2>1. Unique(c[Fns[k]], a[Fns[k]]) = OnlyNew(a, c)[Fns[k]]
    <3>1. c[Fns[k]] \in Nat /\ a[Fns[k]] \in Nat /\ Fns[k] \in DOMAIN file
      BY <1>1, <1>2
    <3> QED BY <3>1 DEF Unique, OnlyNew
  <2> QED BY <1>3, <1>7, <1>9, <2>1
<1> QED BY <1>5, <1>6, <1>7, <1>8, <1>9 DEF N, new

(* The difference of two runs, as a file.                                  *)
DiffReport(b, a, c) ==
  FileOf("index.js", LnOf(OnlyNew(a, c)), BrOf(OnlyNew(a, c)), FnOf, DiffData(b, c))

(* DiffFile puts the three together.                                       *)
LEMMA DiffFileFacts ==
  ASSUME Tree(file), NEW a \in Counting, NEW c \in Counting, NEW b, Base(b, a)
  PROVE  DiffFile(b, ReportOf(c)) = DiffReport(b, a, c)
<1> DEFINE new == ReportOf(c)
           ln == Each(LnOf(c), LAMBDA l : [l EXCEPT !.count = Unique(@, LastCount(b.lines, LineOf(b.lines, l)))])
           br == Each(BrOf(c), LAMBDA l : [l EXCEPT !.count = Unique(@, LastCount(b.branches, BranchOf(b.branches, l)))])
<1>1. ln = LnOf(OnlyNew(a, c)) /\ br = BrOf(OnlyNew(a, c))
  BY DiffLines, DiffBranches
<1>2. /\ new = [path |-> "index.js", lines |-> LnOf(c), branches |-> BrOf(c), functions |-> FnOf,
               fnData |-> FdOf(c)]
      /\ new.lines = LnOf(c) /\ new.branches = BrOf(c) /\ new.fnData = FdOf(c)
  BY DEF ReportOf, FileOf
<1>3. DiffFile(b, new) = [new EXCEPT !.lines = ln, !.branches = br, !.fnData = DiffData(b, c)]
  <2> HIDE DEF new
  <2> QED BY <1>2 DEF DiffFile, DiffData
<1> HIDE DEF ln, br, new
<1>4. DiffFile(b, new) = [path |-> "index.js", lines |-> ln, branches |-> br, functions |-> FnOf,
                          fnData |-> DiffData(b, c)]
  BY <1>2, <1>3
<1> QED BY <1>1, <1>4 DEF DiffReport, FileOf, new

(* Diff finds the file of the base and leaves out a file with nothing new. *)
LEMMA DiffFacts ==
  ASSUME Tree(file), NEW a \in Counting, NEW c \in Counting, NEW b, NEW bs,
         \/ bs = <<ReportOf(a)>> /\ b = ReportOf(a)
         \/ bs = <<>> /\ b = NoFile /\ a = Zeros
  PROVE  Diff(bs, <<ReportOf(c)>>) = IF Novel(DiffReport(b, a, c)) THEN <<DiffReport(b, a, c)>> ELSE <<>>
<1> DEFINE same(path) == {i \in DOMAIN bs : bs[i].path = path}
           base(path) == IF same(path) = {} THEN NoFile ELSE bs[Max(same(path))]
           new == ReportOf(c)
           d == DiffReport(b, a, c)
           diffs == Each(<<new>>, LAMBDA f : DiffFile(base(f.path), f))
<1>1. Diff(bs, <<new>>) = Picked(diffs, {i \in DOMAIN diffs : Novel(diffs[i])})
  BY DEF Diff
<1>2. Base(b, a)
  BY DEF Base
<1>3. new.path = "index.js" /\ ReportOf(a).path = "index.js"
  BY DEF ReportOf, FileOf
<1>4. base("index.js") = b
  <2>1. CASE bs = <<ReportOf(a)>> /\ b = ReportOf(a)
    <3> DEFINE r == ReportOf(a)
    <3>1. DOMAIN bs = {1} /\ bs[1] = r /\ r.path = "index.js"
      <4> HIDE DEF r
      <4>1. bs = <<r>>
        BY <2>1 DEF r
      <4> QED BY <1>3, <4>1 DEF r
    <3>2. same("index.js") = {1}
      BY <3>1
    <3>3. Max({1}) = 1
      <4>1. {1} \in SUBSET Nat /\ {1} # {}
        OBVIOUS
      <4>2. IsFiniteSet({1})
        BY FS_Singleton
      <4> QED BY <4>1, <4>2, MaxFacts
    <3> HIDE DEF r, same
    <3> QED BY <2>1, <3>1, <3>2, <3>3 DEF r
  <2>2. CASE bs = <<>> /\ b = NoFile
    BY <2>2
  <2> QED BY <2>1, <2>2
<1> HIDE DEF same, base, new
<1>5. diffs = <<d>>
  <2>1. diffs = <<DiffFile(base(new.path), new)>>
    BY DEF Each
  <2>2. DiffFile(b, new) = d
    BY <1>2, DiffFileFacts DEF new
  <2> QED BY <1>3, <1>4, <2>1, <2>2
<1> HIDE DEF d, diffs
<1>6. diffs \in Seq({d}) /\ Len(diffs) = 1 /\ DOMAIN diffs = {1} /\ diffs[1] = d /\ 1 \in 1..Len(diffs)
  BY <1>5
<1>7. CASE Novel(d)
  <2>1. {i \in DOMAIN diffs : Novel(diffs[i])} = {1}
    BY <1>6, <1>7
  <2>2. Picked(diffs, {1}) = <<diffs[1]>>
    BY <1>6, PickedOne
  <2> QED BY <1>1, <1>6, <1>7, <2>1, <2>2 DEF d, new
<1>8. CASE ~Novel(d)
  <2>1. {i \in DOMAIN diffs : Novel(diffs[i])} = {}
    BY <1>6, <1>8
  <2>2. Picked(diffs, {}) = <<>>
    BY <1>6, PickedNone
  <2> QED BY <1>1, <1>8, <2>1, <2>2 DEF d, new
<1> QED BY <1>7, <1>8

(* When there is a difference.                                             *)
LEMMA NovelFacts ==
  ASSUME Tree(file), NEW a \in Counting, NEW c \in Counting, NEW b, Base(b, a)
  PROVE  /\ ~Novel(DiffReport(b, a, c)) => \A n \in DOMAIN file : OnlyNew(a, c)[n] = 0
         /\ Novel(DiffReport(b, a, c)) =>
              \E n \in DOMAIN file : OnlyNew(a, c)[n] > 0 \/ (n \in FunctionNodes /\ Shared(n))
<1> DEFINE o == OnlyNew(a, c)
           d == DiffReport(b, a, c)
<1>1. o \in Counting /\ \A n \in DOMAIN file : o[n] \in Nat
  BY DEF OnlyNew, Counting
<1> HIDE DEF o
<1>2. d.lines = LnOf(o) /\ d.branches = BrOf(o) /\ d.fnData = DiffData(b, c)
  BY DEF DiffReport, FileOf, o
<1> HIDE DEF d
<1>3. /\ DOMAIN LnOf(o) = DOMAIN file /\ DOMAIN BrOf(o) = DOMAIN Blocks
      /\ Fns \in Seq(DOMAIN file) /\ Blocks \in Seq(DOMAIN file)
  BY <1>1, RecordsTyped
<1>4. /\ \A k \in DOMAIN Fns : Fns[k] \in DOMAIN file
      /\ \A k \in DOMAIN Blocks : Blocks[k] \in DOMAIN file
  BY <1>3, LenProperties
<1>5. ASSUME NEW n \in DOMAIN file PROVE LnOf(o)[n].count = o[n]
  <2>1. Nodes[n] = n
    BY OrderFacts
  <2>2. LnOf(o)[n] = [line |-> n, count |-> o[n]]
    BY <2>1 DEF LnOf, Each, Nodes
  <2> QED BY <2>2
<1>6. ASSUME NEW k \in DOMAIN Blocks PROVE BrOf(o)[k].count = o[Blocks[k]]
  <2>1. BrOf(o)[k] = [line |-> Blocks[k], block |-> Blocks[k], expr |-> 0, count |-> o[Blocks[k]]]
    BY DEF BrOf, Each
  <2> QED BY <2>1
<1>7. ASSUME ~Novel(d), NEW n \in DOMAIN file PROVE o[n] = 0
  <2>1. n \notin Hit(LnOf(o))
    BY <1>2, <1>7 DEF Novel
  <2> QED BY <1>1, <1>3, <1>5, <2>1 DEF Hit
<1>8. ASSUME Novel(d) PROVE \E n \in DOMAIN file : o[n] > 0 \/ (n \in FunctionNodes /\ Shared(n))
  <2>1. PICK k : k \in Hit(LnOf(o)) \/ k \in Hit(BrOf(o)) \/ k \in Hit(DiffData(b, c))
    BY <1>2, <1>8 DEF Novel
  <2>2. CASE k \in Hit(LnOf(o))
    <3>1. k \in DOMAIN file /\ o[k] > 0
      BY <1>3, <1>5, <2>2 DEF Hit
    <3> QED BY <3>1
  <2>3. CASE k \in Hit(BrOf(o))
    <3>1. k \in DOMAIN Blocks /\ o[Blocks[k]] > 0
      BY <1>3, <1>6, <2>3 DEF Hit
    <3> QED BY <1>4, <3>1
  <2>4. CASE k \in Hit(DiffData(b, c))
    <3>1. k \in DOMAIN Fns /\ DiffData(b, c)[k].count > 0
          /\ (~Shared(Fns[k]) => DiffData(b, c)[k].count = o[Fns[k]])
      BY <2>4, DataFacts DEF Hit, o
    <3>2. Fns[k] \in FunctionNodes
      <4>1. FunctionNodes \in SUBSET DOMAIN file
        BY DEF FunctionNodes, Kinds
      <4>2. Fns \in Seq(FunctionNodes)
        BY <4>1, OrderFacts DEF Fns
      <4> QED BY <3>1, <4>2, LenProperties
    <3> QED BY <1>4, <3>1, <3>2
  <2> QED BY <2>1, <2>2, <2>3, <2>4
<1> QED BY <1>7, <1>8 DEF d, o

(* What Istanbul shows of it.                                              *)
LEMMA ShownFacts ==
  ASSUME Tree(file), NEW a \in Counting, NEW c \in Counting, NEW b, Base(b, a)
  PROVE  LET shown == ToIstanbul(DiffReport(b, a, c))
             o == OnlyNew(a, c)
         IN /\ shown.s = o
            /\ \A g \in DOMAIN shown.b : g[1] \in DOMAIN file /\ shown.b[g] = <<o[g[1]]>>
            /\ \A i \in DOMAIN Fns : Shared(Fns[i]) \/ shown.f[i] = o[Fns[i]]
<1> DEFINE o == OnlyNew(a, c)
           d == DiffReport(b, a, c)
           data == DiffData(b, c)
           br == BrOf(o)
           group(i) == <<br[i].line, br[i].block>>
           counts == Each(br, LAMBDA x : x.count)
           s == Each(LnOf(o), LAMBDA l : l.count)
           bs == [g \in {group(i) : i \in DOMAIN counts} |->
                    Picked(counts, {i \in DOMAIN counts : group(i) = g})]
           fs == Each(FnOf, LAMBDA f : LastCount(data, NameOf(data, f)))
<1>1. o \in Counting /\ (\A n \in DOMAIN file : o[n] \in Nat) /\ o = [n \in DOMAIN file |-> o[n]]
  BY DEF OnlyNew, Counting
<1> HIDE DEF o
<1>2. /\ d.path = "index.js" /\ d.lines = LnOf(o) /\ d.branches = br /\ d.functions = FnOf
      /\ d.fnData = data
  BY DEF DiffReport, FileOf, o
<1> HIDE DEF d, br, data
<1>3. ToIstanbul(d) = [path |-> "index.js", s |-> s, b |-> bs, f |-> fs]
  BY <1>2 DEF ToIstanbul
<1> HIDE DEF s, bs, fs
<1>4. ToIstanbul(d).s = s /\ ToIstanbul(d).b = bs /\ ToIstanbul(d).f = fs
  BY <1>3
<1>5. /\ DOMAIN LnOf(o) = DOMAIN file /\ DOMAIN br = DOMAIN Blocks /\ DOMAIN FnOf = DOMAIN Fns
      /\ br \in Seq(BranchData)
  BY <1>1, RecordsTyped DEF br
<1>6. s = o
  <2>1. ASSUME NEW n \in DOMAIN file PROVE LnOf(o)[n].count = o[n]
    <3>1. Nodes[n] = n
      BY OrderFacts
    <3>2. LnOf(o)[n] = [line |-> n, count |-> o[n]]
      BY <3>1 DEF LnOf, Each, Nodes
    <3> QED BY <3>2
  <2>2. s = [n \in DOMAIN file |-> LnOf(o)[n].count]
    BY <1>5 DEF s, Each
  <2> QED BY <1>1, <2>1, <2>2
<1>7. /\ \A k \in DOMAIN Blocks : Blocks[k] \in DOMAIN file
      /\ \A k, l \in DOMAIN Blocks : Blocks[k] = Blocks[l] => k = l
  <2>1. BlockNodes \in SUBSET DOMAIN file
    BY DEF BlockNodes
  <2>2. Blocks \in Seq(BlockNodes) /\ \A k, l \in DOMAIN Blocks : Blocks[k] = Blocks[l] => k = l
    BY <2>1, OrderFacts DEF Blocks
  <2> QED BY <2>1, <2>2, LenProperties
<1>8. ASSUME NEW k \in DOMAIN Blocks
      PROVE  br[k].line = Blocks[k] /\ br[k].block = Blocks[k] /\ br[k].count = o[Blocks[k]]
  <2>1. br[k] = [line |-> Blocks[k], block |-> Blocks[k], expr |-> 0, count |-> o[Blocks[k]]]
    BY DEF br, BrOf, Each
  <2> QED BY <2>1
<1>9. /\ counts \in Seq(Nat) /\ DOMAIN counts = DOMAIN Blocks
      /\ \A k \in DOMAIN Blocks : counts[k] = o[Blocks[k]] /\ k \in 1..Len(counts)
  <2>1. DOMAIN br = 1..Len(br) /\ Len(br) \in Nat
    BY <1>5, LenProperties
  <2>2. counts = [k \in 1..Len(br) |-> br[k].count]
    BY <2>1 DEF Each
  <2> HIDE DEF counts
  <2>3. \A k \in 1..Len(br) : br[k].count \in Nat
    BY <1>1, <1>5, <1>7, <1>8, <2>1
  <2>4. counts \in [1..Len(br) -> Nat]
    BY <2>2, <2>3
  <2>5. counts \in Seq(Nat) /\ Len(counts) = Len(br) /\ DOMAIN counts = 1..Len(br)
    BY <2>1, <2>4, FunctionIsSeq
  <2> QED BY <1>5, <1>8, <2>1, <2>2, <2>5
<1> HIDE DEF counts
<1>10. ASSUME NEW g \in DOMAIN bs PROVE g[1] \in DOMAIN file /\ bs[g] = <<o[g[1]]>>
  <2>1. PICK k \in DOMAIN Blocks : g = group(k)
    BY <1>9 DEF bs
  <2>2. g = <<Blocks[k], Blocks[k]>>
    BY <1>8, <2>1
  <2>3. {i \in DOMAIN counts : group(i) = g} = {k}
    <3>1. ASSUME NEW i \in DOMAIN Blocks PROVE group(i) = g <=> i = k
      <4>1. group(i) = <<Blocks[i], Blocks[i]>>
        BY <1>8
      <4> HIDE DEF group
      <4> QED BY <1>7, <2>2, <4>1
    <3> HIDE DEF group
    <3> QED BY <1>9, <3>1
  <2>4. bs[g] = Picked(counts, {k})
    BY <2>3 DEF bs
  <2>5. Picked(counts, {k}) = <<counts[k]>>
    BY <1>9, PickedOne
  <2>6. g[1] = Blocks[k]
    BY <2>2
  <2> HIDE DEF group
  <2> QED BY <1>7, <1>9, <2>4, <2>5, <2>6
<1>11. ASSUME NEW i \in DOMAIN Fns, ~Shared(Fns[i]) PROVE fs[i] = o[Fns[i]]
  <2>1. FnOf[i].name = FunctionName(Fns[i])
    <3>1. FnOf[i] = [line |-> Fns[i], name |-> FunctionName(Fns[i])]
      BY DEF FnOf, Each
    <3> QED BY <3>1
  <2>2. fs[i] = LastCount(data, NameOf(data, FnOf[i]))
    BY <1>5 DEF fs, Each
  <2>3. /\ DOMAIN data = DOMAIN Fns
        /\ \A k \in DOMAIN Fns : data[k].name = FunctionName(Fns[k]) /\ data[k].count \in Nat
        /\ data[i].count = o[Fns[i]]
    BY <1>11, DataFacts DEF data, o
  <2>4. LastCount(data, NameOf(data, FnOf[i])) = data[i].count
    BY <1>11, <2>1, <2>3, NamesFacts
  <2> QED BY <2>2, <2>3, <2>4
<1> QED BY <1>4, <1>6, <1>10, <1>11 DEF d, o

(* What the runs counted: nothing before the first dump; nothing counts    *)
(* once a report is made.                                                  *)
ResultsInv ==
  /\ ran \in [Runs -> [in : Counting, past : Counting]]
  /\ \E S : dumps \in [Runs -> Seq(S)]
  /\ \A r \in Runs : dumps[r] = <<>> => ran[r].in = Zeros
  /\ report.of # <<>> => at = Exited
  /\ DiffShowsNew

(* A comparison goes through all of this: parsing the two texts, their     *)
(* difference, writing it, reading it again, and showing it.               *)
LEMMA CompareShows ==
  ASSUME file \in Files, ResultsInv, Compare
  PROVE  DiffShowsNew'
<1>1. Tree(file) /\ \A r \in Runs : ran[r].in \in Counting
  BY FileFacts DEF ResultsInv
<1>2. PICK base, new \in Runs :
        /\ dumps[new] # <<>>
        /\ report' = [of |-> <<base, new>>,
                      files |-> Each(ParseLcov(FormatLcov(Diff(ParseLcov(Lines(base)),
                                                               ParseLcov(Lines(new))))), ToIstanbul)]
  BY DEF Compare
<1>3. file' = file /\ ran' = ran
  BY DEF Compare, results
<1> DEFINE a == ran[base].in
           c == ran[new].in
           b == IF dumps[base] = <<>> THEN NoFile ELSE ReportOf(a)
           bs == IF dumps[base] = <<>> THEN <<>> ELSE <<ReportOf(a)>>
           o == OnlyNew(a, c)
           d == DiffReport(b, a, c)
           files == report'.files
<1>4. a \in Counting /\ c \in Counting /\ (dumps[base] = <<>> => a = Zeros)
  BY <1>1 DEF ResultsInv
<1>5. ParseLcov(Lines(base)) = bs /\ ParseLcov(Lines(new)) = <<ReportOf(c)>>
  BY <1>1, <1>2, <1>4, LinesRead
<1> HIDE DEF a, c
<1>6. /\ Base(b, a)
      /\ \/ bs = <<ReportOf(a)>> /\ b = ReportOf(a)
         \/ bs = <<>> /\ b = NoFile /\ a = Zeros
  BY <1>4 DEF Base
<1> HIDE DEF b, bs
<1>7. Diff(bs, <<ReportOf(c)>>) = IF Novel(d) THEN <<d>> ELSE <<>>
  BY <1>1, <1>4, <1>6, DiffFacts
<1>8. ParseLcov(FormatLcov(<<d>>)) = <<d>> /\ ParseLcov(FormatLcov(<<>>)) = <<>>
  <2>1. o \in Counting
    BY <1>4 DEF OnlyNew, Counting
  <2>2. /\ LnOf(o) \in Seq(LineData) /\ BrOf(o) \in Seq(BranchData) /\ FnOf \in Seq(FnRef)
        /\ DiffData(b, c) \in Seq(FnData)
    BY <1>1, <1>4, <1>6, <2>1, RecordsTyped, DataFacts
  <2>3. "index.js" \in PathNames /\ "index.js" # ""
    BY DEF PathNames
  <2> HIDE DEF o
  <2>4. ParseLcov(FileLines(d)) = <<d>>
    BY <2>2, <2>3, ReadsFile DEF DiffReport, o
  <2> QED BY <2>4, FormatFacts
<1>9. report'.of = <<base, new>> /\ files = Each(ParseLcov(FormatLcov(Diff(bs, <<ReportOf(c)>>))), ToIstanbul)
  BY <1>2, <1>5
<1>10. report'.of[1] = base /\ report'.of[2] = new
  BY <1>9
<1> HIDE DEF o, d
<1>11. files = IF Novel(d) THEN <<ToIstanbul(d)>> ELSE <<>>
  <2>1. Each(<<d>>, ToIstanbul) = <<ToIstanbul(d)>> /\ Each(<<>>, ToIstanbul) = <<>>
    BY DEF Each
  <2> QED BY <1>7, <1>8, <1>9, <2>1
<1>12. /\ ~Novel(d) => \A n \in DOMAIN file : o[n] = 0
       /\ Novel(d) => \E n \in DOMAIN file : o[n] > 0 \/ (n \in FunctionNodes /\ Shared(n))
  BY <1>1, <1>4, <1>6, NovelFacts DEF d, o
<1>13. /\ ToIstanbul(d).s = o
       /\ \A g \in DOMAIN ToIstanbul(d).b : g[1] \in DOMAIN file /\ ToIstanbul(d).b[g] = <<o[g[1]]>>
       /\ \A i \in DOMAIN Fns : Shared(Fns[i]) \/ ToIstanbul(d).f[i] = o[Fns[i]]
  BY <1>1, <1>4, <1>6, ShownFacts DEF d, o
<1> HIDE DEF files
<1>14. ToSet(Fns) = FunctionNodes
  <2>1. FunctionNodes \in SUBSET DOMAIN file
    BY DEF FunctionNodes, Kinds
  <2>2. Fns \in Seq(FunctionNodes) /\ \A n \in FunctionNodes : \E k \in DOMAIN Fns : Fns[k] = n
    BY <1>1, <2>1, OrderFacts DEF Fns
  <2> QED BY <2>2, LenProperties DEF ToSet
<1> DEFINE only(n) == IF a[n] = 0 THEN c[n] ELSE 0
           shown == ToIstanbul(d)
<1>15. (\A n \in DOMAIN file : o[n] = only(n)) /\ o = [n \in DOMAIN file |-> only(n)]
  BY DEF o, OnlyNew
<1> HIDE DEF only
<1>16. files = <<>> => \A n \in DOMAIN file : only(n) = 0
  BY <1>11, <1>12, <1>15
<1>17. files # <<>> =>
         /\ Len(files) = 1 /\ Head(files) = shown
         /\ \E n \in DOMAIN file : only(n) > 0 \/ (file[n].kind = "Function" /\ Shared(n))
  <2>1. files # <<>> => Novel(d) /\ files = <<shown>>
    BY <1>11
  <2>2. FunctionNodes = {n \in DOMAIN file : file[n].kind = "Function"}
    BY DEF FunctionNodes, Kinds
  <2> QED BY <1>12, <1>15, <2>1, <2>2
<1>18. /\ shown.s = [n \in DOMAIN file |-> only(n)]
       /\ \A g \in DOMAIN shown.b : shown.b[g] = <<only(g[1])>>
       /\ \A i \in DOMAIN Fns : Shared(Fns[i]) \/ shown.f[i] = only(Fns[i])
  <2>1. \A i \in DOMAIN Fns : Fns[i] \in DOMAIN file
    <3>1. Fns \in Seq(DOMAIN file)
      BY <1>1, <1>4, RecordsTyped
    <3> QED BY <3>1, LenProperties
  <2> HIDE DEF shown
  <2> QED BY <1>13, <1>15, <2>1 DEF shown
<1> HIDE DEF shown
<1>19. InOrder(Kinds(file, {"Function"}))' = Fns
  BY <1>3 DEF InOrder, Nodes, Fns, FunctionNodes
<1>20. \A n : (\E m \in ToSet(Fns) \ {n} : FunctionName(m)' = FunctionName(n)') <=> Shared(n)
  BY <1>3, <1>14 DEF FunctionName, Shared
<1>21. ran'[report'.of[1]].in = a /\ ran'[report'.of[2]].in = c
  BY <1>3, <1>10 DEF a, c
<1> QED BY <1>3, <1>16, <1>17, <1>18, <1>19, <1>20, <1>21 DEF DiffShowsNew, only, files

(* The invariant of the runs holds at first, is kept by what does not      *)
(* touch the runs, and is kept by a dump.                                  *)
LEMMA ResultsStart ==
  ASSUME Init
  PROVE  ResultsInv
<1>1. \A r \in Runs : ran[r] = Nothing(file) /\ dumps[r] = <<>>
  BY DEF Init
<1>2. Nothing(file) \in [in : Counting, past : Counting] /\ Nothing(file).in = Zeros
  BY DEF Nothing, Counting, Zeros
<1>3. ran \in [Runs -> [in : Counting, past : Counting]]
  <2>1. ran = [r \in Runs |-> Nothing(file)]
    BY DEF Init
  <2> QED BY <1>2, <2>1
<1>4. dumps \in [Runs -> Seq({})]
  <2>1. dumps = [r \in Runs |-> <<>>]
    BY DEF Init
  <2> QED BY <2>1
<1>5. report.of = <<>>
  BY DEF Init
<1> QED BY <1>1, <1>2, <1>3, <1>4, <1>5 DEF ResultsInv, DiffShowsNew

LEMMA ResultsUntouched ==
  ASSUME ResultsInv, file' = file, ran' = ran, dumps' = dumps, report' = report, report.of # <<>> => at' = Exited
  PROVE  ResultsInv'
<1>1. DiffShowsNew'
  <2>1. DiffShowsNew' <=> DiffShowsNew
    BY DEF DiffShowsNew, InOrder, Nodes, FunctionName
  <2> QED BY <2>1 DEF ResultsInv
<1> QED BY <1>1 DEF ResultsInv, Counting, Zeros

LEMMA Awake == Idle # Exited
<1>1. Idle.how = "idle" /\ Exited.how = "exit"
  BY DEF Idle, Exited, Out
<1> QED BY <1>1

LEMMA DumpCounts ==
  ASSUME file \in Files, SeenInv, ResultsInv, WriteDump
  PROVE  ResultsInv'
<1>1. at = Idle /\ report' = report /\ file' = file
  BY DEF WriteDump, tables
<1>2. report.of = <<>>
  BY <1>1, Awake DEF ResultsInv
<1>3. PICK r \in Runs : /\ dumps' = [dumps EXCEPT ![r] = Append(@, Dump(file, seen, defined))]
                        /\ ran' = [ran EXCEPT ![r] = Plus(@, seen)]
  BY DEF WriteDump
<1> DEFINE x == Dump(file, seen, defined)
<1>4. seen \in [in : Counting, past : Counting]
  BY DEF SeenInv, Counting
<1>5. ASSUME NEW u \in [in : Counting, past : Counting] PROVE Plus(u, seen) \in [in : Counting, past : Counting]
  <2> DEFINE of(w) == [n \in DOMAIN file |-> u[w][n] + seen[w][n]]
  <2>1. u.in \in Counting /\ u.past \in Counting /\ seen.in \in Counting /\ seen.past \in Counting
    BY <1>4
  <2>2. of("in") \in Counting /\ of("past") \in Counting
    BY <2>1 DEF Counting
  <2>3. DOMAIN u = {"in", "past"}
    BY DEF Counting
  <2>4. Plus(u, seen) = [in |-> of("in"), past |-> of("past")]
    BY <2>3 DEF Plus
  <2> HIDE DEF of
  <2> QED BY <2>2, <2>4
<1>6. ran' \in [Runs -> [in : Counting, past : Counting]]
  BY <1>3, <1>5 DEF ResultsInv
<1>7. PICK S : dumps \in [Runs -> Seq(S)]
  BY DEF ResultsInv
<1> HIDE DEF x
<1>8. Append(dumps[r], x) \in Seq(S \cup {x}) /\ Append(dumps[r], x) # <<>>
  <2>1. dumps[r] \in Seq(S \cup {x}) /\ x \in S \cup {x}
    BY <1>7, SeqMonotonic
  <2>2. /\ Append(dumps[r], x) \in Seq(S \cup {x}) /\ Len(Append(dumps[r], x)) = Len(dumps[r]) + 1
        /\ Len(dumps[r]) \in Nat
    BY <2>1, AppendProperties, LenProperties
  <2>3. Len(Append(dumps[r], x)) # 0
    BY <2>2
  <2> QED BY <2>2, <2>3, EmptySeq
<1>9. dumps' \in [Runs -> Seq(S \cup {x})]
  <2>1. \A q \in Runs : dumps[q] \in Seq(S \cup {x})
    BY <1>7, SeqMonotonic
  <2> QED BY <1>3, <1>7, <1>8, <2>1 DEF x
<1>10. \A q \in Runs : dumps'[q] = <<>> => ran'[q].in = Zeros
  <2>1. \A q \in Runs : q # r => dumps'[q] = dumps[q] /\ ran'[q] = ran[q]
    BY <1>3
  <2>2. dumps'[r] # <<>>
    BY <1>3, <1>7, <1>8 DEF x
  <2> QED BY <2>1, <2>2 DEF ResultsInv
<1> QED BY <1>1, <1>2, <1>6, <1>9, <1>10 DEF ResultsInv, DiffShowsNew, Counting, Zeros

(* The step.                                                               *)
LEMMA ResultsKept ==
  ASSUME IInv, ResultsInv, [Next]_vars
  PROVE  ResultsInv'
<1>1. file \in Files /\ SeenInv
  BY DEF IInv, AnalysisInv
<1>2. CASE Compare
  <2>1. file' = file /\ ran' = ran /\ dumps' = dumps /\ at' = Exited
    BY <1>2 DEF Compare, results, process
  <2>2. DiffShowsNew'
    BY <1>1, <1>2, CompareShows
  <2> QED BY <2>1, <2>2 DEF ResultsInv, Counting, Zeros
<1>3. CASE WriteDump
  BY <1>1, <1>3, DumpCounts
<1>4. CASE UNCHANGED <<file, ran, dumps, report>> /\ (at = Exited /\ report.of # <<>> => at' = Exited)
  BY <1>4, ResultsUntouched DEF ResultsInv
<1>5. Analyze \/ Convert \/ UNCHANGED vars => UNCHANGED <<file, ran, dumps, report, at>>
  BY DEF Analyze, ImportProject, ImportCached, Traverse, Insert, Convert, process, results, tables, vars
<1>6. Start \/ CallFunction \/ Step \/ Return
        => UNCHANGED <<file, ran, dumps, report>> /\ (report.of = <<>> \/ at # Exited)
  <2>1. Start => report.of = <<>>
    BY DEF Start
  <2>2. CallFunction \/ Step \/ Return => at # Exited
    BY Awake DEF CallFunction, Step, Return, InCall
  <2> QED BY <2>1, <2>2 DEF Start, CallFunction, Step, Return, results, tables
<1> QED BY <1>2, <1>3, <1>4, <1>5, <1>6 DEF Next, Replay

(* Whatever two runs counted, the difference of their lcov.info files,     *)
(* written, read again and turned into a report, shows what the second     *)
(* covered and the first did not (lcov.ts, lcov-diff.ts, lcov-to-html.ts). *)
THEOREM Differences == Spec => []DiffShowsNew
<1>1. Init => ResultsInv
  BY ResultsStart
<1>2. IInv /\ ResultsInv /\ [Next]_vars => ResultsInv'
  BY ResultsKept
<1>3. ResultsInv => DiffShowsNew
  BY DEF ResultsInv
<1> QED BY <1>1, <1>2, <1>3, Invariance, PTL DEF Spec

HIDE CoverageAssumption

-----------------------------------------------------------------------------
(* The text.  A node and what is in it are consecutive.                    *)
Inner(p, n) == {m \in DOMAIN p : n \in Upwards(p, m)}

LEMMA SomeNodes ==
  ASSUME NEW p, Tree(p), NEW S \in SUBSET DOMAIN p
  PROVE  S \in SUBSET Nat /\ IsFiniteSet(S)
<1>1. DOMAIN p = 1..Len(p) /\ Len(p) \in Nat /\ \A m \in DOMAIN p : m \in Nat
  BY TreeFacts
<1>2. IsFiniteSet(1..Len(p))
  BY <1>1, FS_Interval
<1> QED BY <1>1, <1>2, FS_Subset

LEMMA InnerFacts ==
  ASSUME NEW p, Tree(p), Shape(p), NEW n \in DOMAIN p
  PROVE  /\ LastIn(p, n) \in Inner(p, n) /\ LastIn(p, n) \in DOMAIN p
         /\ n <= LastIn(p, n) /\ LastIn(p, n) \in Nat
         /\ Inner(p, n) = {m \in DOMAIN p : n <= m /\ m <= LastIn(p, n)}
<1> DEFINE L == LastIn(p, n)
<1>0. /\ DOMAIN p = 1..Len(p) /\ Len(p) \in Nat /\ n \in Nat /\ n # 0
      /\ \A m \in DOMAIN p : m \in Nat
  BY TreeFacts
<1>1. /\ Inner(p, n) \in SUBSET Nat /\ IsFiniteSet(Inner(p, n)) /\ n \in Inner(p, n)
      /\ \A m \in Inner(p, n) : n <= m /\ m \in DOMAIN p
  <2>1. Inner(p, n) \in SUBSET DOMAIN p
    BY DEF Inner
  <2>2. Inner(p, n) \in SUBSET Nat /\ IsFiniteSet(Inner(p, n))
    BY <2>1, SomeNodes
  <2> QED BY <1>0, <2>2, UpwardsFacts DEF Inner
<1>2. L = Max(Inner(p, n))
  BY DEF LastIn, Inner
<1>3. L \in Inner(p, n) /\ \A m \in Inner(p, n) : m <= L
  BY <1>1, <1>2, MaxFacts
<1> HIDE DEF L
<1>4. L \in DOMAIN p /\ n <= L /\ L \in Nat
  BY <1>0, <1>1, <1>3
<1> DEFINE Reaches == {k \in Nat : n <= L - k => L - k \in Inner(p, n)}
<1>5. ASSUME NEW k \in Nat, k \in Reaches PROVE k + 1 \in Reaches
  <2> SUFFICES ASSUME n <= L - (k + 1) PROVE L - (k + 1) \in Inner(p, n)
    OBVIOUS
  <2> DEFINE m == L - k
  <2>1. m \in Inner(p, n) /\ m \in Nat /\ m # n /\ m \in 2..Len(p) /\ m - 1 \in DOMAIN p
    BY <1>0, <1>4, <1>5
  <2>2. n \in Upwards(p, p[m].up)
    BY <2>1, UpwardsFacts DEF Inner
  <2>3. p[m].up \in Upwards(p, m - 1)
    BY <2>1 DEF Shape
  <2>4. n \in Upwards(p, m - 1)
    BY <2>1, <2>2, <2>3, UpwardsFacts
  <2>5. m - 1 = L - (k + 1)
    BY <1>4
  <2> QED BY <2>1, <2>4, <2>5 DEF Inner
<1>6. Nat \subseteq Reaches
  <2>1. 0 \in Reaches
    BY <1>3, <1>4
  <2> HIDE DEF Reaches
  <2> QED BY <1>5, <2>1, Induction
<1>7. ASSUME NEW m \in DOMAIN p, n <= m, m <= L PROVE m \in Inner(p, n)
  <2>1. L - m \in Nat /\ L - (L - m) = m
    BY <1>0, <1>4, <1>7
  <2> QED BY <1>6, <1>7, <2>1
<1> QED BY <1>1, <1>3, <1>4, <1>7 DEF L

(* Two nodes are one in the other, or one behind the other.                *)
LEMMA BehindFacts ==
  ASSUME NEW p, Tree(p), Shape(p), NEW n \in DOMAIN p, NEW m \in DOMAIN p
  PROVE  /\ m \in Upwards(p, n) <=> m <= n /\ n <= LastIn(p, m)
         /\ m \in Upwards(p, n) => LastIn(p, n) <= LastIn(p, m)
         /\ \/ m \in Upwards(p, n) \/ n \in Upwards(p, m)
            \/ LastIn(p, n) < m \/ LastIn(p, m) < n
<1>1. n \in Nat /\ m \in Nat
  BY TreeFacts
<1>2. /\ \A k \in DOMAIN p : m \in Upwards(p, k) <=> m <= k /\ k <= LastIn(p, m)
      /\ \A k \in DOMAIN p : n \in Upwards(p, k) <=> n <= k /\ k <= LastIn(p, n)
      /\ LastIn(p, n) \in DOMAIN p /\ LastIn(p, n) \in Nat /\ LastIn(p, m) \in Nat
  BY InnerFacts DEF Inner
<1>3. m \in Upwards(p, n) => LastIn(p, n) <= LastIn(p, m)
  <2> SUFFICES ASSUME m \in Upwards(p, n) PROVE m \in Upwards(p, LastIn(p, n))
    BY <1>2
  <2>1. n \in Upwards(p, LastIn(p, n))
    BY InnerFacts DEF Inner
  <2> QED BY <1>2, <2>1, UpwardsFacts
<1> QED BY <1>1, <1>2, <1>3

(* The left operand comes right after its operation.                       *)
LEMMA LeftNext ==
  ASSUME NEW p, Tree(p), Grammar(p), Shape(p), NEW n \in DOMAIN p, n # 1, p[n].slot = "left"
  PROVE  p[n].up = n - 1 /\ p[p[n].up].kind = "Logical"
<1> DEFINE u == p[n].up
<1>1. u \in DOMAIN p /\ n \in Below(p, u) /\ n \in 2..Len(p) /\ u \in Nat /\ n \in Nat /\ u < n
  BY TreeFacts DEF Below
<1>2. p[u].kind = "Logical"
  BY <1>1 DEF Grammar
<1>3. u \in Upwards(p, n)
  BY <1>1, UpwardsFacts, UpwardsDefined
<1>4. u + 1 \in DOMAIN p /\ u \in Upwards(p, u + 1)
  <2>1. u + 1 \in DOMAIN p
    BY <1>1, TreeFacts
  <2> QED BY <1>1, <1>3, <2>1, BehindFacts, InnerFacts
<1>5. PICK c \in Below(p, u) : c \in Upwards(p, u + 1)
  BY <1>1, <1>4, PartAbove
<1>6. c = u + 1
  <2>1. c \in Nat /\ u < c /\ c <= u + 1
    BY <1>1, <1>4, <1>5, PartFacts, UpwardsFacts, TreeFacts
  <2> QED BY <1>1, <2>1
<1>7. c = n
  <2> SUFFICES ASSUME c # n PROVE FALSE
    OBVIOUS
  <2>1. c < n /\ c \in 2..Len(p) /\ p[c].up = u
    BY <1>1, <1>5, <1>6, PartFacts, TreeFacts
  <2>2. Place(p[c].slot) < Place(p[n].slot) \/ Place(p[c].slot) = 0
    BY <1>1, <2>1 DEF Shape, Next1
  <2>3. p[c].slot \in {"left", "right"}
    BY <1>2, <2>1 DEF Grammar
  <2> QED BY <2>2, <2>3 DEF Place
<1> QED BY <1>1, <1>2, <1>6, <1>7

(* A node begins with the first of its left operands.                      *)
LEMMA BeginsFacts ==
  ASSUME NEW p, Tree(p), Grammar(p), Shape(p), NEW n \in DOMAIN p
  PROVE  /\ Begins(p, n) \in Nat /\ Begins(p, n) # 0 /\ Begins(p, n) <= n
         /\ \A j \in Nat : Begins(p, n) <= j /\ j <= n =>
              j \in Upwards(p, n) /\ (Begins(p, n) < j => p[j].slot = "left")
         /\ \A a \in Upwards(p, n) : Begins(p, a) <= Begins(p, n)
<1> DEFINE Starts(k) == {m \in Upwards(p, k) : \A j \in Upwards(p, k) : j > m => p[j].slot = "left"}
           b == Begins(p, n)
<1>0. \A k \in DOMAIN p : k \in Nat /\ k # 0
  BY TreeFacts
<1>1. \A k \in DOMAIN p : Begins(p, k) \in Starts(k) /\ \A m \in Starts(k) : Begins(p, k) <= m
  <2> SUFFICES ASSUME NEW k \in DOMAIN p
               PROVE  Begins(p, k) \in Starts(k) /\ \A m \in Starts(k) : Begins(p, k) <= m
    OBVIOUS
  <2>1. k \in Starts(k)
    BY <1>0, UpwardsFacts
  <2>2. Starts(k) \in SUBSET DOMAIN p
    BY UpwardsFacts
  <2>3. Starts(k) \in SUBSET Nat /\ IsFiniteSet(Starts(k))
    <3> HIDE DEF Starts
    <3> QED BY <2>2, SomeNodes
  <2>4. Begins(p, k) = Min(Starts(k))
    BY DEF Begins
  <2> HIDE DEF Starts
  <2> QED BY <2>1, <2>3, <2>4, MinFacts
<1>2. b \in Upwards(p, n) /\ b \in Nat /\ b # 0 /\ b <= n
  BY <1>0, <1>1, UpwardsFacts
<1>3. \A j \in Upwards(p, n) : j > b => p[j].slot = "left"
  BY <1>1
<1>4. \A a \in Upwards(p, n) : Begins(p, a) <= b
  <2> SUFFICES ASSUME NEW a \in Upwards(p, n) PROVE Begins(p, a) <= b
    OBVIOUS
  <2>0. a \in DOMAIN p /\ a \in Nat /\ a \in Upwards(p, a) /\ Upwards(p, a) \subseteq Upwards(p, n)
    BY <1>0, UpwardsFacts
  <2>1. CASE a <= b
    <3>1. Begins(p, a) <= a /\ Begins(p, a) \in Nat
      BY <1>0, <1>1, <2>0, UpwardsFacts
    <3> QED BY <1>2, <2>0, <2>1, <3>1
  <2>2. CASE b < a
    <3>1. b \in Upwards(p, a)
      <4>1. a \notin Upwards(p, b)
        BY <1>0, <1>2, <2>0, <2>2, UpwardsFacts
      <4> QED BY <1>2, <4>1, ChainFacts
    <3>2. b \in Starts(a)
      BY <1>3, <2>0, <3>1
    <3> QED BY <1>1, <2>0, <3>2
  <2> QED BY <1>2, <2>0, <2>1, <2>2
<1> HIDE DEF b
<1> DEFINE Good == {k \in Nat : b <= n - k => n - k \in Upwards(p, n)}
<1>5. ASSUME NEW k \in Nat, k \in Good PROVE k + 1 \in Good
  <2> SUFFICES ASSUME b <= n - (k + 1) PROVE n - (k + 1) \in Upwards(p, n)
    OBVIOUS
  <2>0. n \in Nat
    BY <1>0
  <2> DEFINE j == n - k
  <2>1. j \in Upwards(p, n) /\ j > b /\ j # 1 /\ j - 1 = n - (k + 1)
    BY <1>2, <1>5, <2>0
  <2>2. j \in DOMAIN p /\ p[j].slot = "left"
    BY <1>3, <2>1, UpwardsFacts
  <2> HIDE DEF j
  <2>3. p[j].up = j - 1
    BY <2>1, <2>2, LeftNext
  <2>4. p[j].up \in Upwards(p, j)
    BY <2>1, <2>2, UpwardsDefined, UpwardsFacts
  <2>5. p[j].up \in Upwards(p, n)
    BY <2>1, <2>4, UpwardsFacts
  <2> QED BY <2>1, <2>3, <2>5
<1>6. Nat \subseteq Good
  <2>1. 0 \in Good
    BY <1>0, UpwardsFacts
  <2> HIDE DEF Good
  <2> QED BY <1>5, <2>1, Induction
<1>7. ASSUME NEW j \in Nat, b <= j, j <= n PROVE j \in Upwards(p, n)
  <2>1. n - j \in Nat /\ n - (n - j) = j
    BY <1>0, <1>7
  <2> QED BY <1>6, <1>7, <2>1
<1> QED BY <1>2, <1>3, <1>4, <1>7 DEF b

(* The offsets, and the order that they have.                              *)
LEMMA Scaled ==
  ASSUME NEW w \in Nat, NEW a \in Nat, NEW b \in Nat
  PROVE  w * a \in Nat /\ w * (a + 1) = w * a + w /\ (a <= b => w * a <= w * b)
<1>1. w * a \in Nat /\ w * (a + 1) = w * a + w
  BY SMT
<1>2. ASSUME a <= b PROVE w * a <= w * b
  <2>1. b - a \in Nat /\ b = a + (b - a)
    BY <1>2
  <2>2. w * (b - a) >= 0 /\ w * b = w * a + w * (b - a)
    BY <2>1, SMT
  <2> QED BY <2>1, <2>2, SMT
<1> QED BY <1>1, <1>2

From(p, n) == Offset(p)[n].from
To(p, n) == Offset(p)[n].to
Holds(p, m, n) == From(p, m) <= From(p, n) /\ To(p, n) <= To(p, m)

LEMMA EndsFacts ==
  ASSUME NEW p, Tree(p), Shape(p), NEW n \in DOMAIN p
  PROVE  /\ Ends(p, n) \in 1..Len(p)
         /\ \A a \in Upwards(p, n) : LastIn(p, a) = LastIn(p, n) => Ends(p, a) <= Ends(p, n)
<1> DEFINE Stops(m) == {k \in Upwards(p, LastIn(p, m)) :
                          k >= m /\ (p[k].kind \in EndsItself \/ k = LastIn(p, m))}
<1>1. ASSUME NEW m \in DOMAIN p
      PROVE  /\ Ends(p, m) \in DOMAIN p /\ Ends(p, m) \in Stops(m)
             /\ \A k \in Stops(m) : Ends(p, m) <= k
  <2>1. LastIn(p, m) \in DOMAIN p /\ m <= LastIn(p, m)
    BY InnerFacts
  <2>2. LastIn(p, m) \in Stops(m) /\ Stops(m) \in SUBSET DOMAIN p
    BY <2>1, UpwardsFacts, TreeFacts
  <2>3. Ends(p, m) = Min(Stops(m))
    BY DEF Ends
  <2> HIDE DEF Stops
  <2> QED BY <2>2, <2>3, SomeNodes, MinFacts
<1>2. Ends(p, n) \in 1..Len(p)
  BY <1>1, TreeFacts
<1>3. ASSUME NEW a \in Upwards(p, n), LastIn(p, a) = LastIn(p, n) PROVE Ends(p, a) <= Ends(p, n)
  <2>1. a \in DOMAIN p /\ a <= n /\ a \in Nat /\ n \in Nat
    BY UpwardsFacts, TreeFacts
  <2>2. Ends(p, n) \in Stops(a)
    <3>1. Ends(p, n) \in Stops(n) /\ Ends(p, n) \in Nat
      BY <1>1, TreeFacts
    <3> QED BY <1>3, <2>1, <3>1
  <2> HIDE DEF Stops
  <2> QED BY <1>1, <2>1, <2>2
<1> HIDE DEF Stops
<1> QED BY <1>2, <1>3

LEMMA TextFacts ==
  ASSUME NEW p, Tree(p), Grammar(p), Shape(p), NEW n \in DOMAIN p
  PROVE  /\ From(p, n) \in Nat /\ To(p, n) \in Nat /\ From(p, n) < To(p, n)
         /\ \A a \in Upwards(p, n) : Holds(p, a, n)
         /\ \A m \in DOMAIN p : LastIn(p, m) < n => To(p, m) < From(p, n)
         /\ \A m \in DOMAIN p : From(p, n) # To(p, m)
<1> DEFINE w == Len(p) + 1
           W(j) == w * j
<1>0. w \in Nat /\ Len(p) \in Nat
  BY TreeFacts
<1>1. ASSUME NEW m \in DOMAIN p
      PROVE  From(p, m) = W(Begins(p, m)) /\ To(p, m) = W(LastIn(p, m) + 1) - Ends(p, m)
  BY DEF From, To, Offset
<1>2. ASSUME NEW m \in DOMAIN p
      PROVE  /\ m \in Nat /\ Begins(p, m) \in Nat /\ Begins(p, m) <= m
             /\ LastIn(p, m) \in Nat /\ m <= LastIn(p, m)
             /\ Ends(p, m) \in Nat /\ 1 <= Ends(p, m) /\ Ends(p, m) < w
  <2>1. m \in Nat /\ Begins(p, m) \in Nat /\ Begins(p, m) <= m
    BY BeginsFacts, TreeFacts
  <2>2. LastIn(p, m) \in Nat /\ m <= LastIn(p, m)
    BY InnerFacts
  <2>3. Ends(p, m) \in 1..Len(p)
    BY EndsFacts
  <2> QED BY <1>0, <2>1, <2>2, <2>3
<1>4. ASSUME NEW a \in Nat, NEW b \in Nat
      PROVE  /\ W(a) \in Nat /\ W(b) \in Nat
             /\ W(a + 1) = W(a) + w
             /\ a <= b => W(a) <= W(b)
             /\ a < b => W(a) + w <= W(b)
  <2>1. a + 1 \in Nat /\ (a < b => a + 1 <= b)
    OBVIOUS
  <2>2. W(a + 1) = W(a) + w /\ W(a) \in Nat /\ W(b) \in Nat
    BY <1>0, Scaled
  <2>3. (a <= b => W(a) <= W(b)) /\ (a + 1 <= b => W(a + 1) <= W(b))
    BY <1>0, <2>1, Scaled
  <2> HIDE DEF W, w
  <2> QED BY <2>1, <2>2, <2>3
<1> HIDE DEF w, W
<1>3. ASSUME NEW m \in DOMAIN p
      PROVE  /\ From(p, m) \in Nat /\ To(p, m) \in Nat
             /\ To(p, m) < W(LastIn(p, m)) + w /\ To(p, m) > W(LastIn(p, m))
             /\ W(LastIn(p, m)) \in Nat
  <2>1. W(Begins(p, m)) \in Nat /\ W(LastIn(p, m)) \in Nat /\ W(LastIn(p, m) + 1) = W(LastIn(p, m)) + w
    BY <1>2, <1>4
  <2>2. From(p, m) = W(Begins(p, m)) /\ To(p, m) = W(LastIn(p, m) + 1) - Ends(p, m)
    BY <1>1
  <2>3. Ends(p, m) \in Nat /\ 1 <= Ends(p, m) /\ Ends(p, m) < w
    BY <1>2
  <2> QED BY <1>0, <2>1, <2>2, <2>3
<1>5. From(p, n) < To(p, n)
  <2>1. Begins(p, n) <= LastIn(p, n) /\ Begins(p, n) \in Nat /\ LastIn(p, n) \in Nat
    BY <1>2
  <2>2. W(Begins(p, n)) <= W(LastIn(p, n)) /\ W(LastIn(p, n)) \in Nat /\ W(Begins(p, n)) \in Nat
    BY <1>4, <2>1
  <2>3. From(p, n) = W(Begins(p, n)) /\ To(p, n) > W(LastIn(p, n)) /\ To(p, n) \in Nat
    BY <1>1, <1>3
  <2> QED BY <2>2, <2>3
<1>6. ASSUME NEW a \in Upwards(p, n) PROVE Holds(p, a, n)
  <2>1. a \in DOMAIN p /\ Begins(p, a) <= Begins(p, n) /\ LastIn(p, n) <= LastIn(p, a)
    BY UpwardsFacts, BeginsFacts, BehindFacts
  <2>2. From(p, a) <= From(p, n)
    <3>1. Begins(p, a) \in Nat /\ Begins(p, n) \in Nat
      BY <1>2, <2>1
    <3>2. W(Begins(p, a)) <= W(Begins(p, n))
      BY <1>4, <2>1, <3>1
    <3> QED BY <1>1, <2>1, <3>2
  <2>3. CASE LastIn(p, n) = LastIn(p, a)
    <3>1. Ends(p, a) <= Ends(p, n)
      BY <2>3, EndsFacts
    <3>2. LastIn(p, n) + 1 \in Nat /\ Ends(p, a) \in Nat /\ Ends(p, n) \in Nat
      BY <1>2, <2>1
    <3>3. W(LastIn(p, n) + 1) \in Nat
      BY <1>4, <3>2
    <3>4. To(p, n) = W(LastIn(p, n) + 1) - Ends(p, n) /\ To(p, a) = W(LastIn(p, n) + 1) - Ends(p, a)
      BY <1>1, <2>1, <2>3
    <3>5. To(p, n) <= To(p, a)
      BY <3>1, <3>2, <3>3, <3>4
    <3> QED BY <2>2, <3>5 DEF Holds
  <2>4. CASE LastIn(p, n) < LastIn(p, a)
    <3>1. LastIn(p, n) \in Nat /\ LastIn(p, a) \in Nat
      BY <1>2, <2>1
    <3>2. W(LastIn(p, n)) + w <= W(LastIn(p, a)) /\ W(LastIn(p, n)) \in Nat /\ W(LastIn(p, a)) \in Nat
      BY <1>4, <2>4, <3>1
    <3>3. To(p, n) < W(LastIn(p, n)) + w /\ To(p, a) > W(LastIn(p, a)) /\ To(p, n) \in Nat /\ To(p, a) \in Nat
      BY <1>3, <2>1
    <3>4. To(p, n) <= To(p, a)
      BY <1>0, <3>2, <3>3
    <3> QED BY <2>2, <3>4 DEF Holds
  <2>5. LastIn(p, n) \in Nat /\ LastIn(p, a) \in Nat
    BY <1>2, <2>1
  <2> QED BY <2>1, <2>3, <2>4, <2>5
<1>7. ASSUME NEW m \in DOMAIN p, LastIn(p, m) < n PROVE To(p, m) < From(p, n)
  <2>0. n \in Nat /\ LastIn(p, m) \in Nat /\ Begins(p, n) \in Nat /\ Begins(p, n) <= n
    BY <1>2
  <2>1. LastIn(p, m) < Begins(p, n)
    <3> SUFFICES ASSUME Begins(p, n) <= LastIn(p, m) PROVE FALSE
      BY <2>0
    <3>1. LastIn(p, m) \in Upwards(p, n) /\ LastIn(p, m) \in DOMAIN p
      BY <1>7, <2>0, BeginsFacts, InnerFacts
    <3>2. m \in Upwards(p, LastIn(p, m))
      BY InnerFacts DEF Inner
    <3>3. m \in Upwards(p, n)
      BY <3>1, <3>2, UpwardsFacts
    <3>4. n <= LastIn(p, m)
      BY <3>3, BehindFacts
    <3> QED BY <1>7, <2>0, <3>4
  <2>2. W(LastIn(p, m)) + w <= W(Begins(p, n)) /\ W(LastIn(p, m)) \in Nat /\ W(Begins(p, n)) \in Nat
    BY <1>4, <2>0, <2>1
  <2>3. To(p, m) < W(LastIn(p, m)) + w /\ From(p, n) = W(Begins(p, n)) /\ To(p, m) \in Nat
    BY <1>1, <1>3
  <2> QED BY <1>0, <2>2, <2>3
<1>8. ASSUME NEW m \in DOMAIN p PROVE From(p, n) # To(p, m)
  <2> DEFINE L == LastIn(p, m)
             B == Begins(p, n)
  <2>1. L \in Nat /\ B \in Nat
    BY <1>2
  <2>2. To(p, m) < W(L) + w /\ To(p, m) > W(L) /\ From(p, n) = W(B) /\ To(p, m) \in Nat
    BY <1>1, <1>3
  <2> HIDE DEF L, B
  <2>3. W(L) \in Nat /\ W(B) \in Nat /\ (B <= L => W(B) <= W(L)) /\ (L < B => W(L) + w <= W(B))
    BY <1>4, <2>1
  <2> QED BY <1>0, <2>1, <2>2, <2>3
<1>9. \A m \in DOMAIN p : From(p, n) # To(p, m)
  BY <1>8
<1>10. \A m \in DOMAIN p : LastIn(p, m) < n => To(p, m) < From(p, n)
  BY <1>7
<1> QED BY <1>3, <1>5, <1>6, <1>9, <1>10

(* Different nodes have different extents, and one holds what is in it.    *)
LEMMA HoldsFacts ==
  ASSUME NEW p, Tree(p), Grammar(p), Shape(p), NEW n \in DOMAIN p, NEW m \in DOMAIN p
  PROVE  /\ From(p, n) = From(p, m) /\ To(p, n) = To(p, m) => n = m
         /\ Holds(p, m, n) <=> m \in Upwards(p, n)
<1>1. ASSUME NEW k \in DOMAIN p, NEW x \in Upwards(p, k), x # k, From(p, x) = From(p, k), To(p, x) = To(p, k)
      PROVE  FALSE
  <2>0. x \in DOMAIN p /\ x < k /\ x \in Nat /\ k \in Nat
    BY <1>1, UpwardsFacts, TreeFacts
  <2>1. Begins(p, k) <= x
    <3>1. Begins(p, x) = Begins(p, k)
      <4> DEFINE w == Len(p) + 1
                 a == Begins(p, x)
                 b == Begins(p, k)
      <4>1. w * a = w * b
        BY <1>1, <2>0 DEF From, Offset
      <4>2. w \in Nat /\ w > 0
        BY TreeFacts
      <4>3. a \in Nat /\ b \in Nat
        BY <2>0, BeginsFacts
      <4> HIDE DEF w, a, b
      <4>4. a < b => a + 1 \in Nat /\ a + 1 <= b
        BY <4>3
      <4>5. b < a => b + 1 \in Nat /\ b + 1 <= a
        BY <4>3
      <4>6. /\ w * (a + 1) = w * a + w /\ w * (b + 1) = w * b + w
            /\ w * a \in Nat /\ w * b \in Nat
        BY <4>2, <4>3, Scaled
      <4>7. (a < b => w * (a + 1) <= w * b) /\ (b < a => w * (b + 1) <= w * a)
        BY <4>2, <4>3, <4>4, <4>5, Scaled
      <4>8. ~(a < b) /\ ~(b < a)
        BY <4>1, <4>2, <4>6, <4>7
      <4>9. a = b
        BY <4>3, <4>8
      <4> QED BY <4>9 DEF a, b
    <3> QED BY <2>0, <3>1, BeginsFacts
  <2> DEFINE l == x + 1
  <2>2. l \in Upwards(p, k) /\ l \in DOMAIN p /\ l # 1 /\ p[l].slot = "left"
    <3>1. l \in Nat /\ Begins(p, k) < l /\ l <= k /\ l # 1
      BY <2>0, <2>1, BeginsFacts, TreeFacts
    <3> QED BY <3>1, BeginsFacts, UpwardsFacts
  <2>3. p[l].up = x /\ p[x].kind = "Logical"
    BY <2>0, <2>2, LeftNext
  <2>4. PICK r \in DOMAIN p : r \in Below(p, x) /\ p[r].slot = "right"
    BY <2>0, <2>3 DEF Shape, At, Below
  <2> HIDE DEF l
  <2>5. r # l /\ p[r].up = x /\ r \notin Upwards(p, l) /\ l \notin Upwards(p, r)
    <3>1. r # l /\ p[r].up = x
      BY <2>2, <2>4 DEF Below
    <3>2. r \notin Upwards(p, l)
      <4> SUFFICES ASSUME r \in Upwards(p, l) PROVE FALSE
        OBVIOUS
      <4>1. r = l
        BY <2>2, <2>3, <3>1, ChainFacts, UpwardsFacts
      <4> QED BY <3>1, <4>1
    <3>3. l \notin Upwards(p, r)
      <4> SUFFICES ASSUME l \in Upwards(p, r) PROVE FALSE
        OBVIOUS
      <4>1. l = r
        BY <2>3, <2>4, <3>1, ChainFacts, UpwardsFacts
      <4> QED BY <3>1, <4>1
    <3> QED BY <3>1, <3>2, <3>3
  <2>6. LastIn(p, l) < r
    <3>1. l < r
      <4>1. l \in Nat /\ r \in Nat /\ x \in Nat
        BY <2>0, <2>2, <2>4, TreeFacts
      <4> QED BY <2>0, <2>2, <2>4, <2>5, <4>1, PartFacts DEF l
    <3>2. LastIn(p, r) \in Nat /\ r <= LastIn(p, r) /\ r \in Nat /\ l \in Nat
      BY <2>2, <2>4, InnerFacts, TreeFacts
    <3> QED BY <2>2, <2>4, <2>5, <3>1, <3>2, BehindFacts
  <2>7. To(p, l) < From(p, r) /\ From(p, r) < To(p, r)
    BY <2>2, <2>4, <2>6, TextFacts
  <2>8. To(p, r) <= To(p, x)
    <3>1. x \in Upwards(p, r)
      BY <2>0, <2>4, PartFacts, UpwardsFacts
    <3> QED BY <2>4, <3>1, TextFacts DEF Holds
  <2>9. To(p, k) <= To(p, l)
    BY <1>1, <2>2, TextFacts DEF Holds
  <2>10. /\ To(p, k) \in Nat /\ To(p, l) \in Nat /\ To(p, r) \in Nat /\ To(p, x) \in Nat /\ From(p, r) \in Nat
    BY <1>1, <2>0, <2>2, <2>4, TextFacts
  <2> QED BY <1>1, <2>7, <2>8, <2>9, <2>10
<1>2. ASSUME m \notin Upwards(p, n), n \notin Upwards(p, m)
      PROVE  To(p, m) < From(p, n) \/ To(p, n) < From(p, m)
  BY <1>2, BehindFacts, TextFacts
<1>3. /\ From(p, n) \in Nat /\ To(p, n) \in Nat /\ From(p, n) < To(p, n)
      /\ From(p, m) \in Nat /\ To(p, m) \in Nat /\ From(p, m) < To(p, m)
  BY TextFacts
<1>4. From(p, n) = From(p, m) /\ To(p, n) = To(p, m) => n = m
  BY <1>1, <1>2, <1>3
<1>5. m \in Upwards(p, n) => Holds(p, m, n)
  BY TextFacts
<1>6. n \in Upwards(p, m) => Holds(p, n, m)
  BY TextFacts
<1>7. Holds(p, m, n) => m \in Upwards(p, n)
  <2> SUFFICES ASSUME Holds(p, m, n), m \notin Upwards(p, n) PROVE FALSE
    OBVIOUS
  <2>1. n \in Upwards(p, m)
    BY <1>2, <1>3 DEF Holds
  <2>2. n = m
    BY <1>3, <1>4, <1>6, <2>1 DEF Holds
  <2> QED BY <2>1, <2>2
<1> QED BY <1>4, <1>5, <1>7

(* Parts of a node stand one behind the other.                             *)
LEMMA Siblings ==
  ASSUME NEW p, Tree(p), Shape(p), NEW c \in DOMAIN p, NEW d \in Below(p, c), NEW r \in Below(p, c), d < r
  PROVE  LastIn(p, d) < r
<1>1. /\ d \in DOMAIN p /\ r \in DOMAIN p /\ p[d].up = c /\ p[r].up = c
      /\ d \in Nat /\ r \in Nat
  BY PartFacts, TreeFacts
<1>2. d # r
  BY <1>1
<1>3. r \notin Upwards(p, d) /\ d \notin Upwards(p, r)
  <2>1. r \in Upwards(p, d) => r = d
    <3> SUFFICES ASSUME r \in Upwards(p, d) PROVE r = d
      OBVIOUS
    <3>1. d \in Upwards(p, d)
      BY <1>1, UpwardsFacts
    <3> QED BY <1>1, <3>1, ChainFacts
  <2>2. d \in Upwards(p, r) => r = d
    <3> SUFFICES ASSUME d \in Upwards(p, r) PROVE r = d
      OBVIOUS
    <3>1. r \in Upwards(p, r)
      BY <1>1, UpwardsFacts
    <3> QED BY <1>1, <3>1, ChainFacts
  <2> QED BY <1>2, <2>1, <2>2
<1>4. LastIn(p, r) \in Nat /\ r <= LastIn(p, r)
  BY <1>1, InnerFacts
<1> QED BY <1>1, <1>3, <1>4, BehindFacts

LEMMA LaterPart ==
  ASSUME NEW p, Tree(p), Grammar(p), Shape(p), NEW c \in DOMAIN p, NEW d \in Below(p, c), NEW r \in Below(p, c),
         Place(p[d].slot) < Place(p[r].slot)
  PROVE  LastIn(p, d) < r /\ To(p, d) < To(p, c)
<1>1. /\ d \in DOMAIN p /\ r \in DOMAIN p /\ p[d].up = c /\ p[r].up = c
      /\ d \in 2..Len(p) /\ r \in 2..Len(p) /\ c \in Upwards(p, r)
  BY PartFacts, TreeFacts, UpwardsFacts
<1>2. d < r
  <2>1. r \notin Upwards(p, r) => FALSE
    BY <1>1, UpwardsFacts
  <2>2. \A s : Place(s) \in {0, 1, 2, 3}
    BY DEF Place
  <2>3. ~(r < d)
    <3> SUFFICES ASSUME r < d PROVE FALSE
      OBVIOUS
    <3>1. d \in Next1(p, r)
      BY <1>1 DEF Next1, Below
    <3>2. Place(p[r].slot) < Place(p[d].slot) \/ Place(p[r].slot) = 0
      BY <1>1, <3>1 DEF Shape
    <3> QED BY <2>2, <3>2
  <2>4. d # r
    BY <2>2
  <2> QED BY <1>1, <2>3, <2>4
<1>3. LastIn(p, d) < r
  BY <1>2, Siblings
<1>4. To(p, d) < From(p, r) /\ From(p, r) < To(p, r) /\ To(p, r) <= To(p, c)
  BY <1>1, <1>3, TextFacts DEF Holds
<1>5. To(p, d) \in Nat /\ From(p, r) \in Nat /\ To(p, r) \in Nat /\ To(p, c) \in Nat
  BY <1>1, TextFacts
<1> QED BY <1>3, <1>4, <1>5

(* A construct that ends where another ends that it is in is in an arm of  *)
(* that.                                                                   *)
LEMMA DivertsEnd ==
  ASSUME NEW p, Tree(p), Grammar(p), Shape(p), NEW x \in DOMAIN p, NEW c \in Upwards(p, x), c # x,
         Diverts(p, c), Diverts(p, x), To(p, x) = To(p, c)
  PROVE  \E q \in Upwards(p, x) : Counted(p, q) /\ q # c /\ c \in Upwards(p, q)
<1> DEFINE kind == p[c].kind
<1>0. c \in DOMAIN p
  BY UpwardsFacts
<1>1. PICK d \in Below(p, c) : d \in Upwards(p, x)
  BY PartAbove
<1>2. /\ d \in DOMAIN p /\ p[d].up = c /\ d # c /\ c \in Upwards(p, d) /\ d \in 2..Len(p)
      /\ To(p, x) <= To(p, d)
      /\ To(p, x) \in Nat /\ To(p, c) \in Nat /\ To(p, d) \in Nat
  <2>1. d \in DOMAIN p /\ p[d].up = c /\ d # c /\ d # 1 /\ Upwards(p, d) = {d} \cup Upwards(p, c)
    BY <1>0, <1>1, PartFacts
  <2>2. c \in Upwards(p, d) /\ d \in 2..Len(p)
    BY <1>0, <2>1, UpwardsFacts, TreeFacts
  <2>3. To(p, x) <= To(p, d)
    BY <1>1, TextFacts DEF Holds
  <2> QED BY <1>0, <2>1, <2>2, <2>3, TextFacts
<1>3. \A r \in Below(p, c) : ~(Place(p[d].slot) < Place(p[r].slot))
  BY <1>0, <1>1, <1>2, LaterPart
<1>4. p[d].slot \in Slots(kind) /\ (p[d].kind \in {"Case", "Default"} <=> kind = "Switch")
      /\ (p[d].slot = "handler" <=> p[d].kind = "Catch")
  BY <1>2 DEF Shape, Grammar
<1>5. kind \in {"If", "Switch", "Try", "Return", "Throw", "Break", "While", "ForOf"}
  BY DEF Diverts, Loops
<1>6. CASE Counted(p, d)
  BY <1>1, <1>2, <1>6
<1>7. ASSUME ~Counted(p, d) PROVE p[d].slot \in {"test", "block", "handler"} /\ kind \notin {"Return", "Throw", "Break", "ForOf", "Switch"}
  <2>1. p[d].slot \notin ArmSlots /\ ~(p[d].slot = "body" /\ kind \in Loops) /\ kind # "Switch"
    BY <1>2, <1>4, <1>7 DEF Counted
  <2> QED BY <1>4, <1>5, <2>1 DEF Slots, ArmSlots, Loops, Lists
<1>8. CASE p[d].slot = "test" /\ kind \in {"If", "While"}
  <2>1. \E r \in Below(p, c) : p[r].slot \in {"consequent", "body"}
    BY <1>0, <1>8 DEF Shape, At, Loops
  <2> QED BY <1>3, <1>8, <2>1 DEF Place
<1>9. CASE p[d].slot = "block" /\ kind = "Try"
  <2>1. \E r \in Below(p, c) : p[r].slot \in {"handler", "finalizer"}
    BY <1>0, <1>9 DEF Shape, At
  <2> QED BY <1>3, <1>9, <2>1 DEF Place
<1>10. CASE p[d].slot = "handler" /\ kind = "Try"
  <2>1. p[d].kind = "Catch" /\ x # d
    BY <1>4, <1>10 DEF Diverts, Loops
  <2>2. PICK e \in Below(p, d) : e \in Upwards(p, x)
    BY <1>1, <1>2, <2>1, PartAbove
  <2>3. e \in DOMAIN p /\ p[e].up = d /\ d \in Upwards(p, e) /\ e \in 2..Len(p) /\ d < e /\ c < d /\ d \in Nat /\ e \in Nat /\ c \in Nat
    <3>1. e \in DOMAIN p /\ p[e].up = d /\ d < e /\ e # 1 /\ Upwards(p, e) = {e} \cup Upwards(p, d)
      BY <1>2, <2>2, PartFacts
    <3>2. d \in Upwards(p, d)
      BY <1>2, UpwardsFacts
    <3>3. c < d
      BY <1>0, <1>1, <1>2, PartFacts
    <3>4. d \in Nat /\ e \in Nat /\ c \in Nat /\ Len(p) \in Nat /\ e \in 1..Len(p)
      BY <1>0, <1>2, <3>1, TreeFacts
    <3> QED BY <3>1, <3>2, <3>3, <3>4
  <2>4. p[e].slot = "body"
    BY <2>1, <2>3 DEF Grammar
  <2>5. Counted(p, e)
    BY <2>1, <2>3, <2>4 DEF Counted
  <2>6. c \in Upwards(p, e) /\ e # c
    BY <1>2, <2>3, UpwardsFacts
  <2> QED BY <2>2, <2>5, <2>6
<1>11. ~Counted(p, d) => (p[d].slot = "test" /\ kind \in {"If", "While"}) \/ (p[d].slot \in {"block", "handler"} /\ kind = "Try")
  BY <1>4, <1>5, <1>7 DEF Slots, Lists
<1> QED BY <1>6, <1>8, <1>9, <1>10, <1>11

(* The innermost arm around a node, and the innermost function.            *)
Around(p, n) == Max({m \in Upwards(p, n) : Counted(p, m)})

LEMMA AroundFacts ==
  ASSUME NEW p, Tree(p), NEW n \in DOMAIN p
  PROVE  /\ Around(p, n) \in Upwards(p, n) /\ Around(p, n) \in DOMAIN p /\ Counted(p, Around(p, n))
         /\ \A m \in Upwards(p, n) : Counted(p, m) => m <= Around(p, n) /\ m \in Upwards(p, Around(p, n))
<1> DEFINE S == {m \in Upwards(p, n) : Counted(p, m)}
<1>1. 1 \in S /\ S \in SUBSET DOMAIN p
  BY UpwardsFacts, TreeFacts DEF Counted, Scopes
<1>2. Around(p, n) = Max(S)
  BY DEF Around
<1> HIDE DEF S
<1>3. Around(p, n) \in S /\ \A m \in S : m <= Around(p, n)
  BY <1>1, <1>2, SomeNodes, MaxFacts
<1>4. Around(p, n) \in Upwards(p, n) /\ Around(p, n) \in DOMAIN p /\ Counted(p, Around(p, n))
  BY <1>1, <1>3 DEF S
<1>5. ASSUME NEW m \in Upwards(p, n), Counted(p, m) PROVE m <= Around(p, n) /\ m \in Upwards(p, Around(p, n))
  <2>1. m <= Around(p, n) /\ m \in DOMAIN p
    BY <1>1, <1>3, <1>5 DEF S
  <2>2. CASE Around(p, n) \in Upwards(p, m)
    <3>1. Around(p, n) <= m
      BY <2>1, <2>2, UpwardsFacts
    <3>2. m = Around(p, n)
      BY <1>4, <2>1, <3>1, TreeFacts
    <3> QED BY <2>1, <3>2, UpwardsFacts
  <2> QED BY <1>4, <2>1, <2>2, ChainFacts
<1> QED BY <1>4, <1>5

LEMMA FunctionFacts ==
  ASSUME NEW p, Tree(p), NEW n \in DOMAIN p
  PROVE  /\ FunctionOf(p, n) \in Upwards(p, n) /\ FunctionOf(p, n) \in DOMAIN p
         /\ FunctionOf(p, n) = 1 \/ p[FunctionOf(p, n)].kind = "Function"
         /\ Counted(p, FunctionOf(p, n))
         /\ \A m \in Upwards(p, n) : p[m].kind = "Function" => m <= FunctionOf(p, n) /\ m \in Upwards(p, FunctionOf(p, n))
         /\ \A m \in Upwards(p, n) : FunctionOf(p, n) \in Upwards(p, m) => FunctionOf(p, m) = FunctionOf(p, n)
<1> DEFINE S(k) == {m \in Upwards(p, k) : p[m].kind = "Function"} \cup {1}
<1>1. ASSUME NEW k \in DOMAIN p
      PROVE  /\ FunctionOf(p, k) \in S(k) /\ FunctionOf(p, k) \in Upwards(p, k) /\ FunctionOf(p, k) \in DOMAIN p
             /\ \A m \in S(k) : m <= FunctionOf(p, k)
  <2>1. S(k) \in SUBSET DOMAIN p /\ S(k) # {} /\ S(k) \subseteq Upwards(p, k)
    BY UpwardsFacts, TreeFacts
  <2>2. FunctionOf(p, k) = Max(S(k))
    BY DEF FunctionOf
  <2> HIDE DEF S
  <2> QED BY <2>1, <2>2, SomeNodes, MaxFacts
<1> DEFINE f == FunctionOf(p, n)
<1>2. f \in Upwards(p, n) /\ f \in DOMAIN p /\ f \in S(n) /\ \A m \in S(n) : m <= f
  BY <1>1
<1>3. f = 1 \/ p[f].kind = "Function"
  BY <1>2
<1>4. Counted(p, f)
  BY <1>3, TreeFacts DEF Counted, Scopes
<1> HIDE DEF f
<1>5. ASSUME NEW m \in Upwards(p, n), p[m].kind = "Function" PROVE m <= f /\ m \in Upwards(p, f)
  <2>1. m <= f /\ m \in DOMAIN p
    BY <1>2, <1>5, UpwardsFacts
  <2>2. CASE f \in Upwards(p, m)
    <3>1. f <= m
      BY <2>1, <2>2, UpwardsFacts
    <3>2. m = f
      BY <1>2, <2>1, <3>1, TreeFacts
    <3> QED BY <2>1, <3>2, UpwardsFacts
  <2> QED BY <1>2, <2>1, <2>2, ChainFacts
<1>6. ASSUME NEW m \in Upwards(p, n), f \in Upwards(p, m) PROVE FunctionOf(p, m) = f
  <2>1. m \in DOMAIN p /\ Upwards(p, m) \subseteq Upwards(p, n)
    BY UpwardsFacts
  <2>2. FunctionOf(p, m) \in S(m) /\ \A k \in S(m) : k <= FunctionOf(p, m)
    BY <1>1, <2>1
  <2>3. f \in S(m)
    BY <1>3, <1>6
  <2>4. FunctionOf(p, m) \in S(n)
    BY <2>1, <2>2
  <2>5. f <= FunctionOf(p, m) /\ FunctionOf(p, m) <= f
    BY <1>2, <2>2, <2>3, <2>4
  <2>6. f \in Nat /\ FunctionOf(p, m) \in Nat
    BY <1>1, <1>2, <2>1, TreeFacts
  <2> QED BY <2>5, <2>6
<1> QED BY <1>2, <1>3, <1>4, <1>5, <1>6 DEF f

-----------------------------------------------------------------------------
(* The ranges of a dump.  They are the extents of counted nodes and the    *)
(* gaps between the end of a construct and the end of the arm around it.   *)
NodeRange(p, r, n) == Counted(p, n) /\ r.from = From(p, n) /\ r.to = To(p, n)
GapRange(p, r, c) ==
  Diverts(p, c) /\ r.from = To(p, c) /\ r.to = To(p, Around(p, c)) /\ r.from < r.to
InText(p, r) == \E n \in DOMAIN p : NodeRange(p, r, n) \/ GapRange(p, r, n)
Within(r, s) == s.from <= r.from /\ r.to <= s.to

LEMMA RangeCases ==
  ASSUME NEW p, Tree(p), NEW run, NEW f, NEW r
  PROVE  r \in AllRanges(p, run, f) <=>
           \/ \E n \in DOMAIN p : /\ FunctionOf(p, n) = f /\ Counted(p, n)
                                  /\ r = Range1(From(p, n), To(p, n), run.in[n])
           \/ \E n \in DOMAIN p : /\ p[n].kind = "Function" /\ p[n].slot \in ArmSlots
                                  /\ FunctionOf(p, p[n].up) = f
                                  /\ r = Range1(From(p, n), To(p, n), run.past[n])
           \/ \E c \in DOMAIN p : /\ FunctionOf(p, c) = f /\ GapRange(p, r, c)
                                  /\ r = Range1(To(p, c), To(p, Around(p, c)), run.past[c])
<1> DEFINE of(n, count) == Range1(From(p, n), To(p, n), count)
           gap(n) == Range1(To(p, n), To(p, Around(p, n)), run.past[n])
           mine == {n \in DOMAIN p : FunctionOf(p, n) = f}
           arms == {n \in Kinds(p, {"Function"}) : p[n].slot \in ArmSlots /\ FunctionOf(p, p[n].up) = f}
           A == {of(n, run.in[n]) : n \in {m \in mine : Counted(p, m)}}
           B == {of(n, run.past[n]) : n \in arms}
           C == {gap(n) : n \in {m \in mine : Diverts(p, m)}}
<1>1. AllRanges(p, run, f) = A \cup B \cup {t \in C : t.from < t.to}
  BY DEF AllRanges, Around, From, To
<1>2. r \in A <=> \E n \in DOMAIN p : /\ FunctionOf(p, n) = f /\ Counted(p, n)
                                       /\ r = of(n, run.in[n])
  <2> HIDE DEF of
  <2> QED OBVIOUS
<1>3. r \in B <=> \E n \in DOMAIN p : /\ p[n].kind = "Function" /\ p[n].slot \in ArmSlots
                                       /\ FunctionOf(p, p[n].up) = f
                                       /\ r = of(n, run.past[n])
  <2> HIDE DEF of
  <2> QED BY DEF Kinds
<1>4. r \in C <=> \E n \in DOMAIN p : FunctionOf(p, n) = f /\ Diverts(p, n) /\ r = gap(n)
  <2> HIDE DEF gap
  <2> QED OBVIOUS
<1>5. \A n : r = gap(n) => (r.from < r.to /\ Diverts(p, n) <=> GapRange(p, r, n))
  BY DEF GapRange, Range1
<1> HIDE DEF A, B, C, gap
<1>6. r \in {t \in C : t.from < t.to} <=>
        \E c \in DOMAIN p : FunctionOf(p, c) = f /\ GapRange(p, r, c) /\ r = gap(c)
  BY <1>4, <1>5
<1> QED BY <1>1, <1>2, <1>3, <1>6 DEF gap

LEMMA RangeTyped ==
  ASSUME NEW p, Tree(p), Grammar(p), Shape(p), NEW r, InText(p, r)
  PROVE  r.from \in Nat /\ r.to \in Nat /\ r.from < r.to
<1>1. PICK n \in DOMAIN p : NodeRange(p, r, n) \/ GapRange(p, r, n)
  BY DEF InText
<1>2. Around(p, n) \in DOMAIN p
  BY AroundFacts
<1> QED BY <1>1, <1>2, TextFacts DEF NodeRange, GapRange

(* In which nodes and gaps a node is.                                      *)
LEMMA GapHolds ==
  ASSUME NEW p, Tree(p), Grammar(p), Shape(p), NEW c \in DOMAIN p, NEW n \in DOMAIN p
  PROVE  To(p, c) <= From(p, n) /\ To(p, n) <= To(p, Around(p, c))
           <=> Around(p, c) \in Upwards(p, n) /\ Around(p, c) # n /\ LastIn(p, c) < n
<1> DEFINE a == Around(p, c)
<1>1. a \in Upwards(p, c) /\ a \in DOMAIN p
  BY AroundFacts
<1> HIDE DEF a
<1>2. /\ From(p, n) \in Nat /\ To(p, n) \in Nat /\ From(p, n) < To(p, n)
      /\ From(p, c) \in Nat /\ To(p, c) \in Nat /\ From(p, c) < To(p, c)
      /\ From(p, a) \in Nat /\ To(p, a) \in Nat
  BY <1>1, TextFacts
<1>3. a \in Upwards(p, n) /\ LastIn(p, c) < n => To(p, c) <= From(p, n) /\ To(p, n) <= To(p, a)
  <2>1. a \in Upwards(p, n) => To(p, n) <= To(p, a)
    BY TextFacts DEF Holds
  <2>2. LastIn(p, c) < n => To(p, c) < From(p, n)
    BY TextFacts
  <2> QED BY <1>2, <2>1, <2>2
<1>4. ASSUME To(p, c) <= From(p, n), To(p, n) <= To(p, a)
      PROVE  a \in Upwards(p, n) /\ a # n /\ LastIn(p, c) < n
  <2>1. c \notin Upwards(p, n)
    <3>1. c \in Upwards(p, n) => To(p, n) <= To(p, c)
      BY TextFacts DEF Holds
    <3> QED BY <1>2, <1>4, <3>1
  <2>2. n \notin Upwards(p, c)
    <3>1. n \in Upwards(p, c) => From(p, n) <= From(p, c)
      BY TextFacts DEF Holds
    <3> QED BY <1>2, <1>4, <3>1
  <2>3. ~(LastIn(p, n) < c)
    <3>1. LastIn(p, n) < c => To(p, n) < From(p, c)
      BY TextFacts
    <3> QED BY <1>2, <1>4, <3>1
  <2>4. LastIn(p, c) < n
    BY <2>1, <2>2, <2>3, BehindFacts
  <2>5. a # n
    BY <1>1, <2>2
  <2>6. n \notin Upwards(p, a)
    BY <1>1, <2>2, UpwardsFacts
  <2>7. ~(LastIn(p, a) < n)
    <3>1. LastIn(p, a) < n => To(p, a) < From(p, n)
      BY <1>1, TextFacts
    <3> QED BY <1>2, <1>4, <3>1
  <2>8. ~(LastIn(p, n) < a)
    <3>1. a <= c /\ c <= LastIn(p, c) /\ n <= LastIn(p, n)
      BY <1>1, UpwardsFacts, InnerFacts
    <3>2. a \in Nat /\ c \in Nat /\ n \in Nat /\ LastIn(p, c) \in Nat /\ LastIn(p, n) \in Nat
      BY <1>1, InnerFacts, TreeFacts
    <3> QED BY <2>4, <3>1, <3>2
  <2>9. a \in Upwards(p, n)
    BY <1>1, <2>6, <2>7, <2>8, BehindFacts
  <2> QED BY <2>4, <2>5, <2>9
<1> QED BY <1>3, <1>4 DEF a

(* Ranges that overlap are one in the other.                               *)
LEMMA NodeAndGap ==
  ASSUME NEW p, Tree(p), Grammar(p), Shape(p), NEW q \in DOMAIN p, Counted(p, q), NEW c \in DOMAIN p
  PROVE  LET a == Around(p, c) IN
         \/ From(p, q) <= To(p, c) /\ To(p, a) <= To(p, q)
         \/ To(p, c) <= From(p, q) /\ To(p, q) <= To(p, a)
         \/ To(p, q) <= To(p, c)
         \/ To(p, a) <= From(p, q)
<1> DEFINE a == Around(p, c)
<1>1. a \in Upwards(p, c) /\ a \in DOMAIN p /\ (q \in Upwards(p, c) => q \in Upwards(p, a))
  BY AroundFacts
<1> HIDE DEF a
<1>2. /\ From(p, q) \in Nat /\ To(p, q) \in Nat /\ From(p, q) < To(p, q)
      /\ From(p, c) \in Nat /\ To(p, c) \in Nat /\ From(p, c) < To(p, c)
      /\ From(p, a) \in Nat /\ To(p, a) \in Nat /\ From(p, a) <= From(p, c)
  BY <1>1, TextFacts DEF Holds
<1>3. CASE q \in Upwards(p, a)
  <2>1. From(p, q) <= From(p, a) /\ To(p, a) <= To(p, q)
    BY <1>1, <1>3, TextFacts DEF Holds
  <2> QED BY <1>2, <2>1 DEF a
<1>4. CASE c \in Upwards(p, q)
  <2>1. To(p, q) <= To(p, c)
    BY <1>4, TextFacts DEF Holds
  <2> QED BY <2>1
<1>5. CASE LastIn(p, q) < c
  <2>1. To(p, q) < From(p, c)
    BY <1>5, TextFacts
  <2> QED BY <1>2, <2>1
<1>6. CASE LastIn(p, c) < q /\ a \in Upwards(p, q)
  <2>1. To(p, c) < From(p, q) /\ To(p, q) <= To(p, a)
    BY <1>6, TextFacts DEF Holds
  <2> QED BY <1>2, <2>1 DEF a
<1>7. CASE LastIn(p, a) < q
  <2>1. To(p, a) < From(p, q)
    BY <1>1, <1>7, TextFacts
  <2> QED BY <1>2, <2>1 DEF a
<1>8. CASE LastIn(p, q) < a
  <2>1. To(p, q) < From(p, a)
    BY <1>1, <1>8, TextFacts
  <2> QED BY <1>2, <2>1
<1>9. q \in Upwards(p, a) \/ a \in Upwards(p, q) \/ LastIn(p, q) < a \/ LastIn(p, a) < q
  BY <1>1, BehindFacts
<1>10. q \in Upwards(p, c) \/ c \in Upwards(p, q) \/ LastIn(p, q) < c \/ LastIn(p, c) < q
  BY BehindFacts
<1> QED BY <1>1, <1>3, <1>4, <1>5, <1>6, <1>7, <1>8, <1>9, <1>10

LEMMA Laminar ==
  ASSUME NEW p, Tree(p), Grammar(p), Shape(p), NEW r, NEW s, InText(p, r), InText(p, s),
         r.from < s.to, s.from < r.to
  PROVE  Within(r, s) \/ Within(s, r)
<1>1. PICK n \in DOMAIN p : NodeRange(p, r, n) \/ GapRange(p, r, n)
  BY DEF InText
<1>2. PICK m \in DOMAIN p : NodeRange(p, s, m) \/ GapRange(p, s, m)
  BY DEF InText
<1> DEFINE a == Around(p, n)
           b == Around(p, m)
<1>3. a \in DOMAIN p /\ b \in DOMAIN p /\ Counted(p, a) /\ Counted(p, b) /\ a \in Upwards(p, n) /\ b \in Upwards(p, m)
  BY AroundFacts
<1>4. \A k \in {n, m, a, b} : From(p, k) \in Nat /\ To(p, k) \in Nat /\ From(p, k) < To(p, k)
  BY <1>3, TextFacts
<1>5. ASSUME NEW k \in {n, a}, NEW l \in {m, b}
      PROVE  \/ From(p, k) <= From(p, l) /\ To(p, l) <= To(p, k)
             \/ From(p, l) <= From(p, k) /\ To(p, k) <= To(p, l)
             \/ To(p, k) < From(p, l)
             \/ To(p, l) < From(p, k)
  <2>1. k \in DOMAIN p /\ l \in DOMAIN p
    BY <1>3
  <2> QED BY <2>1, BehindFacts, TextFacts DEF Holds
<1>6. CASE NodeRange(p, r, n) /\ NodeRange(p, s, m)
  BY <1>4, <1>5, <1>6 DEF NodeRange, Within
<1>7. CASE NodeRange(p, r, n) /\ GapRange(p, s, m)
  <2>1. \/ From(p, n) <= To(p, m) /\ To(p, b) <= To(p, n)
        \/ To(p, m) <= From(p, n) /\ To(p, n) <= To(p, b)
        \/ To(p, n) <= To(p, m)
        \/ To(p, b) <= From(p, n)
    BY <1>7, NodeAndGap DEF NodeRange
  <2> QED BY <1>4, <1>7, <2>1 DEF NodeRange, GapRange, Within
<1>8. CASE GapRange(p, r, n) /\ NodeRange(p, s, m)
  <2>1. \/ From(p, m) <= To(p, n) /\ To(p, a) <= To(p, m)
        \/ To(p, n) <= From(p, m) /\ To(p, m) <= To(p, a)
        \/ To(p, m) <= To(p, n)
        \/ To(p, a) <= From(p, m)
    BY <1>8, NodeAndGap DEF NodeRange
  <2> QED BY <1>4, <1>8, <2>1 DEF NodeRange, GapRange, Within
<1>9. CASE GapRange(p, r, n) /\ GapRange(p, s, m)
  <2>1. \/ From(p, b) <= To(p, n) /\ To(p, a) <= To(p, b)
        \/ To(p, n) <= From(p, b) /\ To(p, b) <= To(p, a)
        \/ To(p, b) <= To(p, n)
        \/ To(p, a) <= From(p, b)
    BY <1>3, NodeAndGap
  <2>2. \/ From(p, a) <= To(p, m) /\ To(p, b) <= To(p, a)
        \/ To(p, m) <= From(p, a) /\ To(p, a) <= To(p, b)
        \/ To(p, a) <= To(p, m)
        \/ To(p, b) <= From(p, a)
    BY <1>3, NodeAndGap
  <2>3. From(p, a) <= From(p, n) /\ From(p, b) <= From(p, m)
    BY <1>3, TextFacts DEF Holds
  <2> HIDE DEF a, b
  <2>4. r.from = To(p, n) /\ r.to = To(p, a) /\ s.from = To(p, m) /\ s.to = To(p, b)
    BY <1>9 DEF GapRange, a, b
  <2> QED BY <1>4, <2>1, <2>2, <2>3, <2>4 DEF Within
<1> QED BY <1>1, <1>2, <1>6, <1>7, <1>8, <1>9

(* Two ranges of a function have different extents.                        *)
LEMMA RangesDiffer ==
  ASSUME NEW p, Tree(p), Grammar(p), Shape(p), NEW run, NEW f,
         NEW r \in AllRanges(p, run, f), NEW s \in AllRanges(p, run, f), r.from = s.from, r.to = s.to
  PROVE  r = s
<1> DEFINE Mine(t, n) == /\ FunctionOf(p, n) = f /\ Counted(p, n)
                         /\ t = Range1(From(p, n), To(p, n), run.in[n])
           Arms(t, n) == /\ p[n].kind = "Function" /\ p[n].slot \in ArmSlots
                         /\ FunctionOf(p, p[n].up) = f
                         /\ t = Range1(From(p, n), To(p, n), run.past[n])
           Gaps(t, c) == /\ FunctionOf(p, c) = f /\ GapRange(p, t, c)
                         /\ t = Range1(To(p, c), To(p, Around(p, c)), run.past[c])
<1>1. PICK n \in DOMAIN p : Mine(r, n) \/ Arms(r, n) \/ Gaps(r, n)
  BY RangeCases
<1>2. PICK m \in DOMAIN p : Mine(s, m) \/ Arms(s, m) \/ Gaps(s, m)
  BY RangeCases
<1>3. ASSUME Mine(r, n) \/ Arms(r, n), Mine(s, m) \/ Arms(s, m) PROVE r = s
  <2>1. n = m
    BY <1>3, HoldsFacts DEF Range1
  <2>2. ~(Mine(r, n) /\ Arms(s, n)) /\ ~(Arms(r, n) /\ Mine(s, n))
    <3> SUFFICES ASSUME FunctionOf(p, n) = f, p[n].kind = "Function", FunctionOf(p, p[n].up) = f PROVE FALSE
      OBVIOUS
    <3>1. n # 1 /\ p[n].up \in DOMAIN p /\ n \in Nat /\ p[n].up \in Nat /\ p[n].up < n /\ f \in Nat
      BY TreeFacts, FunctionFacts
    <3>2. n <= f
      BY UpwardsFacts, FunctionFacts
    <3>3. f <= p[n].up
      BY <3>1, FunctionFacts, UpwardsFacts
    <3> QED BY <3>1, <3>2, <3>3
  <2>3. (Mine(r, n) /\ Mine(s, n) => r = s) /\ (Arms(r, n) /\ Arms(s, n) => r = s)
    OBVIOUS
  <2> HIDE DEF Mine, Arms
  <2>4. Mine(s, n) \/ Arms(s, n)
    BY <1>3, <2>1
  <2> QED BY <1>3, <2>2, <2>3, <2>4
<1>4. ~((Mine(r, n) \/ Arms(r, n)) /\ Gaps(s, m)) /\ ~(Gaps(r, n) /\ (Mine(s, m) \/ Arms(s, m)))
  <2>1. \A t, k : Mine(t, k) \/ Arms(t, k) => t.from = From(p, k)
    BY DEF Range1
  <2>2. \A t, k : Gaps(t, k) => t.from = To(p, k)
    BY DEF Range1
  <2>3. From(p, n) # To(p, m) /\ From(p, m) # To(p, n)
    BY TextFacts
  <2> HIDE DEF Mine, Arms, Gaps
  <2> QED BY <2>1, <2>2, <2>3
<1>5. ASSUME Gaps(r, n), Gaps(s, m) PROVE r = s
  <2>1. To(p, n) = To(p, m) /\ Diverts(p, n) /\ Diverts(p, m)
    BY <1>5 DEF Range1, GapRange
  <2>2. ASSUME NEW c \in DOMAIN p, NEW x \in DOMAIN p, c \in Upwards(p, x), c # x, To(p, x) = To(p, c),
               Diverts(p, c), Diverts(p, x), To(p, x) < To(p, Around(p, x))
        PROVE  FALSE
    <3>1. PICK q \in Upwards(p, x) : Counted(p, q) /\ c \in Upwards(p, q)
      BY <2>2, DivertsEnd
    <3>2. q \in Upwards(p, Around(p, x)) /\ Around(p, x) \in DOMAIN p /\ q \in DOMAIN p
      BY <3>1, AroundFacts, UpwardsFacts
    <3>3. To(p, Around(p, x)) <= To(p, q) /\ To(p, q) <= To(p, c)
      BY <3>1, <3>2, TextFacts DEF Holds
    <3>4. To(p, Around(p, x)) \in Nat /\ To(p, q) \in Nat /\ To(p, c) \in Nat
      BY <2>2, <3>2, TextFacts
    <3> QED BY <2>2, <3>3, <3>4
  <2>3. ~(LastIn(p, n) < m) /\ ~(LastIn(p, m) < n)
    <3>1. /\ From(p, n) \in Nat /\ To(p, n) \in Nat /\ From(p, n) < To(p, n)
          /\ From(p, m) \in Nat /\ To(p, m) \in Nat /\ From(p, m) < To(p, m)
      BY TextFacts
    <3>2. (LastIn(p, n) < m => To(p, n) < From(p, m)) /\ (LastIn(p, m) < n => To(p, m) < From(p, n))
      BY TextFacts
    <3> QED BY <2>1, <3>1, <3>2
  <2>4. n = m
    <3>1. n \in Upwards(p, m) \/ m \in Upwards(p, n)
      BY <2>3, BehindFacts
    <3>2. To(p, n) < To(p, Around(p, n)) /\ To(p, m) < To(p, Around(p, m))
      BY <1>5 DEF GapRange
    <3> QED BY <2>1, <2>2, <3>1, <3>2
  <2> QED BY <1>5, <2>4
<1> HIDE DEF Mine, Arms, Gaps
<1> QED BY <1>1, <1>2, <1>3, <1>4, <1>5

-----------------------------------------------------------------------------
(* Where control comes from.  A first part is entered from above, the next *)
(* statement of a list when the one before it has ended normally.          *)
Firsts == {"list", "test", "left", "block", "expr"}
First(p, n) == n = p[n].up + 1 /\ p[n].slot \in Firsts /\ p[p[n].up].kind # "Switch"
Later == {"consequent", "body", "right", "alternate", "handler", "finalizer"}

LEMMA FirstPlace ==
  ASSUME NEW p, Tree(p), Grammar(p), Shape(p), NEW n \in DOMAIN p, n # 1
  PROVE  /\ p[n].slot \in {"test", "left", "block", "expr"} => n = p[n].up + 1
         /\ p[n].slot = "list" /\ Prev(p, n) = {} => n = p[n].up + 1
<1> DEFINE u == p[n].up
<1>1. u \in DOMAIN p /\ n \in Below(p, u) /\ u \in Nat /\ n \in Nat /\ u < n
  BY TreeFacts DEF Below
<1>2. u \in Upwards(p, n)
  BY <1>1, PartFacts, UpwardsFacts
<1>3. u + 1 \in DOMAIN p /\ u \in Upwards(p, u + 1)
  <2>1. u + 1 \in DOMAIN p
    BY <1>1, TreeFacts
  <2> QED BY <1>1, <1>2, <2>1, BehindFacts, InnerFacts
<1>4. PICK c \in Below(p, u) : c \in Upwards(p, u + 1)
  BY <1>1, <1>3, PartAbove
<1>5. c = u + 1 /\ c \in DOMAIN p /\ c # 1 /\ p[c].up = u
  <2>1. c \in DOMAIN p /\ c # 1 /\ p[c].up = u /\ c \in Nat /\ u < c /\ c <= u + 1
    BY <1>1, <1>3, <1>4, PartFacts, UpwardsFacts, TreeFacts
  <2> QED BY <1>1, <2>1
<1>6. ASSUME c # n PROVE c \in Prev(p, n) /\ (Place(p[c].slot) < Place(p[n].slot) \/ Place(p[c].slot) = 0)
  <2>1. c < n /\ c \in 2..Len(p)
    BY <1>1, <1>5, <1>6, TreeFacts
  <2>2. c \in Prev(p, n) /\ n \in Next1(p, c)
    BY <1>1, <1>4, <1>5, <2>1 DEF Prev, Next1
  <2> QED BY <2>1, <2>2 DEF Shape
<1>7. p[c].slot \in Slots(p[u].kind) /\ p[n].slot \in Slots(p[u].kind)
  <2>1. c \in 2..Len(p) /\ n \in 2..Len(p)
    BY <1>5, TreeFacts
  <2> QED BY <1>5, <2>1 DEF Shape
<1>8. ASSUME p[n].slot \in {"test", "left", "block", "expr"} PROVE c = n
  <2>1. p[c].slot \notin {"list", "param"}
    BY <1>7, <1>8 DEF Slots, Lists
  <2>2. Place(p[n].slot) = 1
    BY <1>8 DEF Place
  <2>3. p[c].slot \in {"list", "test", "consequent", "alternate", "left", "right", "body", "block", "handler", "finalizer", "param", "expr"}
    BY <1>7 DEF Slots
  <2>4. Place(p[c].slot) \in {1, 2, 3}
    BY <2>1, <2>3 DEF Place
  <2> QED BY <1>6, <2>2, <2>4
<1> QED BY <1>5, <1>6, <1>8

LEMMA EntersFirst ==
  ASSUME NEW p, Tree(p), Grammar(p), Shape(p), NEW n \in DOMAIN p, n # 1, First(p, n)
  PROVE  Enters(p, p[n].up) = {Go(In(n))}
<1> DEFINE u == p[n].up
           first == At(p, u, {"list", "test", "left", "block", "expr"})
<1>1. u \in DOMAIN p /\ n \in Below(p, u) /\ n \in 2..Len(p) /\ u \in Nat
  BY TreeFacts DEF Below
<1>2. n \in first /\ first \in SUBSET Below(p, u)
  BY <1>1 DEF At, First, Firsts
<1>3. Min(first) = n
  <2>1. Min(first) \in first /\ \A m \in first : Min(first) <= m
    <3>1. first \in SUBSET DOMAIN p
      BY DEF At, Below
    <3> HIDE DEF first
    <3> QED BY <1>2, <3>1, SomeNodes, MinFacts
  <2>2. Min(first) <= n /\ u < Min(first) /\ Min(first) \in Nat
    <3>1. Min(first) \in Below(p, u)
      BY <1>2, <2>1
    <3> QED BY <1>1, <1>2, <2>1, <3>1, PartFacts, TreeFacts
  <2> QED BY <1>1, <2>2 DEF First
<1>4. p[n].slot \in Slots(p[u].kind)
  BY <1>1 DEF Shape
<1>5. p[u].kind \notin {"Return", "Throw", "Break", "Switch", "Function", "Catch"}
  BY <1>4 DEF First, Firsts, Slots, Lists, Loops
<1>6. first # {}
  BY <1>2
<1> HIDE DEF first
<1> QED BY <1>3, <1>5, <1>6 DEF Enters, first

(* Where a step out of a node leads.                                       *)
Onto(p, u, s, slots) == \E m \in At(p, u, slots) : s.to = In(m)
Arms == {"consequent", "body", "right", "alternate"}

LEMMA BranchTo ==
  ASSUME NEW p, NEW u, NEW s \in Branch(p, u)
  PROVE  Onto(p, u, s, Arms) \/ s.to = Out(u, "normal")
<1>1. \/ \E m \in At(p, u, {"consequent", "body", "right"}) : s = Decide(In(m), u, "yes")
      \/ s = Decide(Out(u, "normal"), u, "no")
      \/ \E m \in At(p, u, {"alternate"}) : s = Decide(In(m), u, "no")
  BY DEF Branch
<1>2. \A t, m, v : Decide(t, m, v).to = t
  BY DEF Decide
<1>3. \A m : m \in At(p, u, {"consequent", "body", "right"}) \cup At(p, u, {"alternate"}) => m \in At(p, u, Arms)
  BY DEF At, Arms
<1>4. CASE \E m \in At(p, u, {"consequent", "body", "right"}) : s = Decide(In(m), u, "yes")
  BY <1>2, <1>3, <1>4 DEF Onto
<1>5. CASE \E m \in At(p, u, {"alternate"}) : s = Decide(In(m), u, "no")
  BY <1>2, <1>3, <1>5 DEF Onto
<1>6. CASE s = Decide(Out(u, "normal"), u, "no")
  BY <1>2, <1>6
<1> QED BY <1>1, <1>4, <1>5, <1>6

Handing(p, u, s) ==
  \E m \in At(p, u, Later) :
    /\ s.to = In(m) /\ p[u].kind # "Function"
    /\ p[m].slot = "finalizer" => s.test = u /\ s.outcome # "in"

LeavesTo(p, k, how, s) ==
  LET u == p[k].up kind == p[u].kind IN
  /\ kind \in Lists =>
       IF how = "normal" /\ Next1(p, k) # {} THEN s.to = In(Min(Next1(p, k))) ELSE s.to = Out(u, how)
  /\ kind = "Switch" =>
       \/ s.to = Out(u, "normal") \/ s.to = Out(u, how)
       \/ how = "normal" /\ Next1(p, k) # {} /\ s.to = In(Min(Next1(p, k)))
  /\ kind \notin Lists \cup {"Switch"} =>
       \/ Handing(p, u, s)
       \/ kind \in Loops /\ Onto(p, u, s, {"test"})
       \/ s.to = Out(u, how) \/ s.to = Out(u, "normal")
       \/ kind = "Try" /\ \E h : h # "in" /\ s.to = Out(u, h)

LEMMA LeavesCases ==
  ASSUME NEW p, Tree(p), Grammar(p), Shape(p), NEW k \in DOMAIN p, k # 1, NEW how, how # "in",
         NEW ended, p[k].slot = "finalizer" => ended # "in",
         NEW s \in Leaves(p, k, how, ended)
  PROVE  LeavesTo(p, k, how, s)
<1> DEFINE u == p[k].up
           kind == p[u].kind
           slot == p[k].slot
           Fine == \/ Handing(p, u, s)
                   \/ kind \in Loops /\ Onto(p, u, s, {"test"})
                   \/ s.to = Out(u, how) \/ s.to = Out(u, "normal")
                   \/ kind = "Try" /\ \E h : h # "in" /\ s.to = Out(u, h)
<1>1. k \in 2..Len(p) /\ u \in DOMAIN p /\ k \in Below(p, u)
  BY TreeFacts DEF Below
<1>2. \A t : Go(t).to = t /\ \A m, v : Decide(t, m, v).to = t /\ Decide(t, m, v).test = m /\ Decide(t, m, v).outcome = v
  BY DEF Go, Decide
<1>3. slot \in Slots(kind) /\ (slot \in {"block", "handler", "finalizer"} <=> kind = "Try")
  BY <1>1 DEF Shape, Grammar
<1>4. kind \in Lists =>
        IF how = "normal" /\ Next1(p, k) # {} THEN s.to = In(Min(Next1(p, k))) ELSE s.to = Out(u, how)
  <2> SUFFICES ASSUME kind \in Lists
               PROVE  s = IF how = "normal" /\ Next1(p, k) # {} THEN Go(In(Min(Next1(p, k)))) ELSE Go(Out(u, how))
    BY <1>2
  <2>1. kind # "Switch" /\ kind # "Try" /\ kind \notin Loops
    BY DEF Lists, Loops
  <2>2. slot \notin {"test", "left"}
    BY <1>3 DEF Slots, Lists
  <2> QED BY <2>1, <2>2 DEF Leaves
<1>5. kind = "Switch" =>
        \/ s.to = Out(u, "normal") \/ s.to = Out(u, how)
        \/ how = "normal" /\ Next1(p, k) # {} /\ s.to = In(Min(Next1(p, k)))
  <2> SUFFICES ASSUME kind = "Switch"
               PROVE  \/ s = Go(Out(u, "normal")) \/ s = Go(Out(u, how))
                      \/ how = "normal" /\ Next1(p, k) # {} /\ s = Go(In(Min(Next1(p, k))))
    BY <1>2
  <2>1. slot \notin {"test", "left"} /\ kind \notin Loops /\ kind # "Try" /\ kind \notin Lists
    BY <1>3 DEF Slots, Lists, Loops
  <2> QED BY <2>1 DEF Leaves
<1>6. ASSUME kind \notin Lists \cup {"Switch"} PROVE Fine
  <2>1. ASSUME s \in Branch(p, u), kind # "Function" PROVE Fine
    <3>1. Onto(p, u, s, Arms) \/ s.to = Out(u, "normal")
      BY <2>1, BranchTo
    <3>2. ASSUME Onto(p, u, s, Arms) PROVE Handing(p, u, s)
      <4>1. PICK m \in At(p, u, Arms) : s.to = In(m)
        BY <3>2 DEF Onto
      <4>2. m \in At(p, u, Later) /\ p[m].slot # "finalizer"
        BY <4>1 DEF At, Arms, Later
      <4> QED BY <2>1, <4>1, <4>2 DEF Handing
    <3> QED BY <3>1, <3>2
  <2>2. CASE slot \in {"test", "left"}
    <3>1. s \in Branch(p, u)
      BY <1>3, <1>6, <2>2 DEF Leaves, Loops
    <3>2. kind # "Function"
      BY <1>3, <2>2 DEF Slots, Lists, Loops
    <3> QED BY <2>1, <3>1, <3>2
  <2>3. CASE kind \in Loops /\ slot = "body"
    <3>1. kind # "Function"
      BY <2>3 DEF Loops
    <3>2. s \in Again(p, u) \/ s = Go(Out(u, "normal")) \/ s = Go(Out(u, how))
      BY <1>3, <1>6, <2>3 DEF Leaves, Loops
    <3>3. ASSUME s \in Again(p, u) PROVE Fine
      <4>1. CASE At(p, u, {"test"}) = {}
        BY <2>1, <3>1, <3>3, <4>1 DEF Again
      <4>2. CASE At(p, u, {"test"}) # {}
        <5>1. s = Go(In(Min(At(p, u, {"test"}))))
          BY <3>3, <4>2 DEF Again
        <5>2. Min(At(p, u, {"test"})) \in At(p, u, {"test"})
          <6>1. At(p, u, {"test"}) \in SUBSET Below(p, u)
            BY DEF At
          <6> QED BY <1>1, <4>2, <6>1, FirstFacts
        <5> QED BY <1>2, <2>3, <5>1, <5>2 DEF Onto
      <4> QED BY <4>1, <4>2
    <3> QED BY <1>2, <3>2, <3>3
  <2>4. CASE kind = "Try"
    <3>1. slot \notin {"test", "left"} /\ kind \notin Loops /\ kind # "Function"
      BY <1>3, <2>4 DEF Loops
    <3>2. \/ At(p, u, {"handler"}) # {} /\ s = Go(In(Only(At(p, u, {"handler"}))))
          \/ (slot = "finalizer" /\ s = Go(Out(u, ended)))
          \/ s = Go(Out(u, how)) \/ s \in Finally(p, u, how)
      BY <1>3, <1>6, <2>4, <3>1 DEF Leaves, Loops
    <3>3. ASSUME At(p, u, {"handler"}) # {}, s = Go(In(Only(At(p, u, {"handler"})))) PROVE Handing(p, u, s)
      <4>1. Only(At(p, u, {"handler"})) \in At(p, u, {"handler"})
        BY <3>3 DEF Only
      <4>2. Only(At(p, u, {"handler"})) \in At(p, u, Later) /\ p[Only(At(p, u, {"handler"}))].slot # "finalizer"
        BY <4>1 DEF At, Later
      <4> QED BY <1>2, <3>1, <3>3, <4>2 DEF Handing
    <3>4. ASSUME slot = "finalizer", s = Go(Out(u, ended)) PROVE Fine
      BY <1>2, <2>4, <3>4
    <3>5. ASSUME s \in Finally(p, u, how) PROVE Fine
      <4> DEFINE F == At(p, u, {"finalizer"})
      <4>1. CASE F = {}
        <5>1. s = Go(Out(u, how))
          BY <3>5, <4>1 DEF Finally
        <5> QED BY <1>2, <5>1
      <4>2. CASE F # {}
        <5>1. s = Decide(In(Only(F)), u, how) /\ Only(F) \in F
          BY <3>5, <4>2 DEF Finally, Only
        <5>2. Only(F) \in At(p, u, Later)
          BY <5>1 DEF At, Later
        <5> QED BY <1>2, <3>1, <5>1, <5>2 DEF Handing
      <4> QED BY <4>1, <4>2
    <3> QED BY <1>2, <3>2, <3>3, <3>4, <3>5
  <2>5. CASE kind # "Try" /\ slot \notin {"test", "left"} /\ ~(kind \in Loops /\ slot = "body")
    <3>1. s = Go(Out(u, how))
      BY <1>3, <1>6, <2>5 DEF Leaves, Loops
    <3> QED BY <1>2, <3>1
  <2> QED BY <2>2, <2>3, <2>4, <2>5
<1> QED BY <1>4, <1>5, <1>6 DEF LeavesTo

(* Where a step into a node leads.                                         *)
LEMMA EntersCases ==
  ASSUME NEW p, Tree(p), Grammar(p), Shape(p), NEW k \in DOMAIN p, NEW s \in Enters(p, k)
  PROVE  \/ /\ p[k].kind # "Function"
            /\ \E m \in Below(p, k) : s.to = In(m) /\ p[m].slot # "finalizer"
         \/ s.to = Out(k, "normal") /\ (p[k].kind = "Block" => Below(p, k) = {})
         \/ p[k].kind \in {"Return", "Throw", "Break"} /\ \E h : h # "in" /\ s.to = Out(k, h)
<1> DEFINE kind == p[k].kind
           first == At(p, k, {"list", "test", "left", "block", "expr"})
           Enter == \E m \in Below(p, k) : s.to = In(m) /\ p[m].slot # "finalizer"
           Fine == \/ kind # "Function" /\ Enter
                   \/ s.to = Out(k, "normal") /\ (kind = "Block" => Below(p, k) = {})
                   \/ kind \in {"Return", "Throw", "Break"} /\ \E h : h # "in" /\ s.to = Out(k, h)
<1>1. \A t : Go(t).to = t /\ \A m, v : Decide(t, m, v).to = t
  BY DEF Go, Decide
<1>2. ASSUME first # {} PROVE Min(first) \in Below(p, k) /\ p[Min(first)].slot # "finalizer"
  <2>1. first \in SUBSET Below(p, k)
    BY DEF At
  <2>2. Min(first) \in first
    <3> HIDE DEF first
    <3> QED BY <1>2, <2>1, FirstFacts
  <2> QED BY <2>2 DEF At
<1> HIDE DEF first
<1>3. CASE kind \in {"Return", "Throw", "Break"}
  <2>1. \/ s = Go(Out(k, "return")) \/ s = Go(Out(k, "throw")) \/ s = Go(Out(k, "break"))
    BY <1>3 DEF Enters, Loops
  <2> QED BY <1>1, <1>3, <2>1
<1>4. CASE kind = "Switch"
  <2>1. \/ \E m \in Below(p, k) : s = Decide(In(m), k, m)
        \/ s = Decide(Out(k, "normal"), k, k)
    <3>1. s \in Select(p, k)
      BY <1>4 DEF Enters, Loops
    <3> QED BY <3>1 DEF Select
  <2>2. ASSUME NEW m \in Below(p, k) PROVE p[m].slot # "finalizer"
    <3>1. m \in 2..Len(p) /\ p[m].up = k
      BY TreeFacts, PartFacts
    <3> QED BY <1>4, <3>1 DEF Grammar
  <2> QED BY <1>1, <1>4, <2>1, <2>2
<1>5. CASE kind = "Function"
  <2>1. s = Go(Out(k, "normal"))
    BY <1>5 DEF Enters, Loops
  <2> QED BY <1>1, <1>5, <2>1
<1>6. CASE kind = "Catch"
  <2>1. s = Go(In(Only(Below(p, k))))
    BY <1>6 DEF Enters, Loops
  <2>2. Below(p, k) # {}
    <3>1. At(p, k, {"body"}) # {}
      BY <1>6 DEF Grammar
    <3> QED BY <3>1 DEF At
  <2>3. Only(Below(p, k)) \in Below(p, k)
    BY <2>2 DEF Only
  <2>4. Only(Below(p, k)) \in 2..Len(p) /\ p[Only(Below(p, k))].up = k
    BY <2>3, TreeFacts, PartFacts
  <2>5. p[Only(Below(p, k))].slot # "finalizer"
    BY <1>6, <2>4 DEF Grammar
  <2> QED BY <1>1, <1>6, <2>1, <2>3, <2>5
<1>7. ASSUME s \in Branch(p, k), kind # "Function", kind # "Block" PROVE Fine
  <2>1. Onto(p, k, s, Arms) \/ s.to = Out(k, "normal")
    BY <1>7, BranchTo
  <2>2. ASSUME Onto(p, k, s, Arms) PROVE Enter
    BY <2>2 DEF Onto, At, Arms
  <2> QED BY <1>7, <2>1, <2>2
<1>8. CASE kind \in {"If", "Conditional"} \cup Loops
  <2>1. IF first = {} THEN s \in Branch(p, k) ELSE s = Go(In(Min(first)))
    BY <1>8 DEF Enters, Loops, first
  <2>2. kind # "Function" /\ kind # "Block"
    BY <1>8 DEF Loops
  <2> QED BY <1>1, <1>2, <1>7, <2>1, <2>2
<1>9. CASE kind \notin {"Return", "Throw", "Break", "Switch", "Function", "Catch", "If", "Conditional"} \cup Loops
  <2>1. IF first = {} THEN s = Go(Out(k, "normal")) ELSE s = Go(In(Min(first)))
    BY <1>9 DEF Enters, first
  <2>2. ASSUME kind = "Block", first = {} PROVE Below(p, k) = {}
    <3> SUFFICES ASSUME NEW m \in Below(p, k) PROVE FALSE
      OBVIOUS
    <3>1. m \in 2..Len(p) /\ p[m].up = k
      BY TreeFacts, PartFacts
    <3>2. p[m].slot = "list"
      BY <2>2, <3>1 DEF Grammar, Lists
    <3> QED BY <2>2, <3>2 DEF first, At
  <2> QED BY <1>1, <1>2, <1>9, <2>1, <2>2
<1> QED BY <1>3, <1>4, <1>5, <1>6, <1>8, <1>9

-----------------------------------------------------------------------------
(* Control ends otherwise than normally at constructs that may do so only, *)
(* and enters no function that it did not call.  A try that runs its       *)
(* finalizer has ended somehow before.                                     *)
Calm(p, n) ==
  /\ p[n].kind \notin {"Function", "Catch", "Case", "Default", "Program"} /\ ~Diverts(p, n)
  /\ p[n].kind = "Block" => Below(p, n) = {}
Control ==
  InCall =>
    /\ at.how \notin {"in", "normal"} =>
         ~Calm(file, at.node) /\ (file[at.node].kind = "Function" => at.node = frame)
    /\ \A f \in Upwards(file, at.node) : file[f].kind = "Function" /\ frame < f => f = at.node
    /\ \A n \in Upwards(file, at.node) :
         frame < n /\ file[n].slot = "finalizer" => Only(outcome[file[n].up]) # "in"
    /\ at = In(frame) => frame = 1

Stepping(s) == file \in Files /\ CallInv /\ Control /\ InCall /\ ~Ended /\ s \in Moves

LEMMA StepWay ==
  ASSUME NEW s, Stepping(s)
  PROVE  LET k == at.node u == file[k].up IN
         /\ Tree(file) /\ Grammar(file) /\ Shape(file)
         /\ k \in DOMAIN file /\ frame \in Upwards(file, k) /\ frame \in DOMAIN file /\ k \in Nat /\ frame \in Nat
         /\ at.how = "in" => at = In(k) /\ s \in Enters(file, k)
         /\ at.how # "in" =>
              /\ at = Out(k, at.how) /\ k # frame /\ k # 1 /\ frame < k
              /\ u \in DOMAIN file /\ u \in Nat /\ u < k /\ frame \in Upwards(file, u) /\ k \in Below(file, u)
              /\ file[u].kind = "Function" => u = frame
              /\ s \in Leaves(file, k, at.how, Only(outcome[u]))
              /\ file[k].slot = "finalizer" => Only(outcome[u]) # "in"
<1> DEFINE k == at.node
           u == file[k].up
<1>1. Tree(file) /\ Grammar(file) /\ Shape(file)
  BY CoverageAssumption DEF CoverageAssumption, Stepping
<1>2. /\ k \in DOMAIN file /\ frame \in Upwards(file, k) /\ at = Out(k, at.how)
      /\ frame \in DOMAIN file /\ k \in Nat /\ frame \in Nat /\ frame <= k
  <2>1. k \in DOMAIN file /\ frame \in Upwards(file, k) /\ at = Out(k, at.how)
    BY DEF Stepping, CallInv
  <2>2. frame \in DOMAIN file /\ frame <= k
    BY <1>1, <2>1, UpwardsFacts
  <2> QED BY <1>1, <2>1, <2>2, TreeFacts
<1>3. ASSUME at.how = "in" PROVE at = In(k) /\ s \in Enters(file, k)
  BY <1>2, <1>3 DEF Stepping, Moves, In, Out
<1>4. ASSUME at.how # "in"
      PROVE  /\ k # frame /\ k # 1 /\ frame < k
             /\ u \in DOMAIN file /\ u \in Nat /\ u < k /\ frame \in Upwards(file, u) /\ k \in Below(file, u)
             /\ file[u].kind = "Function" => u = frame
             /\ s \in Leaves(file, k, at.how, Only(outcome[u]))
             /\ file[k].slot = "finalizer" => Only(outcome[u]) # "in"
  <2>1. k # frame /\ s \in Leaves(file, k, at.how, Only(outcome[u]))
    BY <1>4 DEF Stepping, Moves, Ended
  <2>2. k # 1
    <3>1. Upwards(file, 1) = {1}
      BY <1>1, UpwardsDefined, TreeFacts
    <3> QED BY <1>2, <2>1, <3>1
  <2>3. u \in DOMAIN file /\ u \in Nat /\ u < k /\ k \in Below(file, u)
    BY <1>1, <1>2, <2>2, TreeFacts DEF Below
  <2>4. frame \in Upwards(file, u) /\ u \in Upwards(file, u) /\ Upwards(file, k) = {k} \cup Upwards(file, u)
    BY <1>1, <1>2, <2>1, <2>3, PartFacts, UpwardsFacts
  <2>5. frame < k /\ frame <= u
    BY <1>1, <1>2, <2>1, <2>3, <2>4, UpwardsFacts
  <2>6. file[u].kind = "Function" => u = frame
    <3> SUFFICES ASSUME file[u].kind = "Function", frame < u PROVE FALSE
      BY <1>2, <2>3, <2>5
    <3>1. u = k
      BY <2>4 DEF Stepping, Control
    <3> QED BY <2>3, <3>1
  <2>7. file[k].slot = "finalizer" => Only(outcome[u]) # "in"
    BY <2>4, <2>5 DEF Stepping, Control
  <2> QED BY <2>1, <2>2, <2>3, <2>4, <2>5, <2>6, <2>7
<1> QED BY <1>1, <1>2, <1>3, <1>4

LEMMA PlaceFacts ==
  /\ \A n, m : In(n) = In(m) => n = m
  /\ \A n, m, h : h # "in" => In(n) # Out(m, h)
  /\ \A n, m, h, g : Out(n, h) = Out(m, g) => n = m /\ h = g
  /\ \A n, h : Out(n, h).node = n /\ Out(n, h).how = h /\ In(n).node = n /\ In(n).how = "in"
BY DEF In, Out

(* A step into a node.                                                     *)
LEMMA Entering ==
  ASSUME NEW s, Stepping(s), NEW m, s.to = In(m)
  PROVE  LET k == at.node u == file[m].up IN
         /\ m \in DOMAIN file /\ m # 1 /\ u \in DOMAIN file /\ m \in Below(file, u) /\ file[u].kind # "Function"
         /\ frame \in Upwards(file, u) /\ frame < m
         /\ \/ at = In(u) /\ s \in Enters(file, u) /\ file[m].slot # "finalizer"
            \/ /\ at = Out(k, "normal") /\ file[k].up = u /\ file[u].kind \in Lists \cup {"Switch"}
               /\ k < m /\ Next1(file, k) # {} /\ m = Min(Next1(file, k)) /\ file[m].slot = "list"
            \/ /\ at = Out(k, at.how) /\ at.how # "in" /\ file[k].up = u
               /\ file[m].slot \in Later /\ (file[m].slot = "finalizer" => s.test = u /\ s.outcome # "in")
            \/ /\ at = Out(k, at.how) /\ at.how # "in" /\ file[k].up = u
               /\ file[m].slot = "test" /\ file[u].kind \in Loops
<1> DEFINE k == at.node
           u == file[k].up
<1>1. /\ Tree(file) /\ Grammar(file) /\ Shape(file)
      /\ k \in DOMAIN file /\ frame \in Upwards(file, k) /\ frame \in Nat
  BY StepWay
<1>2. \A h : h # "in" => s.to # Out(k, h) /\ s.to # Out(u, h)
  BY PlaceFacts
<1>3. ASSUME NEW a \in DOMAIN file, m \in Below(file, a), frame \in Upwards(file, a)
      PROVE  m \in DOMAIN file /\ m # 1 /\ file[m].up = a /\ frame < m
  <2>1. m \in DOMAIN file /\ m # 1 /\ file[m].up = a /\ a < m /\ a \in Nat /\ m \in Nat
    BY <1>1, <1>3, PartFacts, TreeFacts
  <2>2. frame <= a
    BY <1>1, <1>3, UpwardsFacts
  <2> QED BY <1>1, <2>1, <2>2
<1>4. CASE at.how = "in"
  <2>1. at = In(k) /\ s \in Enters(file, k)
    BY <1>4, StepWay
  <2>2. file[k].kind # "Function" /\ m \in Below(file, k) /\ file[m].slot # "finalizer"
    BY <1>1, <1>2, <2>1, EntersCases, PlaceFacts
  <2> QED BY <1>1, <1>3, <2>1, <2>2
<1>5. CASE at.how # "in"
  <2>1. /\ at = Out(k, at.how) /\ k # 1 /\ u \in DOMAIN file /\ frame \in Upwards(file, u) /\ k \in Below(file, u)
        /\ s \in Leaves(file, k, at.how, Only(outcome[u])) /\ k \in Nat
        /\ file[k].slot = "finalizer" => Only(outcome[u]) # "in"
    BY <1>5, StepWay
  <2> DEFINE kind == file[u].kind
  <2>2. LeavesTo(file, k, at.how, s)
    BY <1>1, <1>5, <2>1, LeavesCases
  <2>3. CASE kind \in Lists \cup {"Switch"}
    <3>1. at.how = "normal" /\ Next1(file, k) # {} /\ m = Min(Next1(file, k))
      <4>1. at.how = "normal" /\ Next1(file, k) # {} /\ s.to = In(Min(Next1(file, k)))
        BY <1>2, <1>5, <2>2, <2>3 DEF LeavesTo
      <4> QED BY <4>1, PlaceFacts
    <3>2. Next1(file, k) \in SUBSET Below(file, u)
      BY DEF Next1
    <3>3. m \in Next1(file, k)
      BY <1>1, <2>1, <3>1, <3>2, FirstFacts
    <3>4. m \in Below(file, u) /\ k < m
      BY <3>3 DEF Next1
    <3>5. m \in DOMAIN file /\ m # 1 /\ file[m].up = u /\ frame < m
      BY <1>3, <2>1, <3>4
    <3>6. file[m].slot = "list"
      <4>1. m \in 2..Len(file)
        <5>1. Len(file) \in Nat /\ m \in 1..Len(file)
          BY <1>1, <3>5, TreeFacts
        <5> QED BY <3>5, <5>1
      <4> QED BY <1>1, <2>3, <3>5, <4>1 DEF Grammar
    <3>7. kind # "Function"
      BY <2>3 DEF Lists
    <3> QED BY <2>1, <2>3, <3>1, <3>4, <3>5, <3>6, <3>7
  <2>4. CASE kind \notin Lists \cup {"Switch"}
    <3>1. Handing(file, u, s) \/ (kind \in Loops /\ Onto(file, u, s, {"test"}))
      <4>1. \A h : h # "in" => s.to # Out(u, h)
        BY <1>2
      <4>2. \/ Handing(file, u, s)
            \/ kind \in Loops /\ Onto(file, u, s, {"test"})
            \/ s.to = Out(u, at.how) \/ s.to = Out(u, "normal")
            \/ kind = "Try" /\ \E h : h # "in" /\ s.to = Out(u, h)
        BY <2>2, <2>4 DEF LeavesTo
      <4> QED BY <1>5, <4>1, <4>2
    <3>2. CASE Handing(file, u, s)
      <4>1. m \in At(file, u, Later) /\ kind # "Function" /\ (file[m].slot = "finalizer" => s.test = u /\ s.outcome # "in")
        BY <3>2, PlaceFacts DEF Handing
      <4>2. m \in Below(file, u) /\ file[m].slot \in Later
        BY <4>1 DEF At
      <4> QED BY <1>3, <1>5, <2>1, <4>1, <4>2
    <3>3. CASE kind \in Loops /\ Onto(file, u, s, {"test"})
      <4>1. m \in At(file, u, {"test"}) /\ kind # "Function"
        BY <3>3, PlaceFacts DEF Onto, Loops
      <4>2. m \in Below(file, u) /\ file[m].slot = "test"
        BY <4>1 DEF At
      <4> QED BY <1>3, <1>5, <2>1, <3>3, <4>1, <4>2
    <3> QED BY <3>1, <3>2, <3>3
  <2> QED BY <2>3, <2>4
<1> QED BY <1>4, <1>5

(* A step that ends a node.                                                *)
LEMMA Exiting ==
  ASSUME NEW s, Stepping(s), s.to.how # "in"
  PROVE  LET k == at.node n == s.to.node h == s.to.how IN
         /\ s.to = Out(n, h) /\ n \in DOMAIN file
         /\ \/ /\ at = In(n) /\ k = n
               /\ \/ h = "normal" /\ (file[n].kind = "Block" => Below(file, n) = {})
                  \/ file[n].kind \in {"Return", "Throw", "Break"}
            \/ /\ at = Out(k, at.how) /\ at.how # "in" /\ file[k].up = n /\ k \in Below(file, n) /\ k # frame
               /\ file[n].kind \in Lists => h = at.how /\ ~(at.how = "normal" /\ Next1(file, k) # {})
               /\ h # "normal" => h = at.how \/ file[n].kind = "Try"
<1> DEFINE k == at.node
           u == file[k].up
<1>1. Tree(file) /\ Grammar(file) /\ Shape(file) /\ k \in DOMAIN file
  BY StepWay
<1>2. \A n : s.to # In(n)
  BY PlaceFacts
<1>3. CASE at.how = "in"
  <2>1. at = In(k) /\ s \in Enters(file, k)
    BY <1>3, StepWay
  <2>2. \/ s.to = Out(k, "normal") /\ (file[k].kind = "Block" => Below(file, k) = {})
        \/ file[k].kind \in {"Return", "Throw", "Break"} /\ \E h : h # "in" /\ s.to = Out(k, h)
    BY <1>1, <1>2, <2>1, EntersCases
  <2> QED BY <1>1, <2>1, <2>2, PlaceFacts
<1>4. CASE at.how # "in"
  <2>1. /\ at = Out(k, at.how) /\ k # 1 /\ u \in DOMAIN file /\ k \in Below(file, u) /\ k # frame
        /\ s \in Leaves(file, k, at.how, Only(outcome[u]))
        /\ file[k].slot = "finalizer" => Only(outcome[u]) # "in"
    BY <1>4, StepWay
  <2> DEFINE kind == file[u].kind
  <2>2. LeavesTo(file, k, at.how, s)
    BY <1>1, <1>4, <2>1, LeavesCases
  <2>3. ~Handing(file, u, s) /\ ~Onto(file, u, s, {"test"})
    BY <1>2 DEF Handing, Onto
  <2>4. CASE kind \in Lists
    <3>1. s.to = Out(u, at.how) /\ ~(at.how = "normal" /\ Next1(file, k) # {})
      BY <1>2, <2>2, <2>4 DEF LeavesTo
    <3> QED BY <1>4, <2>1, <3>1, PlaceFacts
  <2>5. CASE kind = "Switch"
    <3>1. (s.to = Out(u, "normal") \/ s.to = Out(u, at.how)) /\ kind \notin Lists
      BY <1>2, <2>2, <2>5 DEF Lists, LeavesTo
    <3> QED BY <1>4, <2>1, <3>1, PlaceFacts
  <2>6. CASE kind \notin Lists \cup {"Switch"}
    <3>1. \/ s.to = Out(u, at.how) \/ s.to = Out(u, "normal")
          \/ kind = "Try" /\ \E h : h # "in" /\ s.to = Out(u, h)
      BY <2>2, <2>3, <2>6 DEF LeavesTo
    <3> QED BY <1>4, <2>1, <2>6, <3>1, PlaceFacts
  <2> QED BY <2>4, <2>5, <2>6
<1> QED BY <1>3, <1>4

-----------------------------------------------------------------------------
(* What is counted follows control: a first part is entered with its       *)
(* construct and a loop's test more often, the next statement when the one *)
(* before it has ended normally; a block ends normally with its last       *)
(* statement, and what is calm whenever it is entered.  A function counts  *)
(* here when it is evaluated.                                              *)
Once(b) == IF b THEN 1 ELSE 0
Visits(n) == IF file[n].kind = "Function" THEN seen.past[n] + Once(at = In(n)) ELSE seen.in[n]
Passing(n) == at = Out(n, "normal") /\ n # frame
Opened(n) == InCall /\ n \in Upwards(file, at.node) /\ frame < n /\ at # Out(n, "normal")

FirstRun(n) ==
  First(file, n) =>
    LET up == file[n].up IN
    /\ seen.in[up] <= Visits(n) + Once(at = In(up))
    /\ file[up].kind \notin Loops => seen.in[up] = Visits(n) + Once(at = In(up))
BodyRun(n) ==
  file[n].slot = "body" /\ file[file[n].up].kind = "Function" => Visits(n) = seen.in[file[n].up]
NextRun(n) ==
  file[file[n].up].kind \in Lists /\ Next1(file, n) # {} =>
    Visits(Min(Next1(file, n))) + Once(Passing(n)) = seen.past[n]
LastRun(n) ==
  file[file[n].up].kind = "Block" /\ Next1(file, n) = {} =>
    seen.past[file[n].up] + Once(Passing(n)) = seen.past[n]
CalmRun(n) == Calm(file, n) => seen.past[n] + Once(Opened(n)) = seen.in[n]

OpenTo(n) == \A f \in Upwards(file, n) : file[f].kind = "Function" => f \in defined
Opens ==
  /\ \A n \in DOMAIN file : seen.in[n] # 0 \/ seen.past[n] # 0 \/ n \in defined => OpenTo(n)
  /\ InCall => OpenTo(at.node)

FlowInv ==
  /\ Control /\ Opens
  /\ frame \in {0, 1} \cup Kinds(file, {"Function"})
  /\ \A n \in DOMAIN file : CalmRun(n) /\ (n # 1 => FirstRun(n) /\ BodyRun(n) /\ NextRun(n) /\ LastRun(n))

-----------------------------------------------------------------------------
LEMMA FunctionEvaluated ==
  ASSUME NEW s, Stepping(s), NEW n \in DOMAIN file, file[n].kind = "Function"
  PROVE  at = In(n) <=> s.to = Out(n, "normal") /\ n # frame
<1>1. ASSUME at = In(n) PROVE s.to = Out(n, "normal") /\ n # frame
  <2>1. n # frame
    <3> SUFFICES ASSUME n = frame PROVE FALSE
      OBVIOUS
    <3>1. n = 1
      BY <1>1 DEF Stepping, Control
    <3> QED BY <3>1, StepWay, TreeFacts
  <2>2. at.node = n /\ at.how = "in"
    BY <1>1, PlaceFacts
  <2>3. s \in Enters(file, n) /\ Tree(file) /\ Grammar(file) /\ Shape(file)
    BY <2>2, StepWay
  <2>4. s.to = Out(n, "normal")
    BY <2>3, EntersCases
  <2> QED BY <2>1, <2>4
<1>2. ASSUME s.to = Out(n, "normal"), n # frame PROVE at = In(n)
  <2>1. s.to.how # "in" /\ s.to.node = n
    BY <1>2, PlaceFacts
  <2>2. CASE at = In(n)
    BY <2>2
  <2>3. CASE at.how # "in" /\ file[at.node].up = n
    BY <1>2, <2>3, StepWay
  <2> QED BY <2>1, <2>2, <2>3, Exiting
<1> QED BY <1>1, <1>2

LEMMA StepSeen ==
  ASSUME NEW s, Stepping(s), SeenInv, seen' = Counts(s.to), at' = s.to, frame' = frame, file' = file,
         frame = 1 \/ file[frame].kind = "Function", NEW n \in DOMAIN file
  PROVE  /\ seen.in[n] \in Nat /\ seen.past[n] \in Nat /\ Visits(n) \in Nat
         /\ seen'.past[n] = seen.past[n] + Once(Passing(n)')
         /\ Visits(n)' = Visits(n) + Once(at' = In(n))
         /\ seen'.in[n] = seen.in[n] + Once(at' = In(n) /\ file[n].kind # "Function")
<1>1. /\ seen \in [in : [DOMAIN file -> Nat], past : [DOMAIN file -> Nat]]
      /\ seen.in[n] \in Nat /\ seen.past[n] \in Nat /\ Visits(n) \in Nat
  BY DEF SeenInv, Visits, Once
<1>2. /\ seen'.past[n] = seen.past[n] + Once(at' = Out(n, "normal") /\ n # frame)
      /\ seen'.in[n] = seen.in[n] + Once(at' = In(n) /\ file[n].kind # "Function")
  <2>1. CASE s.to.how = "in"
    <3> DEFINE m == s.to.node
    <3>1. s.to = In(m) /\ m \in DOMAIN file /\ m # frame
      <4>1. s.to = In(m)
        <5>1. Moving(file, at.node, at.node, s) \/ Moving(file, at.node, file[at.node].up, s)
          <6>1. at.how = "in" => Moving(file, at.node, at.node, s)
            BY StepWay, EntersFacts
          <6>2. at.how # "in" => Moving(file, at.node, file[at.node].up, s)
            BY StepWay, LeavesFacts
          <6> QED BY <6>1, <6>2
        <5> QED BY <2>1, <5>1 DEF Moving, In, Out
      <4>2. m \in DOMAIN file /\ frame < m /\ frame \in Nat
        BY <4>1, Entering, StepWay
      <4> QED BY <4>1, <4>2
    <3>2. at' # Out(n, "normal")
      BY <3>1, PlaceFacts
    <3>3. CASE file[m].kind = "Function"
      <4>1. seen' = seen
        BY <2>1, <3>1, <3>3 DEF Counts
      <4>2. ~(at' = In(n) /\ file[n].kind # "Function")
        BY <3>1, <3>3, PlaceFacts
      <4> QED BY <1>1, <3>2, <4>1, <4>2 DEF Once
    <3>4. CASE file[m].kind # "Function"
      <4>1. seen' = [seen EXCEPT !.in = Added(seen.in, m)]
        BY <2>1, <3>1, <3>4 DEF Counts
      <4>2. seen'.past = seen.past /\ seen'.in = Added(seen.in, m)
        BY <1>1, <4>1
      <4>3. at' = In(n) <=> m = n
        BY <3>1, PlaceFacts
      <4>4. Added(seen.in, m)[n] = IF m = n THEN seen.in[n] + 1 ELSE seen.in[n]
        BY <1>1 DEF Added
      <4> HIDE DEF m
      <4> QED BY <1>1, <3>2, <3>4, <4>2, <4>3, <4>4 DEF Once
    <3> QED BY <3>3, <3>4
  <2>2. CASE s.to.how # "in"
    <3> DEFINE m == s.to.node
               h == s.to.how
    <3>1. s.to = Out(m, h) /\ m \in DOMAIN file
      BY <2>2, Exiting
    <3>2. at' # In(n)
      BY <2>2, PlaceFacts
    <3>3. at' = Out(n, "normal") <=> m = n /\ h = "normal"
      BY <3>1, PlaceFacts
    <3>4. CASE m # frame /\ h = "normal"
      <4>1. seen' = [seen EXCEPT !.past = Added(seen.past, m)]
        BY <2>2, <3>4 DEF Counts
      <4>2. seen'.in = seen.in /\ seen'.past = Added(seen.past, m)
        BY <1>1, <4>1
      <4>3. Added(seen.past, m)[n] = IF m = n THEN seen.past[n] + 1 ELSE seen.past[n]
        BY <1>1 DEF Added
      <4> HIDE DEF m, h
      <4> QED BY <1>1, <3>2, <3>3, <3>4, <4>2, <4>3 DEF Once
    <3>5. CASE m = frame \/ h # "normal"
      <4>1. seen' = seen
        BY <2>2, <3>5 DEF Counts
      <4> QED BY <1>1, <3>2, <3>3, <3>5, <4>1 DEF Once
    <3> QED BY <3>4, <3>5
  <2> QED BY <2>1, <2>2
<1>3. Passing(n)' <=> at' = Out(n, "normal") /\ n # frame
  BY DEF Passing
<1>4. Visits(n)' = Visits(n) + Once(at' = In(n))
  <2>1. CASE file[n].kind # "Function"
    <3>1. Visits(n)' = seen'.in[n] /\ Visits(n) = seen.in[n]
      BY <2>1 DEF Visits
    <3> QED BY <1>2, <2>1, <3>1 DEF Once
  <2>2. CASE file[n].kind = "Function"
    <3>1. Visits(n)' = seen'.past[n] + Once(at' = In(n)) /\ Visits(n) = seen.past[n] + Once(at = In(n))
      BY <2>2 DEF Visits, Once, In
    <3>2. at = In(n) <=> at' = Out(n, "normal") /\ n # frame
      BY <2>2, FunctionEvaluated
    <3>3. Once(at' = Out(n, "normal") /\ n # frame) = Once(at = In(n)) /\ Once(at = In(n)) \in Nat /\ Once(at' = In(n)) \in Nat
      BY <3>2 DEF Once
    <3>4. seen'.past[n] = seen.past[n] + Once(at = In(n))
      BY <1>2, <3>3
    <3> QED BY <1>1, <3>1, <3>3, <3>4
  <2> QED BY <2>1, <2>2
<1>5. seen'.past[n] = seen.past[n] + Once(Passing(n)')
  BY <1>2, <1>3 DEF Once
<1> QED BY <1>1, <1>2, <1>4, <1>5

-----------------------------------------------------------------------------
(* What a step keeps.                                                      *)
Moved(s) ==
  /\ Stepping(s) /\ SeenInv /\ seen' = Counts(s.to) /\ at' = s.to /\ frame' = frame /\ file' = file
  /\ outcome' = IF s.test = 0 THEN outcome ELSE [outcome EXCEPT ![s.test] = {s.outcome}]
  /\ defined' = Defining(s.to)

LEMMA MovedFacts ==
  ASSUME NEW s, Moved(s)
  PROVE  /\ Tree(file) /\ Grammar(file) /\ Shape(file)
         /\ frame = 1 \/ file[frame].kind = "Function"
         /\ \A n \in DOMAIN file :
              /\ seen.in[n] \in Nat /\ seen.past[n] \in Nat /\ Visits(n) \in Nat
              /\ seen'.past[n] = seen.past[n] + Once(Passing(n)')
              /\ Visits(n)' = Visits(n) + Once(at' = In(n))
              /\ seen'.in[n] = seen.in[n] + Once(at' = In(n) /\ file[n].kind # "Function")
<1>1. Stepping(s)
  BY DEF Moved
<1>2. Tree(file) /\ Grammar(file) /\ Shape(file)
  BY <1>1, StepWay
<1>3. frame = 1 \/ file[frame].kind = "Function"
  BY <1>1 DEF Stepping, CallInv
<1> QED BY <1>1, <1>2, <1>3, StepSeen DEF Moved

LEMMA FirstRunKept ==
  ASSUME NEW s, Moved(s), NEW n \in DOMAIN file, n # 1, FirstRun(n)
  PROVE  FirstRun(n)'
<1> DEFINE u == file[n].up
<1> SUFFICES ASSUME First(file, n)
             PROVE  /\ seen'.in[u] <= Visits(n)' + Once(at' = In(u))
                    /\ file[u].kind \notin Loops => seen'.in[u] = Visits(n)' + Once(at' = In(u))
  BY DEF FirstRun, First, Moved, Once, In
<1>1. Tree(file) /\ Grammar(file) /\ Shape(file) /\ Stepping(s) /\ at' = s.to
  BY MovedFacts DEF Moved
<1>2. u \in DOMAIN file /\ n \in 2..Len(file) /\ u \in Nat /\ n \in Nat /\ u < n
  BY <1>1, TreeFacts
<1>3. file[u].kind # "Function"
  <2>1. file[n].slot \in Slots(file[u].kind)
    BY <1>1, <1>2 DEF Shape
  <2> QED BY <2>1 DEF First, Firsts, Slots, Lists, Loops
<1>4. at = In(u) => at' = In(n)
  <2> SUFFICES ASSUME at = In(u) PROVE s.to = In(n)
    BY <1>1
  <2>1. at.how = "in" /\ at.node = u
    BY PlaceFacts
  <2>2. s \in Enters(file, u)
    BY <1>1, <2>1, StepWay
  <2>3. s = Go(In(n))
    BY <1>1, <2>2, EntersFirst
  <2> QED BY <2>3 DEF Go
<1>5. ASSUME at' = In(n), file[u].kind \notin Loops PROVE at = In(u)
  <2>1. s.to = In(n)
    BY <1>1, <1>5
  <2>2. file[n].slot \notin Later
    BY DEF First, Firsts, Later
  <2>3. \/ at = In(u)
        \/ /\ at = Out(at.node, "normal") /\ file[at.node].up = u /\ at.node < n
           /\ at.how # "in" /\ at.node \in Below(file, u)
    <3>1. at = Out(at.node, "normal") => at.how # "in"
      BY PlaceFacts
    <3>2. at.how # "in" => at.node \in Below(file, file[at.node].up)
      BY <1>1, StepWay
    <3> QED BY <1>1, <1>5, <2>1, <2>2, <3>1, <3>2, Entering
  <2>4. ~(at.node \in Below(file, u) /\ at.node < n)
    <3>1. at.node \in Below(file, u) => u < at.node /\ at.node \in Nat
      BY <1>1, <1>2, PartFacts, TreeFacts
    <3> QED BY <1>2, <3>1 DEF First
  <2> QED BY <2>3, <2>4
<1>6. /\ seen'.in[u] = seen.in[u] + Once(at' = In(u))
      /\ Visits(n)' = Visits(n) + Once(at' = In(n))
      /\ seen.in[u] \in Nat /\ Visits(n) \in Nat
  <2>1. seen'.in[u] = seen.in[u] + Once(at' = In(u) /\ file[u].kind # "Function")
    BY <1>2, MovedFacts
  <2> QED BY <1>2, <1>3, <2>1, MovedFacts DEF Once
<1>7. /\ seen.in[u] <= Visits(n) + Once(at = In(u))
      /\ file[u].kind \notin Loops => seen.in[u] = Visits(n) + Once(at = In(u))
  BY DEF FirstRun
<1> QED BY <1>4, <1>5, <1>6, <1>7 DEF Once

LEMMA BodyRunKept ==
  ASSUME NEW s, Moved(s), NEW n \in DOMAIN file, n # 1, BodyRun(n)
  PROVE  BodyRun(n)'
<1> DEFINE u == file[n].up
<1> SUFFICES ASSUME file[n].slot = "body", file[u].kind = "Function"
             PROVE  Visits(n)' = seen'.in[u]
  BY DEF BodyRun, Moved
<1>1. Stepping(s) /\ at' = s.to /\ Tree(file)
  BY MovedFacts DEF Moved
<1>2. u \in DOMAIN file
  BY <1>1, TreeFacts
<1>3. at' # In(n)
  BY <1>1, Entering
<1>4. Visits(n)' = Visits(n) + Once(at' = In(n)) /\ Visits(n) \in Nat
  BY MovedFacts
<1>5. seen'.in[u] = seen.in[u] + Once(at' = In(u) /\ file[u].kind # "Function") /\ seen.in[u] \in Nat
  BY <1>2, MovedFacts
<1>6. Visits(n) = seen.in[u]
  BY DEF BodyRun
<1> QED BY <1>3, <1>4, <1>5, <1>6 DEF Once

(* Lists are entered at their first statement.                             *)
LEMMA EntersList ==
  ASSUME NEW p, Tree(p), Grammar(p), NEW n \in DOMAIN p, n # 1, p[p[n].up].kind \in Lists,
         NEW s \in Enters(p, p[n].up), NEW m, s.to = In(m)
  PROVE  m <= n
<1> DEFINE u == p[n].up
           first == At(p, u, {"list", "test", "left", "block", "expr"})
<1>1. n \in 2..Len(p) /\ u \in DOMAIN p /\ n \in Below(p, u)
  BY TreeFacts DEF Below
<1>2. n \in first
  BY <1>1 DEF Grammar, At
<1>3. s = Go(In(Min(first)))
  <2>1. p[u].kind \notin {"Return", "Throw", "Break", "Switch", "Function", "Catch", "If", "Conditional"} \cup Loops
    BY DEF Lists, Loops
  <2>2. first # {}
    BY <1>2
  <2> HIDE DEF first
  <2> QED BY <2>1, <2>2 DEF Enters, first
<1>4. m = Min(first)
  <2>1. s.to = In(Min(first))
    BY <1>3 DEF Go
  <2> HIDE DEF first
  <2> QED BY <2>1 DEF In
<1>5. first \in SUBSET DOMAIN p
  BY DEF At, Below
<1> HIDE DEF first
<1> QED BY <1>2, <1>4, <1>5, SomeNodes, MinFacts

LEMMA ListSlot ==
  ASSUME NEW p, Tree(p), Grammar(p), NEW n \in DOMAIN p, n # 1, p[p[n].up].kind \in Lists
  PROVE  p[n].slot = "list"
<1>1. n \in 2..Len(p)
  BY TreeFacts
<1> QED BY <1>1 DEF Grammar

LEMMA NextRunKept ==
  ASSUME NEW s, Moved(s), NEW n \in DOMAIN file, n # 1, NextRun(n)
  PROVE  NextRun(n)'
<1> DEFINE u == file[n].up
<1>0. \A m : m = Min(Next1(file, n)) => 
        (NextRun(n)' <=> (file[u].kind \in Lists /\ Next1(file, n) # {} => Visits(m)' + Once(Passing(n)') = seen'.past[n]))
  <2>1. Next1(file, n)' = Next1(file, n) /\ file' = file
    BY DEF Moved, Next1, Below
  <2> QED BY <2>1 DEF NextRun, Visits, Passing, Once, In, Out
<1> SUFFICES ASSUME file[u].kind \in Lists, Next1(file, n) # {}, NEW m, m = Min(Next1(file, n))
             PROVE  Visits(m)' + Once(Passing(n)') = seen'.past[n]
  BY <1>0
<1>1. Tree(file) /\ Grammar(file) /\ Shape(file) /\ Stepping(s) /\ at' = s.to
  BY MovedFacts DEF Moved
<1>2. /\ u \in DOMAIN file /\ n \in Below(file, u) /\ n \in 2..Len(file) /\ n \in Nat
  BY <1>1, TreeFacts DEF Below
<1>3. m \in Next1(file, n) /\ \A k \in Next1(file, n) : m <= k
  <2>1. Next1(file, n) \in SUBSET DOMAIN file
    BY DEF Next1, Below
  <2> QED BY <1>1, <2>1, SomeNodes, MinFacts
<1>4. m \in DOMAIN file /\ file[m].up = u /\ n < m /\ m \in Nat /\ m # 1 /\ m \in Below(file, u)
  <2>1. m \in Below(file, u) /\ n < m
    BY <1>3 DEF Next1
  <2> QED BY <1>1, <1>2, <2>1, PartFacts, TreeFacts
<1>5. at = Out(n, "normal") /\ n # frame => at' = In(m)
  <2> SUFFICES ASSUME at = Out(n, "normal") PROVE s.to = In(m)
    BY <1>1
  <2>1. at.how = "normal" /\ at.how # "in" /\ at.node = n
    BY PlaceFacts
  <2>2. s \in Leaves(file, n, at.how, Only(outcome[u])) /\ (file[n].slot = "finalizer" => Only(outcome[u]) # "in")
    BY <1>1, <2>1, StepWay
  <2>3. LeavesTo(file, n, at.how, s)
    BY <1>1, <2>1, <2>2, LeavesCases
  <2> QED BY <2>1, <2>3 DEF LeavesTo
<1>6. ASSUME at' = In(m) PROVE at = Out(n, "normal") /\ n # frame
  <2> DEFINE k == at.node
  <2>1. s.to = In(m)
    BY <1>1, <1>6
  <2>2. file[m].slot = "list"
    BY <1>1, <1>4, ListSlot
  <2>3. ~(at = In(u) /\ s \in Enters(file, u))
    <3>1. at = In(u) /\ s \in Enters(file, u) => m <= n
      BY <1>1, <2>1, EntersList
    <3> QED BY <1>2, <1>4, <3>1
  <2>4. at = Out(k, "normal") /\ file[k].up = u /\ Next1(file, k) # {} /\ m = Min(Next1(file, k)) /\ k < m
    BY <1>1, <1>4, <2>1, <2>2, <2>3, Entering DEF Later
  <2>5. at.how # "in"
    BY <2>4, PlaceFacts
  <2>6. k \in Below(file, u) /\ k # frame /\ k \in Nat
    BY <1>1, <2>4, <2>5, StepWay
  <2>7. \A j \in Next1(file, k) : m <= j
    <3>1. Next1(file, k) \in SUBSET DOMAIN file
      BY DEF Next1, Below
    <3> QED BY <1>1, <2>4, <3>1, SomeNodes, MinFacts
  <2>8. k < n => n \in Next1(file, k)
    BY <1>2, <2>4 DEF Next1
  <2>9. n < k => k \in Next1(file, n)
    BY <2>6 DEF Next1
  <2>10. k = n
    BY <1>2, <1>3, <1>4, <2>4, <2>6, <2>7, <2>8, <2>9
  <2> QED BY <2>4, <2>6, <2>10
<1>7. /\ Visits(m)' = Visits(m) + Once(at' = In(m))
      /\ seen'.past[n] = seen.past[n] + Once(Passing(n)')
      /\ Visits(m) \in Nat /\ seen.past[n] \in Nat
  BY <1>4, MovedFacts
<1>8. Visits(m) + Once(Passing(n)) = seen.past[n]
  BY DEF NextRun
<1>9. Once(Passing(n)) = Once(at' = In(m)) /\ Once(Passing(n)) \in Nat /\ Once(Passing(n)') \in Nat
  BY <1>5, <1>6 DEF Passing, Once
<1> QED BY <1>7, <1>8, <1>9

LEMMA LastRunKept ==
  ASSUME NEW s, Moved(s), NEW n \in DOMAIN file, n # 1, LastRun(n)
  PROVE  LastRun(n)'
<1> DEFINE u == file[n].up
<1>0. LastRun(n)' <=> (file[u].kind = "Block" /\ Next1(file, n) = {} => seen'.past[u] + Once(Passing(n)') = seen'.past[n])
  <2>1. Next1(file, n)' = Next1(file, n) /\ file' = file
    BY DEF Moved, Next1, Below
  <2> QED BY <2>1 DEF LastRun, Passing, Once, Out
<1> SUFFICES ASSUME file[u].kind = "Block", Next1(file, n) = {}
             PROVE  seen'.past[u] + Once(Passing(n)') = seen'.past[n]
  BY <1>0
<1>1. Tree(file) /\ Grammar(file) /\ Shape(file) /\ Stepping(s) /\ at' = s.to
  BY MovedFacts DEF Moved
<1>2. /\ u \in DOMAIN file /\ n \in Below(file, u) /\ n \in 2..Len(file) /\ n \in Nat
  BY <1>1, TreeFacts DEF Below
<1>3. u # frame
  <2>1. frame = 1 \/ file[frame].kind = "Function"
    BY MovedFacts
  <2> QED BY <1>1, <2>1, TreeFacts
<1>4. at = Out(n, "normal") /\ n # frame => at' = Out(u, "normal")
  <2> SUFFICES ASSUME at = Out(n, "normal") PROVE s.to = Out(u, "normal")
    BY <1>1
  <2>1. at.how = "normal" /\ at.how # "in" /\ at.node = n
    BY PlaceFacts
  <2>2. s \in Leaves(file, n, at.how, Only(outcome[u])) /\ (file[n].slot = "finalizer" => Only(outcome[u]) # "in")
    BY <1>1, <2>1, StepWay
  <2>3. LeavesTo(file, n, at.how, s)
    BY <1>1, <2>1, <2>2, LeavesCases
  <2> QED BY <2>1, <2>3 DEF LeavesTo, Lists
<1>5. ASSUME at' = Out(u, "normal") PROVE at = Out(n, "normal") /\ n # frame
  <2> DEFINE k == at.node
  <2>1. s.to.how = "normal" /\ s.to.node = u /\ s.to.how # "in"
    BY <1>1, <1>5, PlaceFacts
  <2>2. /\ at = Out(k, at.how) /\ file[k].up = u /\ k \in Below(file, u) /\ k # frame
        /\ at.how = "normal" /\ Next1(file, k) = {}
    <3>1. Below(file, u) # {} /\ file[u].kind \notin {"Return", "Throw", "Break"} /\ file[u].kind \in Lists
      BY <1>2 DEF Lists
    <3> QED BY <1>1, <2>1, <3>1, Exiting
  <2>3. k \in Nat
    BY <1>1, StepWay
  <2>4. k < n => n \in Next1(file, k)
    BY <1>2, <2>2 DEF Next1
  <2>5. n < k => k \in Next1(file, n)
    BY <2>2 DEF Next1
  <2>6. k = n
    BY <1>2, <2>2, <2>3, <2>4, <2>5
  <2> QED BY <2>2, <2>6
<1>6. \A v : v = u => seen'.past[u] = seen.past[u] + Once(Passing(v)')
  BY <1>2, MovedFacts
<1>7. /\ seen'.past[n] = seen.past[n] + Once(Passing(n)')
      /\ seen.past[u] \in Nat /\ seen.past[n] \in Nat
  BY <1>2, MovedFacts
<1>8. seen.past[u] + Once(Passing(n)) = seen.past[n]
  BY DEF LastRun
<1>9. PICK v : v = u
  OBVIOUS
<1>10. Passing(v)' <=> at' = Out(u, "normal")
  BY <1>3, <1>9 DEF Passing, Moved
<1>11. Once(Passing(n)) = Once(Passing(v)') /\ Once(Passing(n)) \in Nat /\ Once(Passing(n)') \in Nat
  BY <1>4, <1>5, <1>10 DEF Passing, Once
<1> QED BY <1>6, <1>7, <1>8, <1>9, <1>11

(* What is in something calm is calm, but for functions.                   *)
LEMMA CalmInner ==
  ASSUME NEW p, Tree(p), Grammar(p), Shape(p), NEW n \in DOMAIN p, Calm(p, n), NEW k \in Below(p, n)
  PROVE  Calm(p, k) \/ p[k].kind = "Function"
<1>1. k \in 2..Len(p) /\ p[k].up = n /\ k \in DOMAIN p /\ k # 1
  BY TreeFacts, PartFacts
<1> DEFINE kind == p[n].kind
<1>2. kind \notin {"Function", "Catch", "Case", "Default", "Program", "If", "Switch", "Try", "Return", "Throw", "Break", "Block"} \cup Loops
  BY DEF Calm, Diverts
<1>3. kind \notin Lists
  BY <1>2 DEF Lists
<1>4. p[k].kind # "Program" /\ p[k].kind \notin {"Case", "Default"}
  BY <1>1, <1>2 DEF Grammar
<1>5. p[k].kind # "Catch"
  <2>1. p[k].kind = "Catch" => p[k].slot = "handler"
    BY <1>1 DEF Grammar
  <2>2. p[k].slot = "handler" => kind = "Try"
    BY <1>1 DEF Grammar
  <2> QED BY <1>2, <2>1, <2>2
<1>6. p[k].kind \notin {"If", "Switch", "Try", "Return", "Throw", "Break"} \cup Loops
  BY <1>1, <1>2, <1>3 DEF Shape
<1>7. p[k].kind # "Block"
  BY <1>1, <1>2, <1>3 DEF Shape
<1> QED BY <1>4, <1>5, <1>6, <1>7 DEF Calm, Diverts

(* What a node was entered from, and what it is left from, is beside it.   *)
LEMMA StepIn ==
  ASSUME NEW s, Moved(s), NEW m, at' = In(m)
  PROVE  LET k == at.node u == file[m].up IN
         /\ m \in DOMAIN file /\ m # 1 /\ u \in DOMAIN file /\ file[u].kind # "Function" /\ m \in Below(file, u)
         /\ u \in Upwards(file, k) /\ Upwards(file, m) = {m} \cup Upwards(file, u)
         /\ frame \in Nat /\ frame < m /\ m \notin Upwards(file, u) /\ k \in DOMAIN file
         /\ file[m].slot = "finalizer" => s.test = u /\ s.outcome # "in"
         /\ at.how = "in" => at = In(u)
         /\ at.how # "in" => at = Out(k, at.how) /\ file[k].up = u /\ Upwards(file, k) = {k} \cup Upwards(file, u) /\ k \notin Upwards(file, u)
<1> DEFINE k == at.node
           u == file[m].up
<1>1. Stepping(s) /\ s.to = In(m) /\ Tree(file)
  BY MovedFacts DEF Moved
<1>2. /\ m \in DOMAIN file /\ m # 1 /\ u \in DOMAIN file /\ m \in Below(file, u) /\ file[u].kind # "Function"
      /\ frame \in Upwards(file, u) /\ frame < m
  BY <1>1, Entering
<1>3. \/ at = In(u) /\ file[m].slot # "finalizer"
      \/ at.how # "in" /\ at = Out(k, at.how) /\ file[k].up = u /\ (file[m].slot = "finalizer" => s.test = u /\ s.outcome # "in")
  BY <1>1, Entering, PlaceFacts
<1>4. k \in DOMAIN file /\ frame \in Nat
  BY <1>1, StepWay
<1>5. Upwards(file, m) = {m} \cup Upwards(file, u) /\ u \in Upwards(file, u) /\ m \notin Upwards(file, u)
  BY <1>1, <1>2, PartFacts, UpwardsFacts
<1>6. CASE at = In(u) /\ file[m].slot # "finalizer"
  <2>1. at.how = "in" /\ k = u
    BY <1>6, PlaceFacts
  <2> QED BY <1>2, <1>4, <1>5, <1>6, <2>1
<1>7. CASE at.how # "in" /\ at = Out(k, at.how) /\ file[k].up = u /\ (file[m].slot = "finalizer" => s.test = u /\ s.outcome # "in")
  <2>1. k \in Below(file, u)
    BY <1>4, <1>7 DEF Below
  <2>2. Upwards(file, k) = {k} \cup Upwards(file, u) /\ k \notin Upwards(file, u)
    BY <1>1, <1>2, <2>1, PartFacts
  <2> QED BY <1>2, <1>4, <1>5, <1>7, <2>2
<1> QED BY <1>3, <1>6, <1>7

LEMMA StepOut ==
  ASSUME NEW s, Moved(s), at'.how # "in"
  PROVE  LET k == at.node n == at'.node h == at'.how IN
         /\ at' = Out(n, h) /\ n \in DOMAIN file /\ k \in DOMAIN file /\ n \in Upwards(file, k) /\ frame \in Nat
         /\ frame \in Upwards(file, n)
         /\ h \notin {"in", "normal"} => ~Calm(file, n)
         /\ file[n].kind = "Function" /\ h # "normal" => n = frame
         /\ at.how = "in" => at = In(n) /\ (n = frame => n = 1)
         /\ at.how # "in" => /\ at = Out(k, at.how) /\ file[k].up = n /\ k # frame
                             /\ Upwards(file, k) = {k} \cup Upwards(file, n) /\ k \notin Upwards(file, n)
<1> DEFINE k == at.node
           n == at'.node
           h == at'.how
<1>1. /\ Stepping(s) /\ s.to.how # "in" /\ s.to = at' /\ Tree(file) /\ Grammar(file) /\ Shape(file) /\ Control
  BY MovedFacts DEF Moved, Stepping
<1>2. k \in DOMAIN file /\ frame \in Nat /\ frame \in Upwards(file, k)
  BY <1>1, StepWay
<1>3. at' = Out(n, h) /\ n \in DOMAIN file
  BY <1>1, Exiting
<1>4. \/ /\ at = In(n) /\ k = n
         /\ h = "normal" \/ file[n].kind \in {"Return", "Throw", "Break"}
      \/ /\ at = Out(k, at.how) /\ at.how # "in" /\ file[k].up = n /\ k \in Below(file, n) /\ k # frame
         /\ h # "normal" => h = at.how \/ file[n].kind = "Try"
  BY <1>1, Exiting
<1>5. CASE /\ at = In(n) /\ k = n
           /\ h = "normal" \/ file[n].kind \in {"Return", "Throw", "Break"}
  <2>1. n \in Upwards(file, n) /\ at.how = "in"
    BY <1>1, <1>3, <1>5, UpwardsFacts, PlaceFacts
  <2>2. n = frame => n = 1
    BY <1>1, <1>5 DEF Control, Stepping
  <2>3. h # "normal" => ~Calm(file, n) /\ file[n].kind # "Function"
    BY <1>5 DEF Calm, Diverts
  <2> QED BY <1>2, <1>3, <1>5, <2>1, <2>2, <2>3
<1>6. CASE /\ at = Out(k, at.how) /\ at.how # "in" /\ file[k].up = n /\ k \in Below(file, n) /\ k # frame
           /\ h # "normal" => h = at.how \/ file[n].kind = "Try"
  <2>1. Upwards(file, k) = {k} \cup Upwards(file, n) /\ k \notin Upwards(file, n) /\ n \in Upwards(file, n)
    BY <1>1, <1>3, <1>6, PartFacts, UpwardsFacts
  <2>2. file[n].kind = "Function" => n = frame
    BY <1>1, <1>6, StepWay
  <2>3. h \notin {"in", "normal"} => ~Calm(file, n)
    <3> SUFFICES ASSUME h # "normal", h = at.how, Calm(file, n) PROVE FALSE
      BY <1>6 DEF Calm, Diverts
    <3>1. ~Calm(file, k) /\ (file[k].kind = "Function" => k = frame)
      BY <1>1, <1>6 DEF Control, Stepping
    <3> QED BY <1>1, <1>3, <1>6, <3>1, CalmInner
  <2> QED BY <1>2, <1>3, <1>6, <2>1, <2>2, <2>3
<1> QED BY <1>4, <1>5, <1>6

LEMMA CalmRunKept ==
  ASSUME NEW s, Moved(s), NEW n \in DOMAIN file, CalmRun(n)
  PROVE  CalmRun(n)'
<1> DEFINE k == at.node
           Below1(m) == n \in Upwards(file, m) /\ frame < n
<1>0. CalmRun(n)' <=> (Calm(file, n) => seen'.past[n] + Once(Opened(n)') = seen'.in[n])
  BY DEF CalmRun, Moved
<1> SUFFICES ASSUME Calm(file, n)
             PROVE  seen'.past[n] + Once(Opened(n)') = seen'.in[n]
  BY <1>0
<1>1. Tree(file) /\ Grammar(file) /\ Shape(file) /\ Stepping(s) /\ at' = s.to /\ Control /\ InCall /\ frame' = frame /\ file' = file
  BY MovedFacts DEF Moved, Stepping
<1>2. file[n].kind # "Function" /\ n # frame /\ n \in Nat /\ frame \in Nat
  <2>1. file[n].kind # "Function" /\ file[n].kind # "Program"
    BY DEF Calm
  <2> QED BY <1>1, <2>1, MovedFacts, TreeFacts, StepWay
<1>3. Opened(n) <=> Below1(k) /\ at # Out(n, "normal")
  BY <1>1 DEF Opened
<1>4. at.how # "in" /\ k = n => at = Out(n, "normal")
  <2>1. at = Out(k, at.how)
    BY <1>1 DEF Stepping, CallInv
  <2>2. at.how \notin {"in", "normal"} => ~Calm(file, k)
    BY <1>1 DEF Control
  <2> QED BY <2>1, <2>2
<1>5. InCall' /\ (Opened(n)' <=> Below1(at'.node) /\ at' # Out(n, "normal"))
  <2>1. at'.node \in DOMAIN file
    <3>1. CASE at'.how # "in"
      BY <3>1, StepOut
    <3>2. CASE at'.how = "in"
      <4>1. PICK m : at' = In(m)
        BY <1>1, <3>2, StepMoves DEF Moving, Stepping, Out, In
      <4> QED BY <4>1, StepIn, PlaceFacts
    <3> QED BY <3>1, <3>2
  <2>2. InCall'
    BY <1>1, <2>1, TreeFacts DEF InCall, Exited, Idle, Out
  <2> QED BY <1>1, <2>2 DEF Opened
<1>6. Once(Passing(n)') + Once(Opened(n)') = Once(Opened(n)) + Once(at' = In(n))
  <2>0. Passing(n)' <=> at' = Out(n, "normal")
    BY <1>2, <1>1 DEF Passing
  <2>1. CASE at'.how = "in"
    <3>1. PICK m : at' = In(m)
      BY <1>1, <2>1, StepMoves DEF Moving, Stepping, Out, In
    <3> DEFINE u == file[m].up
    <3>2. at'.node = m /\ ~Passing(n)' /\ at' # Out(n, "normal") /\ (at' = In(n) <=> m = n)
      BY <2>0, <3>1, PlaceFacts
    <3>3. CASE m = n
      <4>1. Opened(n)'
        BY <1>1, <1>5, <3>1, <3>2, <3>3, StepIn, UpwardsFacts
      <4>2. ~Opened(n)
        <5>1. at.how = "in" => k = u
          BY <3>1, StepIn, PlaceFacts
        <5>2. n \notin Upwards(file, u)
          BY <3>1, <3>3, StepIn
        <5>3. at.how # "in" => k = n \/ ~Below1(k)
          BY <3>1, <5>2, StepIn
        <5> QED BY <1>3, <1>4, <5>1, <5>2, <5>3
      <4> QED BY <3>2, <3>3, <4>1, <4>2 DEF Once
    <3>4. CASE m # n
      <4>1. Opened(n)' <=> n \in Upwards(file, u) /\ frame < n
        BY <1>5, <3>1, <3>2, <3>4, StepIn
      <4>2. Opened(n) <=> n \in Upwards(file, u) /\ frame < n
        <5>1. CASE at.how = "in"
          <6>1. k = u /\ at # Out(n, "normal")
            BY <3>1, <5>1, StepIn, PlaceFacts
          <6> QED BY <1>3, <6>1
        <5>2. CASE at.how # "in" /\ k = n
          <6>1. n \notin Upwards(file, u)
            BY <3>1, <5>2, StepIn
          <6> QED BY <1>3, <1>4, <5>2, <6>1
        <5>3. CASE at.how # "in" /\ k # n
          <6>1. Upwards(file, k) = {k} \cup Upwards(file, u)
            BY <3>1, <5>3, StepIn
          <6>2. at # Out(n, "normal")
            BY <5>3, PlaceFacts
          <6> QED BY <1>3, <5>3, <6>1, <6>2
        <5> QED BY <5>1, <5>2, <5>3
      <4> QED BY <3>2, <3>4, <4>1, <4>2 DEF Once
    <3> QED BY <3>3, <3>4
  <2>2. CASE at'.how # "in"
    <3> DEFINE m == at'.node
               h == at'.how
    <3>1. at' = Out(m, h) /\ m \in DOMAIN file /\ at' # In(n)
      BY <2>2, StepOut, PlaceFacts
    <3>2. CASE m = n
      <4>1. h = "normal"
        BY <2>2, <3>2, StepOut
      <4>2. Passing(n)' /\ ~Opened(n)'
        BY <1>5, <2>0, <3>1, <3>2, <4>1
      <4>3. Opened(n)
        <5>1. n \in Upwards(file, k) /\ frame \in Upwards(file, n)
          BY <2>2, <3>2, StepOut
        <5>2. frame < n
          BY <1>1, <1>2, <5>1, UpwardsFacts
        <5>3. at # Out(n, "normal")
          <6>1. at.how = "in" => at # Out(n, "normal")
            BY PlaceFacts
          <6>2. at.how # "in" => k # n
            BY <1>1, <2>2, <3>2, StepOut, UpwardsFacts
          <6> QED BY <6>1, <6>2, PlaceFacts
        <5> QED BY <1>3, <5>1, <5>2, <5>3
      <4> QED BY <3>1, <4>2, <4>3 DEF Once
    <3>3. CASE m # n
      <4>1. at' # Out(n, "normal")
        BY <3>1, <3>3, PlaceFacts
      <4>2. ~Passing(n)' /\ (Opened(n)' <=> Below1(m))
        BY <1>5, <2>0, <4>1
      <4>3. Opened(n) <=> Below1(m)
        <5>1. CASE at.how = "in"
          <6>1. k = m /\ at # Out(n, "normal")
            BY <2>2, <5>1, StepOut, PlaceFacts
          <6> QED BY <1>3, <6>1
        <5>2. CASE at.how # "in" /\ k = n
          <6>1. n \notin Upwards(file, m)
            BY <2>2, <5>2, StepOut
          <6> QED BY <1>3, <1>4, <5>2, <6>1
        <5>3. CASE at.how # "in" /\ k # n
          <6>1. Upwards(file, k) = {k} \cup Upwards(file, m)
            BY <2>2, <5>3, StepOut
          <6>2. at # Out(n, "normal")
            BY <5>3, PlaceFacts
          <6> QED BY <1>3, <5>3, <6>1, <6>2
        <5> QED BY <5>1, <5>2, <5>3
      <4> QED BY <3>1, <4>2, <4>3 DEF Once
    <3> QED BY <3>2, <3>3
  <2> QED BY <2>1, <2>2
<1>7. /\ seen'.past[n] = seen.past[n] + Once(Passing(n)')
      /\ seen'.in[n] = seen.in[n] + Once(at' = In(n))
      /\ seen.past[n] \in Nat /\ seen.in[n] \in Nat
  <2>1. seen'.in[n] = seen.in[n] + Once(at' = In(n) /\ file[n].kind # "Function")
    BY MovedFacts
  <2> QED BY <1>2, <2>1, MovedFacts DEF Once
<1>8. seen.past[n] + Once(Opened(n)) = seen.in[n]
  BY DEF CalmRun
<1>9. Once(Passing(n)') \in Nat /\ Once(Opened(n)') \in Nat /\ Once(Opened(n)) \in Nat /\ Once(at' = In(n)) \in Nat
  BY DEF Once
<1> QED BY <1>6, <1>7, <1>8, <1>9

LEMMA StepHow ==
  ASSUME NEW s, Moved(s)
  PROVE  at'.how # "in" \/ \E m : at' = In(m)
<1>1. Stepping(s) /\ at' = s.to
  BY DEF Moved
<1> QED BY <1>1, StepMoves DEF Moving, Stepping, Out, In

LEMMA ControlKept ==
  ASSUME NEW s, Moved(s)
  PROVE  Control'
<1>1. /\ Stepping(s) /\ Tree(file) /\ Control /\ InCall /\ frame' = frame /\ file' = file
      /\ outcome' = IF s.test = 0 THEN outcome ELSE [outcome EXCEPT ![s.test] = {s.outcome}]
      /\ DOMAIN outcome = DOMAIN file
  BY MovedFacts DEF Moved, Stepping, CallInv
<1> DEFINE k == at.node
<1>2. ASSUME NEW m, at' = In(m) PROVE Control'
  <2> DEFINE u == file[m].up
  <2>1. /\ m \in DOMAIN file /\ u \in DOMAIN file /\ file[u].kind # "Function"
        /\ u \in Upwards(file, k) /\ Upwards(file, m) = {m} \cup Upwards(file, u)
        /\ frame \in Nat /\ frame < m /\ k \in DOMAIN file
        /\ file[m].slot = "finalizer" => s.test = u /\ s.outcome # "in"
        /\ at.how = "in" => at = In(u)
        /\ at.how # "in" => file[k].up = u /\ k \notin Upwards(file, u)
    BY <1>2, StepIn
  <2>2. at'.node = m /\ at'.how = "in"
    BY <1>2, PlaceFacts
  <2>3. Upwards(file, u) \subseteq Upwards(file, k) /\ Upwards(file, u) \subseteq DOMAIN file /\ \A j \in Upwards(file, u) : j <= u
    BY <1>1, <2>1, UpwardsFacts
  <2>4. ASSUME NEW f \in Upwards(file, m), file[f].kind = "Function", frame < f PROVE f = m
    <3> SUFFICES ASSUME f \in Upwards(file, u) PROVE FALSE
      BY <2>1
    <3>1. f = k
      BY <1>1, <2>3, <2>4 DEF Control
    <3>2. CASE at.how = "in"
      <4>1. k = u
        BY <2>1, <3>2, PlaceFacts
      <4> QED BY <2>1, <2>4, <3>1, <4>1
    <3>3. CASE at.how # "in"
      BY <2>1, <3>1, <3>3
    <3> QED BY <3>2, <3>3
  <2>5. ASSUME NEW n \in Upwards(file, m), frame < n, file[n].slot = "finalizer" PROVE Only(outcome'[file[n].up]) # "in"
    <3>1. CASE n = m
      <4>1. s.test = u /\ s.outcome # "in" /\ u # 0
        BY <1>1, <2>1, <2>5, <3>1, TreeFacts
      <4>2. outcome'[u] = {s.outcome}
        BY <1>1, <2>1, <4>1
      <4>3. Only({s.outcome}) = s.outcome
        BY DEF Only
      <4> QED BY <3>1, <4>1, <4>2, <4>3
    <3>2. CASE n # m
      <4>1. n \in Upwards(file, u) /\ n \in Upwards(file, k)
        BY <2>1, <2>3, <3>2
      <4>2. Only(outcome[file[n].up]) # "in"
        BY <1>1, <2>5, <4>1 DEF Control
      <4>3. s.test \in {0, u}
        <5>1. CASE at.how = "in"
          <6>1. k = u /\ s \in Enters(file, k)
            BY <1>1, <2>1, <5>1, StepWay, PlaceFacts
          <6>2. Moving(file, k, k, s)
            BY <1>1, <2>1, <6>1, StepWay, EntersFacts
          <6> QED BY <6>1, <6>2 DEF Moving
        <5>2. CASE at.how # "in"
          <6>1. Moving(file, k, u, s)
            BY <1>1, <2>1, <5>2, StepWay, LeavesFacts
          <6> QED BY <6>1 DEF Moving
        <5> QED BY <5>1, <5>2
      <4>4. file[n].up # u
        <5>1. n \in DOMAIN file /\ n <= u
          BY <2>3, <4>1
        <5>2. n \in Nat /\ file[n].up \in 0..(n - 1)
          BY <1>1, <5>1, TreeFacts
        <5>3. u \in Nat /\ u # 0
          BY <1>1, <2>1, TreeFacts
        <5> QED BY <5>1, <5>2, <5>3
      <4>5. outcome'[file[n].up] = outcome[file[n].up]
        BY <1>1, <4>3, <4>4
      <4> QED BY <4>2, <4>5
    <3> QED BY <3>1, <3>2
  <2>6. at' # In(frame)
    BY <1>2, <2>1, PlaceFacts
  <2> QED BY <1>1, <2>2, <2>4, <2>5, <2>6 DEF Control
<1>3. ASSUME at'.how # "in" PROVE Control'
  <2> DEFINE m == at'.node
  <2>1. /\ at' = Out(m, at'.how) /\ m \in DOMAIN file /\ k \in DOMAIN file /\ m \in Upwards(file, k) /\ frame \in Nat
        /\ at'.how \notin {"in", "normal"} => ~Calm(file, m)
        /\ file[m].kind = "Function" /\ at'.how # "normal" => m = frame
        /\ at.how = "in" => at = In(m)
        /\ at.how # "in" => file[k].up = m /\ k \notin Upwards(file, m)
    BY <1>3, StepOut
  <2>2. Upwards(file, m) \subseteq Upwards(file, k) /\ Upwards(file, m) \subseteq DOMAIN file /\ \A j \in Upwards(file, m) : j <= m
    BY <1>1, <2>1, UpwardsFacts
  <2>3. ASSUME NEW f \in Upwards(file, m), file[f].kind = "Function", frame < f PROVE f = m
    <3>1. f = k
      BY <1>1, <2>2, <2>3 DEF Control
    <3>2. at.how = "in" => k = m
      BY <2>1, PlaceFacts
    <3> QED BY <2>1, <2>3, <3>1, <3>2
  <2>4. ASSUME NEW n \in Upwards(file, m), frame < n, file[n].slot = "finalizer" PROVE Only(outcome'[file[n].up]) # "in"
    <3>1. Only(outcome[file[n].up]) # "in"
      BY <1>1, <2>2, <2>4 DEF Control
    <3>2. s.test \in {0, m}
      <4>1. CASE at.how = "in"
        <5>1. k = m /\ s \in Enters(file, k)
          BY <1>1, <2>1, <4>1, StepWay, PlaceFacts
        <5>2. Moving(file, k, k, s)
          BY <1>1, <2>1, <5>1, StepWay, EntersFacts
        <5> QED BY <5>1, <5>2 DEF Moving
      <4>2. CASE at.how # "in"
        <5>1. Moving(file, k, m, s)
          BY <1>1, <2>1, <4>2, StepWay, LeavesFacts
        <5> QED BY <5>1 DEF Moving
      <4> QED BY <4>1, <4>2
    <3>3. file[n].up # m
      <4>1. n \in DOMAIN file /\ n <= m
        BY <2>2, <2>4
      <4>2. n \in Nat /\ m \in Nat /\ (file[n].up = 0 \/ file[n].up < n) /\ m # 0
        BY <1>1, <2>1, <4>1, TreeFacts
      <4> QED BY <4>1, <4>2
    <3>4. outcome'[file[n].up] = outcome[file[n].up]
      BY <1>1, <3>2, <3>3
    <3> QED BY <3>1, <3>4
  <2>5. at' # In(frame)
    BY <2>1, <1>3, PlaceFacts
  <2> QED BY <1>1, <1>3, <2>1, <2>3, <2>4, <2>5 DEF Control
<1> QED BY <1>2, <1>3, StepHow

LEMMA OpensKept ==
  ASSUME NEW s, Moved(s), Opens
  PROVE  Opens'
<1>1. /\ Stepping(s) /\ Tree(file) /\ InCall /\ file' = file /\ at' = s.to /\ defined' = Defining(s.to)
      /\ OpenTo(at.node)
  BY MovedFacts DEF Moved, Stepping, Opens
<1> DEFINE OpenThen(n) == \A f \in Upwards(file, n) : file[f].kind = "Function" => f \in defined'
<1>2. defined \subseteq defined' /\ \A n : n \in defined' => n \in defined \/ (at' = In(n) /\ n = at'.node)
  <2>1. at'.how = "in" => at' = In(at'.node)
    BY StepHow, PlaceFacts
  <2> QED BY <1>1, <2>1 DEF Defining
<1>3. OpenThen(at'.node)
  <2>1. CASE at'.how # "in"
    <3>1. at'.node \in Upwards(file, at.node) /\ at.node \in DOMAIN file
      BY <2>1, StepOut
    <3>2. Upwards(file, at'.node) \subseteq Upwards(file, at.node)
      BY <1>1, <3>1, UpwardsFacts
    <3> QED BY <1>1, <1>2, <3>2 DEF OpenTo
  <2>2. ASSUME NEW m, at' = In(m) PROVE OpenThen(at'.node)
    <3> DEFINE u == file[m].up
    <3>1. u \in Upwards(file, at.node) /\ at.node \in DOMAIN file /\ Upwards(file, m) = {m} \cup Upwards(file, u)
      BY <2>2, StepIn
    <3>2. Upwards(file, u) \subseteq Upwards(file, at.node)
      BY <1>1, <3>1, UpwardsFacts
    <3>3. at'.node = m
      BY <2>2, PlaceFacts
    <3>4. file[m].kind = "Function" => m \in defined'
      BY <1>1, <2>2, PlaceFacts DEF Defining
    <3> QED BY <1>1, <1>2, <3>1, <3>2, <3>3, <3>4 DEF OpenTo
  <2> QED BY <2>1, <2>2, StepHow
<1>4. ASSUME NEW n \in DOMAIN file, seen'.in[n] # 0 \/ seen'.past[n] # 0 \/ n \in defined' PROVE OpenThen(n)
  <2>1. CASE n = at'.node
    BY <1>3, <2>1
  <2>2. CASE n # at'.node
    <3>1. n \in defined' => n \in defined
      BY <1>2, <2>2
    <3>2. at' # In(n) /\ ~Passing(n)'
      BY <2>2, PlaceFacts DEF Passing
    <3>3. seen'.in[n] = seen.in[n] /\ seen'.past[n] = seen.past[n]
      BY <3>2, MovedFacts DEF Once
    <3>4. OpenTo(n)
      BY <1>4, <3>1, <3>3 DEF Opens
    <3> QED BY <1>1, <1>2, <3>4 DEF OpenTo
  <2> QED BY <2>1, <2>2
<1> QED BY <1>1, <1>3, <1>4 DEF Opens, OpenTo

LEMMA StepFlow ==
  ASSUME file \in Files, CallInv, SeenInv, FlowInv, Step
  PROVE  FlowInv'
<1>1. PICK s \in Moves :
        /\ at' = s.to /\ seen' = Counts(s.to)
        /\ outcome' = IF s.test = 0 THEN outcome ELSE [outcome EXCEPT ![s.test] = {s.outcome}]
        /\ defined' = Defining(s.to)
  BY DEF Step
<1>2. Moved(s)
  BY <1>1 DEF Moved, Stepping, FlowInv, Step
<1>3. file' = file /\ frame' = frame
  BY DEF Step
<1>4. Control' /\ Opens'
  BY <1>2, ControlKept, OpensKept DEF FlowInv
<1>5. \A n \in DOMAIN file : CalmRun(n)'
  BY <1>2, CalmRunKept DEF FlowInv
<1>6. \A n \in DOMAIN file : n # 1 => FirstRun(n)' /\ BodyRun(n)' /\ NextRun(n)' /\ LastRun(n)'
  BY <1>2, FirstRunKept, BodyRunKept, NextRunKept, LastRunKept DEF FlowInv
<1> QED BY <1>3, <1>4, <1>5, <1>6 DEF FlowInv

(* What is counted when control is nowhere.                                *)
Settled(n) ==
  LET up == file[n].up
      visits(m) == IF file[m].kind = "Function" THEN seen.past[m] ELSE seen.in[m]
  IN
  /\ Calm(file, n) => seen.past[n] = seen.in[n]
  /\ n # 1 =>
       /\ First(file, n) => seen.in[up] <= visits(n) /\ (file[up].kind \notin Loops => seen.in[up] = visits(n))
       /\ file[n].slot = "body" /\ file[up].kind = "Function" => visits(n) = seen.in[up]
       /\ file[up].kind \in Lists /\ Next1(file, n) # {} => visits(Min(Next1(file, n))) = seen.past[n]
       /\ file[up].kind = "Block" /\ Next1(file, n) = {} => seen.past[up] = seen.past[n]

Flowing(n) == CalmRun(n) /\ (n # 1 => FirstRun(n) /\ BodyRun(n) /\ NextRun(n) /\ LastRun(n))

LEMMA SettledFacts ==
  ASSUME file \in Files, SeenInv, ~InCall, NEW n \in DOMAIN file
  PROVE  Flowing(n) <=> Settled(n)
<1>1. Tree(file)
  BY FileFacts
<1>2. \A m \in DOMAIN file : /\ at # In(m) /\ at # Out(m, "normal")
                             /\ seen.in[m] \in Nat /\ seen.past[m] \in Nat
  <2> SUFFICES ASSUME NEW m \in DOMAIN file
               PROVE  at # In(m) /\ at # Out(m, "normal") /\ seen.in[m] \in Nat /\ seen.past[m] \in Nat
    OBVIOUS
  <2>1. at = Exited \/ at = Idle
    BY DEF InCall
  <2>2. m # 0
    BY <1>1, TreeFacts
  <2> QED BY <2>1, <2>2, IdleFacts, PlaceFacts DEF SeenInv
<1> DEFINE visits(m) == IF file[m].kind = "Function" THEN seen.past[m] ELSE seen.in[m]
<1>3. \A m \in DOMAIN file : Visits(m) = visits(m) /\ Once(Passing(m)) = 0 /\ Once(Opened(m)) = 0 /\ Once(at = In(m)) = 0
  BY <1>2 DEF Visits, Passing, Opened, Once
<1>4. n # 1 => file[n].up \in DOMAIN file
  BY <1>1, TreeFacts
<1>5. Next1(file, n) # {} => Min(Next1(file, n)) \in DOMAIN file
  <2>1. Next1(file, n) \in SUBSET DOMAIN file
    BY DEF Next1, Below
  <2> QED BY <1>1, <2>1, SomeNodes, MinFacts
<1>6. \A m \in DOMAIN file : visits(m) \in Nat
  BY <1>2
<1>7. CalmRun(n) <=> (Calm(file, n) => seen.past[n] = seen.in[n])
  BY <1>2, <1>3 DEF CalmRun
<1> HIDE DEF visits
<1>8. ASSUME n # 1
      PROVE  /\ FirstRun(n) <=> (First(file, n) => seen.in[file[n].up] <= visits(n) /\ (file[file[n].up].kind \notin Loops => seen.in[file[n].up] = visits(n)))
             /\ BodyRun(n) <=> (file[n].slot = "body" /\ file[file[n].up].kind = "Function" => visits(n) = seen.in[file[n].up])
             /\ LastRun(n) <=> (file[file[n].up].kind = "Block" /\ Next1(file, n) = {} => seen.past[file[n].up] = seen.past[n])
  <2>1. FirstRun(n) <=> (First(file, n) => seen.in[file[n].up] <= visits(n) /\ (file[file[n].up].kind \notin Loops => seen.in[file[n].up] = visits(n)))
    BY <1>2, <1>3, <1>4, <1>6, <1>8 DEF FirstRun
  <2>2. BodyRun(n) <=> (file[n].slot = "body" /\ file[file[n].up].kind = "Function" => visits(n) = seen.in[file[n].up])
    BY <1>3, <1>4, <1>8 DEF BodyRun
  <2>3. LastRun(n) <=> (file[file[n].up].kind = "Block" /\ Next1(file, n) = {} => seen.past[file[n].up] = seen.past[n])
    BY <1>2, <1>3, <1>4, <1>8 DEF LastRun
  <2> QED BY <2>1, <2>2, <2>3
<1>9. NextRun(n) <=> (file[file[n].up].kind \in Lists /\ Next1(file, n) # {} => visits(Min(Next1(file, n))) = seen.past[n])
  <2> DEFINE m == Min(Next1(file, n))
  <2> HIDE DEF m
  <2>1. Next1(file, n) # {} => Visits(m) = visits(m) /\ visits(m) \in Nat
    BY <1>3, <1>5, <1>6 DEF m
  <2>2. NextRun(n) <=> (file[file[n].up].kind \in Lists /\ Next1(file, n) # {} => Visits(m) + Once(Passing(n)) = seen.past[n])
    BY DEF NextRun, m
  <2>3. (file[file[n].up].kind \in Lists /\ Next1(file, n) # {} => visits(Min(Next1(file, n))) = seen.past[n])
         <=> (file[file[n].up].kind \in Lists /\ Next1(file, n) # {} => visits(m) = seen.past[n])
    BY DEF m
  <2> QED BY <1>2, <1>3, <2>1, <2>2, <2>3
<1>10. Settled(n) <=>
         /\ Calm(file, n) => seen.past[n] = seen.in[n]
         /\ n # 1 =>
              /\ First(file, n) => seen.in[file[n].up] <= visits(n) /\ (file[file[n].up].kind \notin Loops => seen.in[file[n].up] = visits(n))
              /\ file[n].slot = "body" /\ file[file[n].up].kind = "Function" => visits(n) = seen.in[file[n].up]
              /\ file[file[n].up].kind \in Lists /\ Next1(file, n) # {} => visits(Min(Next1(file, n))) = seen.past[n]
              /\ file[file[n].up].kind = "Block" /\ Next1(file, n) = {} => seen.past[file[n].up] = seen.past[n]
  BY DEF Settled, visits
<1> QED BY <1>7, <1>8, <1>9, <1>10 DEF Flowing

(* Where nothing has been counted.                                         *)
LEMMA NothingFlows ==
  file \in Files /\ seen = Nothing(file) /\ ~InCall => \A n \in DOMAIN file : Flowing(n)
<1> SUFFICES ASSUME file \in Files, seen = Nothing(file), ~InCall
             PROVE  \A n \in DOMAIN file : Flowing(n)
  OBVIOUS
<1>1. \A m \in DOMAIN file : seen.in[m] = 0 /\ seen.past[m] = 0
  BY DEF Nothing
<1>2. Tree(file)
  BY FileFacts
<1> SUFFICES ASSUME NEW n \in DOMAIN file PROVE Flowing(n)
  OBVIOUS
<1>3. \A m \in DOMAIN file : at # In(m) /\ at # Out(m, "normal")
  <2>1. at = Exited \/ at = Idle
    BY DEF InCall
  <2>2. \A m \in DOMAIN file : m # 0
    BY <1>2, TreeFacts
  <2> QED BY <2>1, <2>2, IdleFacts, PlaceFacts
<1>4. \A m \in DOMAIN file : Visits(m) = 0 /\ Once(Passing(m)) = 0 /\ Once(Opened(m)) = 0 /\ Once(at = In(m)) = 0
  BY <1>1, <1>3 DEF Visits, Passing, Opened, Once
<1>5. n # 1 => file[n].up \in DOMAIN file
  BY <1>2, TreeFacts
<1>6. Next1(file, n) # {} => Min(Next1(file, n)) \in DOMAIN file
  <2>1. Next1(file, n) \in SUBSET DOMAIN file
    BY DEF Next1, Below
  <2> QED BY <1>2, <2>1, SomeNodes, MinFacts
<1>7. CalmRun(n)
  BY <1>1, <1>4 DEF CalmRun
<1>8. n # 1 => FirstRun(n) /\ BodyRun(n) /\ LastRun(n)
  BY <1>1, <1>4, <1>5 DEF FirstRun, BodyRun, LastRun
<1>9. NextRun(n)
  <2> DEFINE m == Min(Next1(file, n))
  <2>1. Next1(file, n) # {} => Visits(m) = 0
    BY <1>4, <1>6
  <2> HIDE DEF m
  <2>2. Next1(file, n) # {} => Visits(m) + Once(Passing(n)) = seen.past[n]
    BY <1>1, <1>4, <2>1
  <2> QED BY <2>2 DEF NextRun, m
<1> QED BY <1>7, <1>8, <1>9 DEF Flowing

LEMMA FlowStarts ==
  ASSUME Init
  PROVE  FlowInv
<1>1. at = Exited /\ frame = 0 /\ defined = {} /\ seen = Nothing(file) /\ file \in Files
  BY DEF Init
<1>2. ~InCall
  BY <1>1 DEF InCall
<1>3. \A n \in DOMAIN file : seen.in[n] = 0 /\ seen.past[n] = 0
  BY <1>1 DEF Nothing
<1>4. Control /\ Opens
  BY <1>1, <1>2, <1>3 DEF Control, Opens
<1>5. \A n \in DOMAIN file : Flowing(n)
  BY <1>1, <1>2, NothingFlows
<1> QED BY <1>1, <1>4, <1>5 DEF FlowInv, Flowing

LEMMA ReturnFlow ==
  ASSUME file \in Files, CallInv, SeenInv, FlowInv, Return
  PROVE  FlowInv'
<1>1. /\ at' = Idle /\ at.how # "in" /\ at.node = frame /\ InCall
      /\ file' = file /\ outcome' = outcome /\ seen' = seen /\ defined' = defined /\ frame' = frame
  BY DEF Return, Ended
<1>2. Tree(file) /\ frame \in DOMAIN file /\ at = Out(frame, at.how)
  BY <1>1, FileFacts DEF CallInv
<1>3. ~InCall'
  BY <1>1 DEF InCall
<1>4. \A m \in DOMAIN file : /\ at # In(m) /\ ~Passing(m) /\ ~Opened(m)
                             /\ at' # In(m) /\ ~Passing(m)' /\ ~Opened(m)'
  <2> SUFFICES ASSUME NEW m \in DOMAIN file
               PROVE  /\ at # In(m) /\ ~Passing(m) /\ ~Opened(m)
                      /\ at' # In(m) /\ ~Passing(m)' /\ ~Opened(m)'
    OBVIOUS
  <2>1. at # In(m) /\ ~Passing(m)
    BY <1>1, <1>2, PlaceFacts DEF Passing
  <2>2. m \in Upwards(file, frame) => m <= frame
    BY <1>2, UpwardsFacts
  <2>3. ~Opened(m)
    <3>1. m \in Nat /\ frame \in Nat
      BY <1>2, TreeFacts
    <3> QED BY <1>1, <2>2, <3>1 DEF Opened
  <2>4. ~Opened(m)' /\ at' # In(m)
    BY <1>1, <1>3, IdleFacts DEF Opened
  <2>5. ~Passing(m)'
    <3>1. m # 0
      BY <1>2, TreeFacts
    <3> QED BY <1>1, <3>1, PlaceFacts DEF Passing, Idle
  <2> QED BY <2>1, <2>3, <2>4, <2>5
<1>5. Control' /\ Opens'
  BY <1>1, <1>3 DEF Control, Opens, OpenTo, FlowInv
<1>6. ASSUME NEW n \in DOMAIN file PROVE Flowing(n)'
  <2>1. Flowing(n)
    BY DEF FlowInv, Flowing
  <2>2. \A m \in DOMAIN file : /\ Visits(m)' = Visits(m) /\ Once(at' = In(m)) = Once(at = In(m))
                               /\ Once(Passing(m)') = Once(Passing(m)) /\ Once(Opened(m)') = Once(Opened(m))
    BY <1>1, <1>4 DEF Visits, Once, In
  <2>3. n # 1 => file[n].up \in DOMAIN file
    BY <1>2, TreeFacts
  <2>4. Next1(file, n) # {} => Min(Next1(file, n)) \in DOMAIN file
    <3>1. Next1(file, n) \in SUBSET DOMAIN file
      BY DEF Next1, Below
    <3> QED BY <1>2, <3>1, SomeNodes, MinFacts
  <2>5. CalmRun(n)'
    BY <1>1, <2>1, <2>2 DEF Flowing, CalmRun
  <2>6. ASSUME n # 1 PROVE FirstRun(n)' /\ BodyRun(n)' /\ LastRun(n)'
    <3>1. FirstRun(n)'
      BY <1>1, <2>1, <2>2, <2>3, <2>6 DEF Flowing, FirstRun, In
    <3>2. BodyRun(n)'
      BY <1>1, <2>1, <2>2, <2>3, <2>6 DEF Flowing, BodyRun
    <3>3. LastRun(n)'
      BY <1>1, <2>1, <2>2, <2>3, <2>6 DEF Flowing, LastRun, Next1, Below
    <3> QED BY <3>1, <3>2, <3>3
  <2>7. ASSUME n # 1 PROVE NextRun(n)'
    <3>1. Next1(file, n)' = Next1(file, n)
      BY <1>1 DEF Next1, Below
    <3>2. \A m : m = Min(Next1(file, n)) /\ Next1(file, n) # {} => Visits(m)' = Visits(m)
      BY <2>2, <2>4
    <3>3. Next1(file, n) # {} => Visits(Min(Next1(file, n)))' = Visits(Min(Next1(file, n)))
      BY <3>1, <3>2
    <3>4. Next1(file, n) = {} => NextRun(n)'
      BY <3>1 DEF NextRun
    <3>5. Next1(file, n) # {} => NextRun(n)'
      BY <1>1, <2>1, <2>2, <2>7, <3>1, <3>3 DEF Flowing, NextRun
    <3> QED BY <3>4, <3>5
  <2> QED BY <2>5, <2>6, <2>7 DEF Flowing
<1> QED BY <1>1, <1>5, <1>6 DEF FlowInv, Flowing

LEMMA DumpFlow ==
  ASSUME file \in Files, WriteDump
  PROVE  FlowInv'
<1>1. at' = Exited /\ frame' = 0 /\ defined' = {} /\ seen' = Nothing(file)' /\ file' = file
  BY DEF WriteDump, Nothing
<1>2. ~InCall'
  BY <1>1 DEF InCall
<1>3. \A n \in DOMAIN file' : seen'.in[n] = 0 /\ seen'.past[n] = 0
  BY <1>1 DEF Nothing
<1>4. Control' /\ Opens'
  BY <1>1, <1>2, <1>3 DEF Control, Opens
<1>5. (file \in Files /\ seen = Nothing(file) /\ ~InCall => \A n \in DOMAIN file : Flowing(n))'
  BY NothingFlows, PTL
<1>6. (\A n \in DOMAIN file : Flowing(n))'
  BY <1>1, <1>2, <1>5
<1> QED BY <1>1, <1>4, <1>6 DEF FlowInv, Flowing

LEMMA OnlyBody ==
  ASSUME NEW p, Tree(p), Grammar(p), Shape(p), NEW f \in DOMAIN p, p[f].kind = "Function"
  PROVE  \E b \in Below(p, f) : /\ b = Only(At(p, f, {"body"})) /\ p[b].slot = "body"
                                /\ \A c \in Below(p, f) : p[c].slot = "body" => c = b
<1> DEFINE b == Only(At(p, f, {"body"}))
<1>1. At(p, f, {"body"}) # {}
  BY DEF Grammar
<1>2. b \in At(p, f, {"body"})
  BY <1>1 DEF Only
<1>3. b \in Below(p, f) /\ p[b].slot = "body"
  BY <1>2 DEF At
<1> HIDE DEF b
<1>4. ASSUME NEW c \in Below(p, f), p[c].slot = "body" PROVE c = b
  <2>1. \A m \in Below(p, f) : m \in 2..Len(p) /\ p[m].up = f /\ m \in Nat
    <3> SUFFICES ASSUME NEW m \in Below(p, f) PROVE m \in 2..Len(p) /\ p[m].up = f /\ m \in Nat
      OBVIOUS
    <3>1. m \in DOMAIN p /\ p[m].up = f /\ m # 1
      BY PartFacts
    <3> QED BY <3>1, TreeFacts
  <2>2. Place("body") = 2
    BY DEF Place
  <2>3. ASSUME NEW k \in Below(p, f), NEW m \in Below(p, f), p[k].slot = "body", p[m].slot = "body", k < m PROVE FALSE
    <3>1. m \in Next1(p, k) /\ k \in 2..Len(p)
      BY <2>1, <2>3 DEF Next1
    <3>2. Place(p[k].slot) < Place(p[m].slot) \/ Place(p[k].slot) = 0
      BY <3>1 DEF Shape
    <3> QED BY <2>2, <2>3, <3>2
  <2>4. c \in Nat /\ b \in Nat /\ ~(c < b) /\ ~(b < c)
    BY <1>3, <1>4, <2>1, <2>3
  <2> QED BY <2>4
<1> QED BY <1>3, <1>4 DEF b

LEMMA StartFlow ==
  ASSUME file \in Files, SeenInv', Start
  PROVE  FlowInv'
<1>1. /\ at' = In(1) /\ frame' = 1 /\ defined' = {} /\ file' = file
      /\ seen' = [Nothing(file) EXCEPT !.in = Added(Nothing(file).in, 1)]
  BY DEF Start
<1>2. /\ Tree(file) /\ 1 \in DOMAIN file /\ file[1].kind = "Program" /\ at'.node = 1 /\ at'.how = "in"
      /\ Upwards(file, 1) = {1}
  BY <1>1, FileFacts, UpwardsDefined, TreeFacts, PlaceFacts
<1>3. \A n \in DOMAIN file : seen'.past[n] = 0 /\ seen'.in[n] = IF n = 1 THEN 1 ELSE 0
  BY <1>1, <1>2 DEF Nothing, Added
<1>4. \A n : at' # Out(n, "normal") /\ (at' = In(n) <=> n = 1)
  BY <1>1, PlaceFacts
<1>5. \A n \in DOMAIN file : /\ Visits(n)' = Once(n = 1) /\ ~Passing(n)' /\ (n # 1 => ~Opened(n)')
  <2> SUFFICES ASSUME NEW n \in DOMAIN file
               PROVE  Visits(n)' = Once(n = 1) /\ ~Passing(n)' /\ (n # 1 => ~Opened(n)')
    OBVIOUS
  <2>1. at' = In(n) <=> n = 1
    BY <1>4
  <2>2. Visits(n)' = Once(n = 1)
    <3>1. CASE n = 1
      <4>1. Visits(n)' = seen'.in[n]
        BY <1>1, <1>2, <3>1 DEF Visits
      <4> QED BY <1>3, <3>1, <4>1 DEF Once
    <3>2. CASE n # 1
      <4>1. Visits(n)' = IF file[n].kind = "Function" THEN seen'.past[n] + 0 ELSE seen'.in[n]
        BY <1>1, <2>1, <3>2 DEF Visits, Once, In
      <4> QED BY <1>3, <3>2, <4>1 DEF Once
    <3> QED BY <3>1, <3>2
  <2> QED BY <1>1, <1>2, <1>4, <2>2 DEF Passing, Opened
<1>6. Control'
  BY <1>1, <1>2 DEF Control
<1>7. Opens'
  <2>1. \A n \in Upwards(file, 1) : file[n].kind # "Function"
    BY <1>2
  <2>2. \A n \in DOMAIN file : seen'.in[n] # 0 \/ seen'.past[n] # 0 \/ n \in defined' => n = 1
    BY <1>1, <1>3
  <2> QED BY <1>1, <1>2, <2>1, <2>2 DEF Opens, OpenTo
<1>8. ASSUME NEW n \in DOMAIN file PROVE CalmRun(n)' /\ (n # 1 => FirstRun(n)' /\ BodyRun(n)' /\ NextRun(n)' /\ LastRun(n)')
  <2>1. CalmRun(n)'
    <3>1. Calm(file, n) => n # 1
      BY <1>2 DEF Calm
    <3> QED BY <1>1, <1>3, <1>5, <3>1 DEF CalmRun, Once
  <2> SUFFICES ASSUME n # 1 PROVE FirstRun(n)' /\ BodyRun(n)' /\ NextRun(n)' /\ LastRun(n)'
    BY <2>1
  <2> DEFINE u == file[n].up
  <2>2. u \in DOMAIN file /\ Visits(n)' = 0 /\ Once(Passing(n)') = 0
    BY <1>2, <1>5, TreeFacts DEF Once
  <2>3. FirstRun(n)'
    <3>1. seen'.in[u] = Once(at' = In(u))
      BY <1>3, <1>4, <2>2 DEF Once
    <3>2. Once(at' = In(u)) \in Nat
      BY DEF Once
    <3> QED BY <1>1, <2>2, <3>1, <3>2 DEF FirstRun, In
  <2>4. BodyRun(n)'
    <3>1. file[u].kind = "Function" => seen'.in[u] = 0
      BY <1>2, <1>3, <2>2
    <3> QED BY <1>1, <2>2, <3>1 DEF BodyRun
  <2>5. NextRun(n)'
    <3>1. Next1(file, n)' = Next1(file, n)
      BY <1>1 DEF Next1, Below
    <3>2. Next1(file, n) # {} => Min(Next1(file, n)) \in DOMAIN file /\ Min(Next1(file, n)) # 1
      <4>1. Next1(file, n) \in SUBSET DOMAIN file
        BY DEF Next1, Below
      <4>2. \A m \in Next1(file, n) : n < m
        BY DEF Next1
      <4>3. n \in Nat /\ 1 <= n
        BY <1>2, TreeFacts
      <4> QED BY <1>2, <4>1, <4>2, <4>3, SomeNodes, MinFacts
    <3>3. \A m : m = Min(Next1(file, n)) /\ Next1(file, n) # {} => Visits(m)' = 0
      BY <1>5, <3>2 DEF Once
    <3>4. Next1(file, n) # {} => Visits(Min(Next1(file, n)))' = 0
      BY <3>1, <3>3
    <3> QED BY <1>1, <1>3, <2>2, <3>1, <3>4 DEF NextRun
  <2>6. LastRun(n)'
    BY <1>1, <1>3, <2>2 DEF LastRun
  <2> QED BY <2>3, <2>4, <2>5, <2>6
<1> QED BY <1>1, <1>6, <1>7, <1>8 DEF FlowInv

LEMMA CallFlow ==
  ASSUME file \in Files, CallInv, SeenInv, FlowInv, CallFunction
  PROVE  FlowInv'
<1>1. PICK f \in defined :
        /\ at' = In(Only(At(file, f, {"body"}))) /\ frame' = f
        /\ seen' = [Counts(at') EXCEPT !.in = Added(Counts(at').in, f)]
  BY DEF CallFunction
<1>2. at = Idle /\ file' = file /\ defined' = Defining(at')
  BY DEF CallFunction
<1>3. Tree(file) /\ Grammar(file) /\ Shape(file) /\ f \in DOMAIN file /\ file[f].kind = "Function"
  BY CoverageAssumption DEF CallInv, Kinds, CoverageAssumption
<1>4. PICK b \in Below(file, f) :
        /\ at' = In(b) /\ file[b].slot = "body" /\ \A c \in Below(file, f) : file[c].slot = "body" => c = b
  BY <1>1, <1>3, OnlyBody
<1>5. /\ b \in DOMAIN file /\ file[b].up = f /\ Upwards(file, b) = {b} \cup Upwards(file, f) /\ b # f /\ f < b
      /\ f \in Nat /\ \A n \in Upwards(file, f) : n \in Nat /\ n <= f
  <2>1. b \in DOMAIN file /\ file[b].up = f /\ Upwards(file, b) = {b} \cup Upwards(file, f) /\ b # f /\ f < b
    BY <1>3, PartFacts
  <2>2. f \in Nat /\ \A n \in Upwards(file, f) : n \in DOMAIN file /\ n <= f
    BY <1>3, TreeFacts, UpwardsFacts
  <2> QED BY <1>3, <2>1, <2>2, TreeFacts
<1>6. at'.node = b /\ at'.how = "in" /\ \A n : at' # Out(n, "normal") /\ (at' = In(n) <=> n = b)
  BY <1>4, PlaceFacts
<1>7. ~InCall /\ \A n \in DOMAIN file : at # In(n) /\ at # Out(n, "normal") /\ seen.in[n] \in Nat /\ seen.past[n] \in Nat
  <2>1. \A n \in DOMAIN file : n # 0
    BY <1>3, TreeFacts
  <2> QED BY <1>2, <2>1, IdleFacts, PlaceFacts DEF InCall, Idle, SeenInv
<1>8. \A n \in DOMAIN file :
        /\ seen'.past[n] = seen.past[n]
        /\ seen'.in[n] = seen.in[n] + Once(n = f) + Once(n = b /\ file[b].kind # "Function")
  <2> DEFINE c == Counts(at')
  <2>1. seen \in [in : [DOMAIN file -> Nat], past : [DOMAIN file -> Nat]]
    BY DEF SeenInv
  <2>2. /\ c.past = seen.past /\ c.in \in [DOMAIN file -> Nat] /\ DOMAIN c = {"in", "past"}
        /\ \A n \in DOMAIN file : c.in[n] = seen.in[n] + Once(n = b /\ file[b].kind # "Function")
    <3>1. CASE file[b].kind = "Function"
      <4>1. c = seen
        BY <1>6, <3>1 DEF Counts
      <4> QED BY <1>7, <2>1, <3>1, <4>1 DEF Once
    <3>2. CASE file[b].kind # "Function"
      <4>1. b # frame
        <5>1. frame \in {0, 1} \/ file[frame].kind = "Function"
          BY DEF FlowInv, Kinds
        <5>2. b # 0 /\ b # 1
          BY <1>3, PartFacts, TreeFacts
        <5> QED BY <3>2, <5>1, <5>2
      <4>2. c = [seen EXCEPT !.in = Added(seen.in, b)]
        BY <1>6, <3>2, <4>1 DEF Counts
      <4>3. c.past = seen.past /\ c.in = Added(seen.in, b) /\ DOMAIN c = {"in", "past"}
        BY <2>1, <4>2
      <4>4. Added(seen.in, b) \in [DOMAIN file -> Nat] /\ \A n \in DOMAIN file : Added(seen.in, b)[n] = IF n = b THEN seen.in[n] + 1 ELSE seen.in[n]
        BY <1>5, <2>1 DEF Added
      <4> HIDE DEF c
      <4> QED BY <1>7, <3>2, <4>3, <4>4 DEF Once
    <3> QED BY <3>1, <3>2
  <2>3. seen' = [c EXCEPT !.in = Added(c.in, f)]
    BY <1>1
  <2> HIDE DEF c
  <2>4. seen'.past = c.past /\ seen'.in = Added(c.in, f)
    BY <2>2, <2>3
  <2>5. \A n \in DOMAIN file : Added(c.in, f)[n] = IF n = f THEN c.in[n] + 1 ELSE c.in[n]
    BY <1>3, <2>2 DEF Added
  <2> SUFFICES ASSUME NEW n \in DOMAIN file
               PROVE  /\ seen'.past[n] = seen.past[n]
                      /\ seen'.in[n] = seen.in[n] + Once(n = f) + Once(n = b /\ file[b].kind # "Function")
    OBVIOUS
  <2>6. c.in[n] = seen.in[n] + Once(n = b /\ file[b].kind # "Function") /\ seen.in[n] \in Nat
    BY <1>7, <2>2
  <2>7. seen'.in[n] = IF n = f THEN c.in[n] + 1 ELSE c.in[n]
    BY <2>4, <2>5
  <2>8. seen'.past[n] = seen.past[n]
    BY <2>2, <2>4
  <2> QED BY <2>6, <2>7, <2>8 DEF Once
<1>9. \A n \in DOMAIN file : /\ ~Passing(n) /\ ~Opened(n) /\ ~Passing(n)' /\ (Opened(n)' <=> n = b)
                             /\ Visits(n) = IF file[n].kind = "Function" THEN seen.past[n] ELSE seen.in[n]
  <2> SUFFICES ASSUME NEW n \in DOMAIN file
               PROVE  /\ ~Passing(n) /\ ~Opened(n) /\ ~Passing(n)' /\ (Opened(n)' <=> n = b)
                      /\ Visits(n) = IF file[n].kind = "Function" THEN seen.past[n] ELSE seen.in[n]
    OBVIOUS
  <2>1. ~Passing(n) /\ ~Opened(n) /\ ~Passing(n)'
    BY <1>6, <1>7 DEF Passing, Opened
  <2>2. InCall' /\ n \in Nat
    <3>1. b # 0 /\ n \in Nat
      BY <1>3, <1>5, TreeFacts
    <3> QED BY <1>6, <3>1, PlaceFacts DEF InCall, Exited, Idle
  <2>3. Opened(n)' <=> n \in Upwards(file, b) /\ f < n
    BY <1>1, <1>2, <1>6, <2>2 DEF Opened
  <2>4. n \in Upwards(file, b) /\ f < n <=> n = b
    BY <1>5, <2>2
  <2>5. Visits(n) = IF file[n].kind = "Function" THEN seen.past[n] ELSE seen.in[n]
    BY <1>7 DEF Visits, Once
  <2> QED BY <2>1, <2>3, <2>4, <2>5
<1>10. \A n \in DOMAIN file :
         Visits(n)' = Visits(n) + Once(n = b)
  <2> SUFFICES ASSUME NEW n \in DOMAIN file
               PROVE  Visits(n)' = Visits(n) + Once(n = b)
    OBVIOUS
  <2>1. CASE file[n].kind = "Function"
    <3>1. Visits(n)' = seen'.past[n] + Once(at' = In(n))
      BY <1>2, <2>1 DEF Visits, Once, In
    <3> QED BY <1>6, <1>8, <1>9, <2>1, <3>1 DEF Once
  <2>2. CASE file[n].kind # "Function"
    <3>1. Visits(n)' = seen'.in[n] /\ n # f
      BY <1>2, <1>3, <2>2 DEF Visits
    <3>2. n = b /\ file[b].kind # "Function" <=> n = b
      BY <2>2
    <3>3. Visits(n) = seen.in[n] /\ seen.in[n] \in Nat
      BY <1>7, <1>9, <2>2
    <3>4. seen'.in[n] = seen.in[n] + Once(n = f) + Once(n = b)
      BY <1>8, <3>2 DEF Once
    <3> QED BY <3>1, <3>3, <3>4 DEF Once
  <2> QED BY <2>1, <2>2
<1>11. \A n \in DOMAIN file : Visits(n) \in Nat /\ seen.in[n] \in Nat /\ seen.past[n] \in Nat
  BY <1>7, <1>9
<1>12. Control'
  <2>1. \A n \in Upwards(file, b) : f < n => n = b
    BY <1>5
  <2>2. at' # In(f)
    BY <1>5, <1>6
  <2> QED BY <1>1, <1>2, <1>4, <1>6, <2>1, <2>2 DEF Control
<1>13. Opens'
  <2> DEFINE OpenThen(n) == \A g \in Upwards(file, n) : file[g].kind = "Function" => g \in defined'
  <2>1. defined \subseteq defined' /\ \A n : n \in defined' => n \in defined \/ n = b
    BY <1>2, <1>6 DEF Defining
  <2>2. \A n : OpenTo(n) => OpenThen(n)
    BY <2>1 DEF OpenTo
  <2>3. OpenThen(f)
    BY <1>3, <2>2 DEF FlowInv, Opens
  <2>4. OpenThen(b)
    <3>1. file[b].kind = "Function" => b \in defined'
      BY <1>2, <1>6 DEF Defining
    <3> QED BY <1>5, <2>3, <3>1
  <2>5. ASSUME NEW n \in DOMAIN file, seen'.in[n] # 0 \/ seen'.past[n] # 0 \/ n \in defined' PROVE OpenThen(n)
    <3>1. n = f \/ n = b \/ seen.in[n] # 0 \/ seen.past[n] # 0 \/ n \in defined
      <4>1. n # f /\ n # b => seen'.in[n] = seen.in[n]
        BY <1>8, <1>11 DEF Once
      <4> QED BY <1>8, <2>1, <2>5, <4>1
    <3> QED BY <2>2, <2>3, <2>4, <3>1 DEF FlowInv, Opens
  <2> QED BY <1>2, <1>6, <2>4, <2>5 DEF Opens, OpenTo
<1>14. ASSUME NEW n \in DOMAIN file PROVE CalmRun(n)' /\ (n # 1 => FirstRun(n)' /\ BodyRun(n)' /\ NextRun(n)' /\ LastRun(n)')
  <2>0. CalmRun(n) /\ (n # 1 => FirstRun(n) /\ BodyRun(n) /\ NextRun(n) /\ LastRun(n))
    BY DEF FlowInv
  <2>1. CalmRun(n)'
    <3> SUFFICES ASSUME Calm(file, n) PROVE seen'.past[n] + Once(Opened(n)') = seen'.in[n]
      <4>1. CalmRun(n)' <=> (Calm(file, n) => seen'.past[n] + Once(Opened(n)') = seen'.in[n])
        BY <1>2 DEF CalmRun
      <4> QED BY <4>1
    <3>1. n # f /\ file[n].kind # "Function"
      BY <1>3 DEF Calm
    <3>2. n = b /\ file[b].kind # "Function" <=> n = b
      BY <3>1
    <3>3. seen'.in[n] = seen.in[n] + Once(n = f) + Once(n = b) /\ seen'.past[n] = seen.past[n]
      BY <1>8, <3>2 DEF Once
    <3>4. Once(Opened(n)') = Once(n = b) /\ Once(Opened(n)) = 0
      BY <1>9 DEF Once
    <3>5. seen.past[n] + Once(Opened(n)) = seen.in[n]
      BY <2>0 DEF CalmRun
    <3> QED BY <1>11, <3>1, <3>3, <3>4, <3>5 DEF Once
  <2> SUFFICES ASSUME n # 1 PROVE FirstRun(n)' /\ BodyRun(n)' /\ NextRun(n)' /\ LastRun(n)'
    BY <2>1
  <2> DEFINE u == file[n].up
  <2>2. u \in DOMAIN file /\ n \in 2..Len(file) /\ n \in Below(file, u)
    BY <1>3, TreeFacts DEF Below
  <2>3. FirstRun(n)'
    <3> SUFFICES ASSUME First(file, n)
                 PROVE  /\ seen'.in[u] <= Visits(n)' + Once(at' = In(u))
                        /\ file[u].kind \notin Loops => seen'.in[u] = Visits(n)' + Once(at' = In(u))
      BY <1>2 DEF FirstRun, First, Once, In
    <3>1. file[n].slot \in Slots(file[u].kind)
      BY <1>3, <2>2 DEF Shape
    <3>2. file[u].kind # "Function" /\ file[n].slot # "body"
      BY <3>1 DEF First, Firsts, Slots, Lists, Loops
    <3>3. n # b /\ u # f
      BY <1>3, <1>4, <3>2
    <3>4. Once(at' = In(u)) = Once(u = b) /\ Once(u = b) \in Nat
      BY <1>6 DEF Once
    <3>5. seen'.in[u] = seen.in[u] + Once(u = b)
      <4>1. u = b /\ file[b].kind # "Function" <=> u = b
        BY <3>2
      <4>2. seen'.in[u] = seen.in[u] + Once(u = f) + Once(u = b)
        BY <1>8, <2>2, <4>1 DEF Once
      <4> QED BY <1>11, <2>2, <3>3, <4>2 DEF Once
    <3>6. Visits(n)' = Visits(n)
      BY <1>10, <1>11, <3>3 DEF Once
    <3>7. seen.in[u] <= Visits(n) /\ (file[u].kind \notin Loops => seen.in[u] = Visits(n))
      <4>1. Once(at = In(u)) = 0
        BY <1>7, <2>2 DEF Once
      <4> QED BY <1>11, <2>0, <4>1 DEF FirstRun
    <3> QED BY <1>11, <2>2, <3>4, <3>5, <3>6, <3>7
  <2>4. BodyRun(n)'
    <3> SUFFICES ASSUME file[n].slot = "body", file[u].kind = "Function"
                 PROVE  Visits(n)' = seen'.in[u]
      BY <1>2 DEF BodyRun
    <3>1. Visits(n) = seen.in[u]
      BY <2>0 DEF BodyRun
    <3>2. n = b <=> u = f
      BY <1>4, <1>5, <2>2
    <3>3. ~(u = b /\ file[b].kind # "Function")
      OBVIOUS
    <3>4. seen'.in[u] = seen.in[u] + Once(u = f) + 0
      BY <1>8, <2>2, <3>3 DEF Once
    <3>5. Once(u = f) = Once(n = b) /\ Once(n = b) \in Nat
      BY <3>2 DEF Once
    <3> QED BY <1>10, <1>11, <2>2, <3>1, <3>4, <3>5
  <2>5. NextRun(n)'
    <3>0. \A m : m = Min(Next1(file, n)) =>
            (NextRun(n)' <=> (file[u].kind \in Lists /\ Next1(file, n) # {} => Visits(m)' + Once(Passing(n)') = seen'.past[n]))
      <4>1. Next1(file, n)' = Next1(file, n)
        BY <1>2 DEF Next1, Below
      <4> QED BY <1>2, <4>1 DEF NextRun, Visits, Passing, Once, In, Out
    <3> SUFFICES ASSUME file[u].kind \in Lists, Next1(file, n) # {}, NEW m, m = Min(Next1(file, n))
                 PROVE  Visits(m)' + Once(Passing(n)') = seen'.past[n]
      BY <3>0
    <3>1. m \in DOMAIN file /\ file[m].up = u
      <4>1. Next1(file, n) \in SUBSET DOMAIN file /\ \A k \in Next1(file, n) : file[k].up = u
        BY DEF Next1, Below
      <4> QED BY <1>3, <4>1, SomeNodes, MinFacts
    <3>2. m # b
      BY <1>3, <1>5, <3>1 DEF Lists
    <3>3. Visits(m)' = Visits(m)
      BY <1>10, <1>11, <3>1, <3>2 DEF Once
    <3>4. Visits(m) + Once(Passing(n)) = seen.past[n]
      BY <2>0 DEF NextRun
    <3> QED BY <1>8, <1>9, <3>3, <3>4 DEF Once
  <2>6. LastRun(n)'
    <3>0. LastRun(n)' <=> (file[u].kind = "Block" /\ Next1(file, n) = {} => seen'.past[u] + Once(Passing(n)') = seen'.past[n])
      <4>1. Next1(file, n)' = Next1(file, n)
        BY <1>2 DEF Next1, Below
      <4> QED BY <1>2, <4>1 DEF LastRun, Passing, Once, Out
    <3> SUFFICES ASSUME file[u].kind = "Block", Next1(file, n) = {}
                 PROVE  seen'.past[u] + Once(Passing(n)') = seen'.past[n]
      BY <3>0
    <3>1. seen.past[u] + Once(Passing(n)) = seen.past[n]
      BY <2>0 DEF LastRun
    <3> QED BY <1>8, <1>9, <2>2, <3>1 DEF Once
  <2> QED BY <2>3, <2>4, <2>5, <2>6
<1>15. f \in Kinds(file, {"Function"})
  BY <1>3 DEF Kinds
<1> QED BY <1>1, <1>2, <1>12, <1>13, <1>14, <1>15 DEF FlowInv

LEMMA FlowKept ==
  ASSUME IInv, CallInv', SeenInv', FlowInv, [Next]_vars
  PROVE  FlowInv'
<1>1. file \in Files /\ CallInv /\ SeenInv
  BY DEF IInv, AnalysisInv
<1>2. CASE UNCHANGED <<file, process>>
  <2>1. at' = at /\ frame' = frame /\ outcome' = outcome /\ seen' = seen /\ defined' = defined /\ file' = file
    BY <1>2 DEF process
  <2>2. Control' /\ Opens'
    BY <2>1 DEF FlowInv, Control, Opens, OpenTo, InCall, Exited, Idle
  <2>3. ASSUME NEW n \in DOMAIN file PROVE CalmRun(n)' /\ (n # 1 => FirstRun(n)' /\ BodyRun(n)' /\ NextRun(n)' /\ LastRun(n)')
    <3>1. CalmRun(n) /\ (n # 1 => FirstRun(n) /\ BodyRun(n) /\ NextRun(n) /\ LastRun(n))
      BY DEF FlowInv
    <3>2. CalmRun(n)'
      BY <2>1, <3>1 DEF CalmRun, Opened, InCall, Exited, Idle, Once
    <3>3. n # 1 => FirstRun(n)'
      BY <2>1, <3>1 DEF FirstRun, First, Visits, Once, In
    <3>4. n # 1 => BodyRun(n)'
      BY <2>1, <3>1 DEF BodyRun, Visits, Once, In
    <3>5. n # 1 => NextRun(n)'
      BY <2>1, <3>1 DEF NextRun, Visits, Once, In, Out, Passing, Next1, Below
    <3>6. n # 1 => LastRun(n)'
      BY <2>1, <3>1 DEF LastRun, Once, Out, Passing, Next1, Below
    <3> QED BY <3>2, <3>3, <3>4, <3>5, <3>6
  <2> QED BY <2>1, <2>2, <2>3 DEF FlowInv
<1>3. Analyze \/ Convert \/ Compare \/ UNCHANGED vars => UNCHANGED <<file, process>>
  BY DEF Analyze, ImportProject, ImportCached, Traverse, Insert, Convert, Compare, vars
<1>4. CASE Replay
  BY <1>1, <1>4, StartFlow, CallFlow, StepFlow, ReturnFlow, DumpFlow DEF Replay
<1> QED BY <1>2, <1>3, <1>4 DEF Next

(* The counts of a process follow control.                                 *)
THEOREM Flow == Spec => []FlowInv
<1>1. Init => IInv /\ FlowInv
  BY AnalysisStarts, ReplayStarts, FlowStarts DEF IInv
<1>2. IInv /\ FlowInv /\ [Next]_vars => IInv' /\ FlowInv'
  <2>1. IInv /\ [Next]_vars => IInv'
    BY AnalysisKept, ReplayKept DEF IInv
  <2> QED BY <2>1, FlowKept DEF IInv
<1> QED BY <1>1, <1>2, PTL DEF Spec

=============================================================================
