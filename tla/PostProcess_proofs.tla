------------------------- MODULE PostProcess_proofs -------------------------
(***************************************************************************)
(* Machine-checked proofs about a campaign and what becomes of its         *)
(* directories, for any number of clients, edges, directories, executions, *)
(* heartbeats, launches and imports, and any labels.                       *)
(***************************************************************************)
EXTENDS PostProcess, Inductions, FiniteSetTheorems

USE CampaignAssumption, PostAssumption

-----------------------------------------------------------------------------
(* Maxima and sums over the clients grow with their terms.                 *)

MaxOver(latest, s) == Max({latest[c][s] : c \in Clients})
SumOver(latest, s) == MapThenSumSet(LAMBDA c : latest[c][s], Clients)

LEMMA MaxGrows ==
  ASSUME NEW u \in [Clients -> [Stats -> Nat]], NEW v \in [Clients -> [Stats -> Nat]],
         NEW s \in Stats, NEW t \in Stats, Clients # {},
         \A c \in Clients : u[c][s] <= v[c][t]
  PROVE  /\ MaxOver(u, s) \in Nat /\ MaxOver(v, t) \in Nat
         /\ MaxOver(u, s) <= MaxOver(v, t)
<1> DEFINE U == {u[c][s] : c \in Clients}
           V == {v[c][t] : c \in Clients}
<1>1. IsFiniteSet(U) /\ IsFiniteSet(V)
  <2>1. [c \in Clients |-> u[c][s]] \in Surjection(Clients, U)
    BY DEF Surjection
  <2>2. [c \in Clients |-> v[c][t]] \in Surjection(Clients, V)
    BY DEF Surjection
  <2> HIDE DEF U, V
  <2> QED BY <2>1, <2>2, FS_Surjection
<1>2. U \in SUBSET Nat /\ V \in SUBSET Nat /\ U # {} /\ V # {}
  OBVIOUS
<1>3. /\ Max(U) \in U /\ \A y \in U : y <= Max(U)
      /\ Max(V) \in V /\ \A y \in V : y <= Max(V)
  <2> HIDE DEF U, V
  <2> QED BY <1>1, <1>2, MaxFacts
<1>4. MaxOver(u, s) = Max(U) /\ MaxOver(v, t) = Max(V)
  BY DEF MaxOver
<1>5. PICK c \in Clients : Max(U) = u[c][s]
  BY <1>3
<1>6. v[c][t] <= Max(V) /\ u[c][s] <= v[c][t] /\ u[c][s] \in Nat /\ v[c][t] \in Nat
  BY <1>3
<1>7. Max(U) \in Nat /\ Max(V) \in Nat
  BY <1>2, <1>3
<1> HIDE DEF U, V
<1> QED BY <1>4, <1>5, <1>6, <1>7

LEMMA SumGrows ==
  ASSUME NEW u \in [Clients -> [Stats -> Nat]], NEW v \in [Clients -> [Stats -> Nat]],
         NEW s \in Stats, NEW t \in Stats,
         \A c \in Clients : u[c][s] <= v[c][t]
  PROVE  /\ SumOver(u, s) \in Nat /\ SumOver(v, t) \in Nat
         /\ SumOver(u, s) <= SumOver(v, t)
<1>1. PICK f : SumOver(u, s) = f[Clients] /\ SumsUp(f, u, s, Clients)
  BY SumDefined DEF SumOver, Total
<1>2. PICK g : SumOver(v, t) = g[Clients] /\ SumsUp(g, v, t, Clients)
  BY SumDefined DEF SumOver, Total
<1> DEFINE Good == {n \in Nat : \A S \in SUBSET Clients : Cardinality(S) = n =>
                      f[S] \in Nat /\ g[S] \in Nat /\ f[S] <= g[S]}
<1>3. \A S \in SUBSET Clients : IsFiniteSet(S) /\ Cardinality(S) \in Nat
  BY FS_Subset, FS_CardinalityType
<1>4. 0 \in Good
  <2>1. \A S \in SUBSET Clients : Cardinality(S) = 0 => S = {}
    BY <1>3, FS_EmptySet
  <2>2. f[{}] = 0 /\ g[{}] = 0
    BY <1>1, <1>2 DEF SumsUp
  <2>3. \A S \in SUBSET Clients : Cardinality(S) = 0 => f[S] = 0 /\ g[S] = 0
    BY <2>1, <2>2
  <2> QED BY <2>3
<1>5. ASSUME NEW n \in Nat, n \in Good PROVE n + 1 \in Good
  <2> SUFFICES ASSUME NEW S \in SUBSET Clients, Cardinality(S) = n + 1
               PROVE  f[S] \in Nat /\ g[S] \in Nat /\ f[S] <= g[S]
    OBVIOUS
  <2> DEFINE c == CHOOSE x \in S : TRUE
  <2>1. S # {} /\ c \in S /\ c \in Clients
    <3>1. IsFiniteSet(S) /\ Cardinality(S) # 0
      BY <1>3
    <3>2. S # {}
      BY <3>1, FS_EmptySet
    <3> QED BY <3>2
  <2>2. Cardinality(S \ {c}) = n /\ S \ {c} \in SUBSET Clients
    <3>1. Cardinality(S \ {c}) = Cardinality(S) - 1
      BY <1>3, <2>1, FS_RemoveElement
    <3> QED BY <3>1
  <2>3. f[S] = u[c][s] + f[S \ {c}] /\ g[S] = v[c][t] + g[S \ {c}]
    BY <1>1, <1>2, <2>1 DEF SumsUp
  <2> HIDE DEF c
  <2>4. f[S \ {c}] \in Nat /\ g[S \ {c}] \in Nat /\ f[S \ {c}] <= g[S \ {c}]
    BY <1>5, <2>2
  <2>5. u[c][s] \in Nat /\ v[c][t] \in Nat /\ u[c][s] <= v[c][t]
    BY <2>1
  <2> QED BY <2>3, <2>4, <2>5
<1> HIDE DEF Good
<1>6. Cardinality(Clients) \in Good
  BY <1>3, <1>4, <1>5, Induction
<1> QED BY <1>1, <1>2, <1>6 DEF Good

-----------------------------------------------------------------------------
(* The row of a heartbeat.                                                 *)

(* The bounds that hold of a client's statistics at every message.         *)
Bounds == AtMost \ {<<"validcorpus", "corpus">>}

LEMMA BoundFacts ==
  ASSUME NEW p \in Bounds
  PROVE  /\ p[1] \in Stats /\ p[2] \in Stats /\ p[1] # p[2]
         /\ p[1] \in NonDecreasing /\ p[2] \in NonDecreasing /\ p[1] # "execs"
         /\ p[1] \in Summed <=> p[2] \in Summed
BY DEF Bounds, AtMost, Stats, Summed, NonDecreasing

LEMMA RowMeans ==
  ASSUME NEW u, NEW s \in Stats
  PROVE  Row(u)[s] = IF s \in Summed THEN SumOver(u, s) ELSE MaxOver(u, s)
BY DEF Row, SumOver, MaxOver

LEMMA RowFacts ==
  ASSUME NEW u \in [Clients -> [Stats -> Nat]], Clients # {},
         \A c \in Clients : \A p \in Bounds : u[c][p[1]] <= u[c][p[2]]
  PROVE  /\ Row(u) \in [Stats -> Nat]
         /\ \A p \in Bounds : Row(u)[p[1]] <= Row(u)[p[2]]
<1>1. ASSUME NEW s \in Stats PROVE Row(u)[s] \in Nat
  <2>1. \A c \in Clients : u[c][s] <= u[c][s]
    OBVIOUS
  <2> QED BY <2>1, RowMeans, MaxGrows, SumGrows
<1>2. Row(u) = [s \in Stats |-> Row(u)[s]]
  BY DEF Row
<1>3. ASSUME NEW p \in Bounds PROVE Row(u)[p[1]] <= Row(u)[p[2]]
  <2> DEFINE s == p[1]
             t == p[2]
  <2>1. s \in Stats /\ t \in Stats /\ (s \in Summed <=> t \in Summed)
    BY BoundFacts
  <2>2. \A c \in Clients : u[c][s] <= u[c][t]
    OBVIOUS
  <2> HIDE DEF s, t
  <2>3. SumOver(u, s) <= SumOver(u, t)
    BY <2>1, <2>2, SumGrows
  <2>4. MaxOver(u, s) <= MaxOver(u, t)
    BY <2>1, <2>2, MaxGrows
  <2>5. Row(u)[s] <= Row(u)[t]
    BY <2>1, <2>3, <2>4, RowMeans
  <2> QED BY <2>5 DEF s, t
<1> QED BY <1>1, <1>2, <1>3

LEMMA RowGrows ==
  ASSUME NEW u \in [Clients -> [Stats -> Nat]], NEW v \in [Clients -> [Stats -> Nat]],
         Clients # {}, \A c \in Clients : \A s \in NonDecreasing : u[c][s] <= v[c][s]
  PROVE  \A s \in NonDecreasing : Row(u)[s] <= Row(v)[s]
<1> SUFFICES ASSUME NEW s \in NonDecreasing PROVE Row(u)[s] <= Row(v)[s]
  OBVIOUS
<1>1. s \in Stats
  BY DEF NonDecreasing
<1>2. \A c \in Clients : u[c][s] <= v[c][s]
  OBVIOUS
<1>3. SumOver(u, s) <= SumOver(v, s)
  BY <1>1, <1>2, SumGrows
<1>4. MaxOver(u, s) <= MaxOver(v, s)
  BY <1>1, <1>2, MaxGrows
<1> QED BY <1>1, <1>3, <1>4, RowMeans

-----------------------------------------------------------------------------
(* The messages of one execution.                                          *)

Messages == [stat : Stats \cup {"heartbeat"}, value : Nat, execs : Nat]

(* The order in which a client reports its statistics.                     *)
Rank(stat) ==
  CASE stat = "validexecs"    -> 1 [] stat = "crashes"       -> 2
    [] stat = "validcrashes"  -> 3 [] stat = "objectives"    -> 4
    [] stat = "totaledges"    -> 5 [] stat = "validcorpus"   -> 6
    [] stat = "totalcoverage" -> 7 [] stat = "validcoverage" -> 8
    [] stat = "corpus"        -> 9 [] OTHER                  -> 0

(* q reports the statistics S, in their order, with the values of num.     *)
Batch(q, num, S) ==
  /\ q \in Seq(Messages)
  /\ \A i \in 1..Len(q) : /\ q[i].stat \in S /\ q[i].execs = num["execs"]
                          /\ q[i].stat # "heartbeat" => q[i].value = num[q[i].stat]
  /\ \A s \in S : \E i \in 1..Len(q) : q[i].stat = s
  /\ \A i, j \in 1..Len(q) : i < j => Rank(q[i].stat) < Rank(q[j].stat)

LEMMA FireBatch ==
  ASSUME NEW num \in [Stats -> Nat], NEW stat \in Stats, NEW condition \in BOOLEAN
  PROVE  Batch(Fire(condition, stat, num[stat], num["execs"]), num,
               IF condition THEN {stat} ELSE {})
<1> DEFINE m == [stat |-> stat, value |-> num[stat], execs |-> num["execs"]]
<1>1. m \in Messages /\ m.stat = stat /\ m.value = num[stat] /\ m.execs = num["execs"]
  BY DEF Messages, Stats
<1> HIDE DEF m
<1>2. CASE condition
  <2>1. Fire(condition, stat, num[stat], num["execs"]) = <<m>>
    BY <1>2 DEF Fire, m
  <2>2. <<m>> \in Seq(Messages) /\ Len(<<m>>) = 1 /\ <<m>>[1] = m
    BY <1>1
  <2>3. Batch(<<m>>, num, {stat})
    BY <1>1, <2>2 DEF Batch
  <2> QED BY <1>2, <2>1, <2>3
<1>3. CASE ~condition
  <2>1. Fire(condition, stat, num[stat], num["execs"]) = <<>>
    BY <1>3 DEF Fire
  <2>2. Batch(<<>>, num, {})
    BY DEF Batch
  <2> QED BY <1>3, <2>1, <2>2
<1> QED BY <1>2, <1>3

LEMMA JoinBatch ==
  ASSUME NEW num, NEW q, NEW S, Batch(q, num, S), NEW r, NEW T, Batch(r, num, T),
         \A s \in S : \A t \in T : Rank(s) < Rank(t)
  PROVE  Batch(q \o r, num, S \cup T)
<1> DEFINE b == q \o r
           m == Len(q)
           n == Len(r)
<1>1. q \in Seq(Messages) /\ r \in Seq(Messages)
  BY DEF Batch
<1>2. /\ b \in Seq(Messages) /\ Len(b) = m + n /\ m \in Nat /\ n \in Nat
      /\ \A i \in 1..m : b[i] = q[i]
      /\ \A i \in 1..n : b[m + i] = r[i]
  BY <1>1, Concatenated
<1>3. \A i \in 1..m : q[i].stat \in S /\ q[i].execs = num["execs"]
                       /\ (q[i].stat # "heartbeat" => q[i].value = num[q[i].stat])
  BY DEF Batch
<1>4. \A i \in 1..n : r[i].stat \in T /\ r[i].execs = num["execs"]
                       /\ (r[i].stat # "heartbeat" => r[i].value = num[r[i].stat])
  BY DEF Batch
<1>5. \A i \in 1..(m + n) : i \in 1..m \/ (i - m \in 1..n /\ b[i] = r[i - m])
  <2>1. \A i \in 1..(m + n) : i \in 1..m \/ (i - m \in 1..n /\ i = m + (i - m))
    BY <1>2
  <2> HIDE DEF b, m, n
  <2> QED BY <1>2, <2>1
<1>6. \A i, j \in 1..m : i < j => Rank(q[i].stat) < Rank(q[j].stat)
  BY DEF Batch
<1>7. \A i, j \in 1..n : i < j => Rank(r[i].stat) < Rank(r[j].stat)
  BY DEF Batch
<1>8. /\ \A s \in S : \E i \in 1..m : q[i].stat = s
      /\ \A t \in T : \E i \in 1..n : r[i].stat = t
  BY DEF Batch
<1> HIDE DEF b, m, n
<1>9. ASSUME NEW i \in 1..(m + n)
      PROVE  b[i].stat \in S \cup T /\ b[i].execs = num["execs"]
                /\ (b[i].stat # "heartbeat" => b[i].value = num[b[i].stat])
  <2>1. CASE i \in 1..m
    BY <1>2, <1>3, <2>1
  <2>2. CASE i \notin 1..m
    BY <1>4, <1>5, <2>2
  <2> QED BY <2>1, <2>2
<1>10. \A s \in S \cup T : \E i \in 1..(m + n) : b[i].stat = s
  <2>1. \A i \in 1..m : i \in 1..(m + n)
    BY <1>2
  <2>2. \A i \in 1..n : m + i \in 1..(m + n)
    BY <1>2
  <2>3. ASSUME NEW s \in S PROVE \E i \in 1..(m + n) : b[i].stat = s
    BY <1>2, <1>8, <2>1
  <2>4. ASSUME NEW t \in T PROVE \E i \in 1..(m + n) : b[i].stat = t
    <3>1. PICK i \in 1..n : r[i].stat = t
      BY <1>8
    <3>2. b[m + i].stat = t
      BY <1>2, <3>1
    <3> QED BY <2>2, <3>2
  <2> QED BY <2>3, <2>4
<1>11. ASSUME NEW i \in 1..(m + n), NEW j \in 1..(m + n), i < j
       PROVE  Rank(b[i].stat) < Rank(b[j].stat)
  <2>1. CASE i \in 1..m /\ j \in 1..m
    BY <1>2, <1>6, <1>11, <2>1
  <2>2. CASE i \in 1..m /\ j \notin 1..m
    BY <1>2, <1>3, <1>4, <1>5, <2>2
  <2>3. CASE i \notin 1..m
    <3>1. j \notin 1..m /\ i - m < j - m
      BY <1>2, <1>11, <2>3
    <3>2. i - m \in 1..n /\ b[i] = r[i - m] /\ j - m \in 1..n /\ b[j] = r[j - m]
      BY <1>5, <2>3, <3>1
    <3> QED BY <1>7, <3>1, <3>2
  <2> QED BY <2>1, <2>2, <2>3
<1> QED BY <1>2, <1>9, <1>10, <1>11 DEF Batch, b

LEMMA BatchAgrees ==
  ASSUME NEW q, NEW num, NEW S \in SUBSET Stats, Batch(q, num, S), NEW other,
         \A x \in S \cup {"execs"} : other[x] = num[x]
  PROVE  Batch(q, other, S)
BY DEF Batch

-----------------------------------------------------------------------------
(* A client: what its counters and histories always satisfy, and what an   *)
(* execution reports of their changes.                                     *)

States == [num : [Stats -> Nat], total : SUBSET Edges, valid : SUBSET Edges, crash : SUBSET Edges]

StateOK(s) ==
  /\ s \in States
  /\ s.valid \subseteq s.total
  /\ s.num["totalcoverage"] = Cardinality(s.total)
  /\ s.num["validcoverage"] = Cardinality(s.valid)
  /\ \A p \in Bounds : s.num[p[1]] <= s.num[p[2]]

(* The statistics whose reported values the monitor keeps.                 *)
Reported == Stats \ {"execs", "totaledges"}

LEMMA CountedFacts ==
  ASSUME NEW num \in [Stats -> Nat], NEW stat \in Stats, NEW condition \in BOOLEAN
  PROVE  /\ Counted(num, stat, condition) \in [Stats -> Nat]
         /\ \A x \in Stats : Counted(num, stat, condition)[x] =
              IF condition /\ x = stat THEN num[x] + 1 ELSE num[x]
BY DEF Counted

LEMMA CoverageFacts ==
  ASSUME NEW A \in SUBSET Edges, NEW B \in SUBSET A
  PROVE  /\ Cardinality(A) \in Nat /\ Cardinality(B) \in Nat
         /\ Cardinality(B) <= Cardinality(A)
<1>1. IsFiniteSet(A)
  BY FS_Subset
<1> QED BY <1>1, FS_Subset, FS_CardinalityType

(* The counters that UniqCrashFeedback reports, and their values after it. *)
CrashStats(s, cov, valid, kind) ==
  (((IF valid THEN {"validexecs"} ELSE {})
    \cup (IF IsCrash(kind) THEN {"crashes"} ELSE {}))
   \cup (IF IsCrash(kind) /\ valid THEN {"validcrashes"} ELSE {}))
  \cup (IF IsSolution(s, cov, valid, kind) THEN {"objectives"} ELSE {})

LEMMA CrashCountsFacts ==
  ASSUME NEW s, StateOK(s), NEW cov, NEW valid \in BOOLEAN, NEW kind,
         NEW num, num = CrashCounts(s, cov, valid, kind)
  PROVE  /\ num \in [Stats -> Nat]
         /\ \A x \in Stats : num[x] =
              IF x = "execs" \/ x \in CrashStats(s, cov, valid, kind)
              THEN s.num[x] + 1 ELSE s.num[x]
<1> DEFINE a == Counted(s.num, "execs", TRUE)
           b == Counted(a, "validexecs", valid)
           d == Counted(b, "crashes", IsCrash(kind))
           e == Counted(d, "validcrashes", valid /\ IsCrash(kind))
           f == Counted(e, "objectives", IsSolution(s, cov, valid, kind))
<1>1. num = f
  BY DEF CrashCounts
<1>2. IsCrash(kind) \in BOOLEAN /\ IsSolution(s, cov, valid, kind) \in BOOLEAN
  BY DEF IsCrash, IsSolution
<1>3. {"execs", "validexecs", "crashes", "validcrashes", "objectives"} \subseteq Stats
  BY DEF Stats
<1>4. s.num \in [Stats -> Nat]
  BY DEF StateOK, States
<1>5. /\ a \in [Stats -> Nat]
      /\ \A x \in Stats : a[x] = IF x = "execs" THEN s.num[x] + 1 ELSE s.num[x]
  <2> DEFINE m == s.num
  <2>1. m \in [Stats -> Nat] /\ a = Counted(m, "execs", TRUE) /\ "execs" \in Stats
    BY <1>3, <1>4
  <2> HIDE DEF m, a
  <2> DEFINE z == Counted(m, "execs", TRUE)
  <2>2. /\ z \in [Stats -> Nat]
        /\ \A x \in Stats : z[x] = IF TRUE /\ x = "execs" THEN m[x] + 1 ELSE m[x]
    BY <2>1, CountedFacts
  <2> HIDE DEF z
  <2>3. \A x \in Stats : z[x] = IF x = "execs" THEN m[x] + 1 ELSE m[x]
    BY <2>2
  <2>4. a = z
    BY <2>1 DEF z
  <2> QED BY <2>2, <2>3, <2>4 DEF m
<1> HIDE DEF a
<1>6. /\ b \in [Stats -> Nat]
      /\ \A x \in Stats : b[x] = IF valid /\ x = "validexecs" THEN a[x] + 1 ELSE a[x]
  BY <1>3, <1>5, CountedFacts
<1> HIDE DEF b
<1>7. /\ d \in [Stats -> Nat]
      /\ \A x \in Stats : d[x] = IF IsCrash(kind) /\ x = "crashes" THEN b[x] + 1 ELSE b[x]
  BY <1>2, <1>3, <1>6, CountedFacts
<1> HIDE DEF d
<1>8. /\ e \in [Stats -> Nat]
      /\ \A x \in Stats : e[x] = IF (valid /\ IsCrash(kind)) /\ x = "validcrashes"
                                 THEN d[x] + 1 ELSE d[x]
  BY <1>2, <1>3, <1>7, CountedFacts
<1> HIDE DEF e
<1>9. /\ f \in [Stats -> Nat]
      /\ \A x \in Stats : f[x] = IF IsSolution(s, cov, valid, kind) /\ x = "objectives"
                                 THEN e[x] + 1 ELSE e[x]
  BY <1>2, <1>3, <1>8, CountedFacts
<1> HIDE DEF f
<1> QED BY <1>1, <1>5, <1>6, <1>7, <1>8, <1>9 DEF CrashStats

(* q reports what changed from num to other, and only statistics of all.   *)
Reports(q, all, num, other) ==
  \E S \in SUBSET all : Batch(q, other, S) /\ \A x \in Reported \ S : other[x] = num[x]

CrashReported  == {"validexecs", "crashes", "validcrashes", "objectives"}
JudgedReported == {"totaledges", "validcorpus", "totalcoverage", "validcoverage", "corpus"}

(* After an execution is judged by the objective, the statistics that      *)
(* changed are those that are reported.                                    *)
LEMMA CrashFacts ==
  ASSUME NEW s, StateOK(s), NEW cov \in SUBSET Edges, NEW valid \in BOOLEAN, NEW kind,
         NEW t, t = AfterCrash(s, cov, valid, kind)
  PROVE  /\ StateOK(t)
         /\ \A x \in Stats : s.num[x] <= t.num[x]
         /\ t.num["totaledges"] = s.num["totaledges"]
         /\ Reports(CrashReports(s, cov, valid, kind), CrashReported, s.num, t.num)
<1> DEFINE num   == CrashCounts(s, cov, valid, kind)
           crash == IsCrash(kind)
           goal  == IsSolution(s, cov, valid, kind)
           S1 == IF valid THEN {"validexecs"} ELSE {}
           S2 == IF crash THEN {"crashes"} ELSE {}
           S3 == IF crash /\ valid THEN {"validcrashes"} ELSE {}
           S4 == IF goal THEN {"objectives"} ELSE {}
           S  == ((S1 \cup S2) \cup S3) \cup S4
<1>1. /\ num \in [Stats -> Nat]
      /\ \A x \in Stats : num[x] =
           IF x = "execs" \/ x \in S THEN s.num[x] + 1 ELSE s.num[x]
  BY CrashCountsFacts DEF CrashStats
<1>2. crash \in BOOLEAN /\ goal \in BOOLEAN /\ (goal => crash /\ valid)
  BY DEF IsCrash, IsSolution
<1>3. /\ t \in States /\ t.num = num /\ t.total = s.total /\ t.valid = s.valid
      /\ t.crash = IF goal THEN s.crash \cup cov ELSE s.crash
  BY <1>1 DEF AfterCrash, StateOK, States
<1>4. CrashReports(s, cov, valid, kind) =
        ((Fire(valid, "validexecs", num["validexecs"], num["execs"])
          \o Fire(crash, "crashes", num["crashes"], num["execs"]))
         \o Fire(crash /\ valid, "validcrashes", num["validcrashes"], num["execs"]))
        \o Fire(goal, "objectives", num["objectives"], num["execs"])
  BY DEF CrashReports
<1>5. /\ s.num \in [Stats -> Nat] /\ s.valid \subseteq s.total
      /\ s.num["totalcoverage"] = Cardinality(s.total)
      /\ s.num["validcoverage"] = Cardinality(s.valid)
      /\ \A p \in Bounds : s.num[p[1]] <= s.num[p[2]]
  BY DEF StateOK, States
<1> HIDE DEF num, crash, goal
<1>6. Batch(CrashReports(s, cov, valid, kind), num, S)
  <2>1. {"validexecs", "crashes", "validcrashes", "objectives"} \subseteq Stats
    BY DEF Stats
  <2>2. Batch(Fire(valid, "validexecs", num["validexecs"], num["execs"]), num, S1)
    BY <1>1, <2>1, FireBatch
  <2>3. Batch(Fire(crash, "crashes", num["crashes"], num["execs"]), num, S2)
    BY <1>1, <1>2, <2>1, FireBatch
  <2>4. Batch(Fire(crash /\ valid, "validcrashes", num["validcrashes"], num["execs"]), num, S3)
    BY <1>1, <1>2, <2>1, FireBatch
  <2>5. Batch(Fire(goal, "objectives", num["objectives"], num["execs"]), num, S4)
    BY <1>1, <1>2, <2>1, FireBatch
  <2>6. /\ \A x \in S1 : \A y \in S2 : Rank(x) < Rank(y)
        /\ \A x \in S1 \cup S2 : \A y \in S3 : Rank(x) < Rank(y)
        /\ \A x \in (S1 \cup S2) \cup S3 : \A y \in S4 : Rank(x) < Rank(y)
    BY DEF Rank
  <2> DEFINE F1 == Fire(valid, "validexecs", num["validexecs"], num["execs"])
             F2 == Fire(crash, "crashes", num["crashes"], num["execs"])
             F3 == Fire(crash /\ valid, "validcrashes", num["validcrashes"], num["execs"])
             F4 == Fire(goal, "objectives", num["objectives"], num["execs"])
  <2> HIDE DEF S1, S2, S3, S4, F1, F2, F3, F4
  <2>7. Batch(F1 \o F2, num, S1 \cup S2)
    BY <2>2, <2>3, <2>6, JoinBatch DEF F1, F2
  <2>8. Batch((F1 \o F2) \o F3, num, (S1 \cup S2) \cup S3)
    BY <2>4, <2>6, <2>7, JoinBatch DEF F3
  <2>9. Batch(((F1 \o F2) \o F3) \o F4, num, ((S1 \cup S2) \cup S3) \cup S4)
    BY <2>5, <2>6, <2>8, JoinBatch DEF F4
  <2> QED BY <1>4, <2>9 DEF F1, F2, F3, F4
<1>7. S \in SUBSET {"validexecs", "crashes", "validcrashes", "objectives"}
  OBVIOUS
<1>8. \A x \in Reported \ S : num[x] = s.num[x]
  BY <1>1, <1>2 DEF Reported
<1>9. \A x \in Stats : s.num[x] <= num[x]
  BY <1>1, <1>5
<1>10. \A p \in Bounds : num[p[1]] <= num[p[2]]
  <2>1. /\ s.num["objectives"] <= s.num["validcrashes"] /\ s.num["crashes"] <= s.num["execs"]
        /\ s.num["validcrashes"] <= s.num["crashes"]
        /\ s.num["validcrashes"] <= s.num["validexecs"]
        /\ s.num["validcoverage"] <= s.num["totalcoverage"]
    <3>1. /\ <<"objectives", "validcrashes">> \in Bounds /\ <<"crashes", "execs">> \in Bounds
          /\ <<"validcrashes", "crashes">> \in Bounds
          /\ <<"validcrashes", "validexecs">> \in Bounds
          /\ <<"validcoverage", "totalcoverage">> \in Bounds
      BY DEF Bounds, AtMost
    <3> QED BY <1>5, <3>1
  <2>2. /\ num["objectives"] <= num["validcrashes"] /\ num["crashes"] <= num["execs"]
        /\ num["validcrashes"] <= num["crashes"]
        /\ num["validcrashes"] <= num["validexecs"]
        /\ num["validcoverage"] <= num["totalcoverage"]
    BY <1>1, <1>2, <1>5, <2>1 DEF Stats
  <2> QED BY <2>2 DEF Bounds, AtMost
<1>11. /\ num["totalcoverage"] = s.num["totalcoverage"] /\ num["validcoverage"] = s.num["validcoverage"]
       /\ num["totaledges"] = s.num["totaledges"]
  BY <1>1 DEF Stats
<1>12. StateOK(t)
  BY <1>3, <1>5, <1>10, <1>11 DEF StateOK
<1> HIDE DEF S
<1>13. Reports(CrashReports(s, cov, valid, kind), CrashReported, s.num, t.num)
  BY <1>3, <1>6, <1>7, <1>8 DEF Reports, CrashReported
<1> QED BY <1>3, <1>9, <1>11, <1>12, <1>13

(* After the input is judged by the feedback, likewise, except that the    *)
(* number of instrumented edges is not kept when the client dies.          *)
LEMMA JudgedFacts ==
  ASSUME NEW s, StateOK(s), NEW cov \in SUBSET Edges, NEW valid \in BOOLEAN,
         NEW edges \in Nat, NEW t, t = AfterJudged(s, cov, valid, edges)
  PROVE  /\ StateOK(t)
         /\ \A x \in Reported \cup {"execs"} : s.num[x] <= t.num[x]
         /\ \A x \in {"execs", "validexecs", "crashes", "validcrashes", "objectives"} :
              t.num[x] = s.num[x]
         /\ Reports(JudgedReports(s, cov, valid, edges), JudgedReported, s.num, t.num)
<1> DEFINE new   == IsKept(s, cov)
           more  == edges > s.num["totaledges"]
           total == s.total \cup cov
           both  == IF valid THEN s.valid \cup cov ELSE s.valid
           num0  == [s.num EXCEPT !["totaledges"] = edges]
           num1  == Counted(num0, "validcorpus", valid)
           kept  == Counted(num1, "corpus", TRUE)
           num   == t.num
           S1 == IF more THEN {"totaledges"} ELSE {}
           S2 == IF new /\ valid THEN {"validcorpus"} ELSE {}
           S3 == IF new THEN {"totalcoverage"} ELSE {}
           S4 == IF new /\ valid THEN {"validcoverage"} ELSE {}
           S5 == IF new THEN {"corpus"} ELSE {}
           S  == (((S1 \cup S2) \cup S3) \cup S4) \cup S5
<1>1. /\ s.num \in [Stats -> Nat] /\ s.valid \subseteq s.total /\ s.total \in SUBSET Edges
      /\ s.num["totalcoverage"] = Cardinality(s.total)
      /\ s.num["validcoverage"] = Cardinality(s.valid)
      /\ \A p \in Bounds : s.num[p[1]] <= s.num[p[2]]
  BY DEF StateOK, States
<1>2. {"execs", "validexecs", "crashes", "validcrashes", "objectives", "totaledges",
       "validcorpus", "corpus", "totalcoverage", "validcoverage"} \subseteq Stats
  BY DEF Stats
<1>3. new \in BOOLEAN /\ more \in BOOLEAN
  BY DEF IsKept
<1>4. /\ total \in SUBSET Edges /\ both \subseteq total /\ s.total \subseteq total
      /\ s.valid \subseteq both /\ (~valid => both = s.valid)
  BY <1>1
<1>5. /\ Cardinality(total) \in Nat /\ Cardinality(both) \in Nat
      /\ Cardinality(both) <= Cardinality(total)
      /\ Cardinality(s.total) <= Cardinality(total)
      /\ Cardinality(s.valid) <= Cardinality(both)
  <2> HIDE DEF total, both
  <2> both \in SUBSET Edges
    BY <1>4
  <2> QED BY <1>4, CoverageFacts
<1>6. /\ num0 \in [Stats -> Nat]
      /\ \A x \in Stats : num0[x] = IF x = "totaledges" THEN edges ELSE s.num[x]
  BY <1>1, <1>2
<1> HIDE DEF num0
<1>7. /\ num1 \in [Stats -> Nat]
      /\ \A x \in Stats : num1[x] = IF valid /\ x = "validcorpus" THEN num0[x] + 1 ELSE num0[x]
  BY <1>2, <1>6, CountedFacts
<1> HIDE DEF num1
<1>8. /\ kept \in [Stats -> Nat]
      /\ \A x \in Stats : kept[x] = IF x = "corpus" THEN num1[x] + 1 ELSE num1[x]
  <2>1. kept = [num1 EXCEPT !["corpus"] = @ + 1] /\ "corpus" \in Stats
    BY <1>2 DEF Counted
  <2> HIDE DEF kept
  <2> QED BY <1>7, <2>1
<1> HIDE DEF kept
<1>9. t = IF ~new THEN [s EXCEPT !.num = num0]
          ELSE [s EXCEPT !.total = total, !.valid = both,
                         !.num = [kept EXCEPT !["totalcoverage"] = Cardinality(total),
                                              !["validcoverage"] = Cardinality(both)]]
  BY DEF AfterJudged, num0, num1, kept
<1> HIDE DEF new, total, both
<1>10. /\ t \in States
       /\ t.total = IF new THEN total ELSE s.total
       /\ t.valid = IF new THEN both ELSE s.valid
       /\ num = IF new THEN [kept EXCEPT !["totalcoverage"] = Cardinality(total),
                                         !["validcoverage"] = Cardinality(both)] ELSE num0
  <2>1. s \in States
    BY DEF StateOK
  <2>2. CASE ~new
    BY <1>6, <1>9, <2>1, <2>2 DEF States
  <2>3. CASE new
    <3> DEFINE k == [kept EXCEPT !["totalcoverage"] = Cardinality(total),
                                 !["validcoverage"] = Cardinality(both)]
    <3>1. k \in [Stats -> Nat]
      BY <1>5, <1>8
    <3>2. t = [s EXCEPT !.total = total, !.valid = both, !.num = k]
      BY <1>9, <2>3
    <3>3. both \in SUBSET Edges
      BY <1>4
    <3> HIDE DEF k
    <3>4. t \in States /\ t.total = total /\ t.valid = both /\ t.num = k
      BY <1>4, <2>1, <3>1, <3>2, <3>3 DEF States
    <3> QED BY <2>3, <3>4 DEF k
  <2> QED BY <2>2, <2>3
<1>11. num \in [Stats -> Nat]
  BY <1>10 DEF States
<1>12. \A x \in Stats : num[x] =
         IF x = "totaledges" THEN edges
         ELSE IF ~new THEN s.num[x]
         ELSE IF x = "totalcoverage" THEN Cardinality(total)
         ELSE IF x = "validcoverage" THEN Cardinality(both)
         ELSE IF x = "corpus" \/ (x = "validcorpus" /\ valid) THEN s.num[x] + 1
         ELSE s.num[x]
  <2>1. CASE ~new
    BY <1>6, <1>10, <2>1
  <2>2. CASE new
    <3>1. \A x \in Stats : kept[x] = IF x = "totaledges" THEN edges
            ELSE IF x = "corpus" \/ (x = "validcorpus" /\ valid) THEN s.num[x] + 1
            ELSE s.num[x]
      BY <1>2, <1>6, <1>7, <1>8
    <3>2. \A x \in Stats : num[x] = IF x = "validcoverage" THEN Cardinality(both)
            ELSE IF x = "totalcoverage" THEN Cardinality(total) ELSE kept[x]
      BY <1>8, <1>10, <2>2
    <3> QED BY <2>2, <3>1, <3>2
  <2> QED BY <2>1, <2>2
<1> HIDE DEF num, S
<1>13. Batch(JudgedReports(s, cov, valid, edges), num, S)
  <2> DEFINE F1 == Fire(more, "totaledges", num["totaledges"], num["execs"])
             F2 == Fire(new /\ valid, "validcorpus", num["validcorpus"], num["execs"])
             F3 == Fire(new, "totalcoverage", num["totalcoverage"], num["execs"])
             F4 == Fire(new /\ valid, "validcoverage", num["validcoverage"], num["execs"])
             F5 == Fire(new, "corpus", num["corpus"], num["execs"])
  <2>1. num["totaledges"] = edges
    BY <1>2, <1>12
  <2>2. JudgedReports(s, cov, valid, edges) = (((F1 \o F2) \o F3) \o F4) \o F5
    BY <2>1 DEF JudgedReports, num, new
  <2> HIDE DEF more
  <2>3. Batch(F1, num, S1)
    BY <1>2, <1>3, <1>11, FireBatch
  <2>4. Batch(F2, num, S2)
    BY <1>2, <1>3, <1>11, FireBatch
  <2>5. Batch(F3, num, S3)
    BY <1>2, <1>3, <1>11, FireBatch
  <2>6. Batch(F4, num, S4)
    BY <1>2, <1>3, <1>11, FireBatch
  <2>7. Batch(F5, num, S5)
    BY <1>2, <1>3, <1>11, FireBatch
  <2>8. /\ \A x \in S1 : \A y \in S2 : Rank(x) < Rank(y)
        /\ \A x \in S1 \cup S2 : \A y \in S3 : Rank(x) < Rank(y)
        /\ \A x \in (S1 \cup S2) \cup S3 : \A y \in S4 : Rank(x) < Rank(y)
        /\ \A x \in ((S1 \cup S2) \cup S3) \cup S4 : \A y \in S5 : Rank(x) < Rank(y)
    BY DEF Rank
  <2> HIDE DEF S1, S2, S3, S4, S5, F1, F2, F3, F4, F5
  <2>9. Batch(F1 \o F2, num, S1 \cup S2)
    BY <2>3, <2>4, <2>8, JoinBatch
  <2>10. Batch((F1 \o F2) \o F3, num, (S1 \cup S2) \cup S3)
    BY <2>5, <2>8, <2>9, JoinBatch
  <2>11. Batch(((F1 \o F2) \o F3) \o F4, num, ((S1 \cup S2) \cup S3) \cup S4)
    BY <2>6, <2>8, <2>10, JoinBatch
  <2>12. Batch((((F1 \o F2) \o F3) \o F4) \o F5, num, (((S1 \cup S2) \cup S3) \cup S4) \cup S5)
    BY <2>7, <2>8, <2>11, JoinBatch
  <2> QED BY <2>2, <2>12 DEF S
<1>14. /\ S \in SUBSET {"totaledges", "validcorpus", "totalcoverage", "validcoverage", "corpus"}
       /\ \A x \in Reported \ S : num[x] = s.num[x]
  <2>1. S \in SUBSET {"totaledges", "validcorpus", "totalcoverage", "validcoverage", "corpus"}
    BY DEF S
  <2>2. ASSUME NEW x \in Reported \ S PROVE num[x] = s.num[x]
    <3>1. x \in Stats /\ x # "totaledges"
      BY DEF Reported
    <3>2. CASE ~new
      BY <1>12, <3>1, <3>2
    <3>3. CASE new
      <4>1. /\ x \notin {"totalcoverage", "corpus"}
            /\ (valid => x # "validcorpus" /\ x # "validcoverage")
        BY <2>2, <3>3 DEF S
      <4>2. ~valid => Cardinality(both) = s.num["validcoverage"]
        BY <1>1, <1>4
      <4> QED BY <1>12, <3>1, <3>3, <4>1, <4>2
    <3> QED BY <3>2, <3>3
  <2> QED BY <2>1, <2>2
<1>15. \A x \in Reported \cup {"execs"} : s.num[x] <= num[x]
  <2>1. \A x \in Stats : s.num[x] \in Nat
    BY <1>1
  <2> QED BY <1>1, <1>2, <1>5, <1>12, <2>1 DEF Reported
<1>16. \A x \in {"execs", "validexecs", "crashes", "validcrashes", "objectives"} : num[x] = s.num[x]
  BY <1>2, <1>12
<1>17. /\ num["totalcoverage"] = Cardinality(t.total) /\ num["validcoverage"] = Cardinality(t.valid)
       /\ t.valid \subseteq t.total
  BY <1>1, <1>2, <1>4, <1>10, <1>12
<1>18. \A p \in Bounds : num[p[1]] <= num[p[2]]
  <2>1. num["validcoverage"] <= num["totalcoverage"]
    <3>1. <<"validcoverage", "totalcoverage">> \in Bounds
      BY DEF Bounds, AtMost
    <3>2. s.num["validcoverage"] <= s.num["totalcoverage"]
      BY <1>1, <3>1
    <3> QED BY <1>2, <1>5, <1>12, <3>2
  <2>2. ASSUME NEW p \in Bounds, p # <<"validcoverage", "totalcoverage">>
        PROVE  num[p[1]] <= num[p[2]]
    <3>1. /\ p[1] \in {"execs", "validexecs", "crashes", "validcrashes", "objectives"}
          /\ p[2] \in {"execs", "validexecs", "crashes", "validcrashes", "objectives"}
      BY <2>2 DEF Bounds, AtMost
    <3>2. num[p[1]] = s.num[p[1]] /\ num[p[2]] = s.num[p[2]]
      BY <1>16, <3>1
    <3> QED BY <1>1, <3>2
  <2> QED BY <2>1, <2>2
<1>19. StateOK(t)
  BY <1>10, <1>17, <1>18 DEF StateOK, num
<1>20. Reports(JudgedReports(s, cov, valid, edges), JudgedReported, s.num, num)
  BY <1>13, <1>14 DEF Reports, JudgedReported
<1> QED BY <1>15, <1>16, <1>19, <1>20 DEF num

-----------------------------------------------------------------------------
(* A client and the monitor.  Of every statistic but the executions and    *)
(* the instrumented edges, either a message with its current value is on   *)
(* its way or the monitor knows it; what the monitor knows is never more   *)
(* than what the client does, and satisfies the bounds at every message.   *)
Known(q, v, num) ==
  /\ v \in [Stats -> Nat]
  /\ Reports(q, Stats \cup {"heartbeat"}, v, num)
  /\ \A x \in NonDecreasing : v[x] <= num[x]
  /\ \A p \in Bounds : v[p[1]] <= v[p[2]]

Latest(v, msg) ==
  [x \in Stats |-> IF x = "execs" THEN msg.execs ELSE IF x = msg.stat THEN msg.value ELSE v[x]]

(* Nothing is on its way: the monitor knows it all.                        *)
LEMMA QuietFacts ==
  ASSUME NEW v, NEW num, Known(<<>>, v, num)
  PROVE  \A x \in Reported : v[x] = num[x]
<1>1. PICK S \in SUBSET (Stats \cup {"heartbeat"}) :
             Batch(<<>>, num, S) /\ \A x \in Reported \ S : num[x] = v[x]
  BY DEF Known, Reports
<1>2. S = {}
  BY <1>1 DEF Batch
<1> QED BY <1>1, <1>2

(* The order of the messages is that in which the bounds want them.        *)
LEMMA RankFacts ==
  ASSUME NEW p \in Bounds
  PROVE  p[2] = "execs" \/ Rank(p[2]) < Rank(p[1])
BY DEF Bounds, AtMost, Rank

(* The broker handles a message.                                           *)
LEMMA HandleFacts ==
  ASSUME NEW q, NEW v, NEW num \in [Stats -> Nat], Known(q, v, num), q # <<>>,
         \A p \in Bounds : num[p[1]] <= num[p[2]],
         NEW w, w = Latest(v, Head(q))
  PROVE  /\ Known(Tail(q), w, num)
         /\ \A x \in NonDecreasing : v[x] <= w[x]
<1> DEFINE m == Head(q)
           r == Tail(q)
           n == Len(q)
<1>1. PICK S \in SUBSET (Stats \cup {"heartbeat"}) :
             Batch(q, num, S) /\ \A x \in Reported \ S : num[x] = v[x]
  BY DEF Known, Reports
<1>2. /\ q \in Seq(Messages) /\ n \in Nat /\ n # 0
      /\ \A i \in 1..n : /\ q[i].stat \in S /\ q[i].execs = num["execs"]
                         /\ q[i].stat # "heartbeat" => q[i].value = num[q[i].stat]
      /\ \A x \in S : \E i \in 1..n : q[i].stat = x
      /\ \A i, j \in 1..n : i < j => Rank(q[i].stat) < Rank(q[j].stat)
  <2>1. q \in Seq(Messages)
    BY <1>1 DEF Batch
  <2>2. n \in Nat /\ n # 0
    BY <2>1, EmptySeq, LenProperties
  <2> QED BY <1>1, <2>1, <2>2 DEF Batch
<1>3. /\ m = q[1] /\ r \in Seq(Messages) /\ Len(r) = n - 1
      /\ \A i \in 1..(n - 1) : r[i] = q[i + 1]
  BY <1>2, HeadTailProperties
<1>4. v \in [Stats -> Nat] /\ (\A x \in NonDecreasing : v[x] <= num[x])
      /\ (\A p \in Bounds : v[p[1]] <= v[p[2]])
  BY DEF Known
<1> HIDE DEF m, r, n
<1>5. \A x \in Stats : w[x] =
        IF x = "execs" THEN num["execs"] ELSE IF x = m.stat THEN num[x] ELSE v[x]
  <2>1. 1 \in 1..n
    BY <1>2
  <2>2. m.execs = num["execs"] /\ (m.stat # "heartbeat" => m.value = num[m.stat])
    BY <1>2, <1>3, <2>1
  <2>3. "heartbeat" \notin Stats
    BY DEF Stats
  <2> QED BY <2>2, <2>3 DEF Latest, m
<1>6. w \in [Stats -> Nat]
  <2>1. \A x \in Stats : w[x] \in Nat
    <3>1. \A x \in Stats : num[x] \in Nat /\ v[x] \in Nat
      BY <1>4
    <3>2. "execs" \in Stats
      BY DEF Stats
    <3> QED BY <1>5, <3>1, <3>2
  <2>2. w \in [Stats -> {w[x] : x \in Stats}]
    BY DEF Latest
  <2> DEFINE W == {w[x] : x \in Stats}
  <2>3. W \subseteq Nat
    BY <2>1
  <2> HIDE DEF m, W
  <2>4. w \in [Stats -> W]
    BY <2>2 DEF W
  <2> QED BY <2>3, <2>4
<1>7. ASSUME NEW x \in NonDecreasing PROVE x \in Stats /\ v[x] <= w[x] /\ w[x] <= num[x]
  <2>1. x \in Stats /\ v[x] <= num[x]
    BY <1>4 DEF NonDecreasing
  <2>2. v[x] \in Nat /\ num[x] \in Nat
    BY <1>4, <2>1
  <2>3. w[x] = num[x] \/ w[x] = v[x]
    BY <1>5, <2>1
  <2> QED BY <2>1, <2>2, <2>3
<1> DEFINE T == S \ {m.stat}
<1>8. \A x \in T : Rank(m.stat) < Rank(x)
  <2> SUFFICES ASSUME NEW x \in T PROVE Rank(m.stat) < Rank(x)
    OBVIOUS
  <2>1. PICK i \in 1..n : q[i].stat = x
    BY <1>2
  <2>2. i # 1 /\ 1 \in 1..n
    BY <1>2, <1>3, <2>1
  <2> QED BY <1>2, <1>3, <2>1, <2>2
<1>9. Batch(r, num, T)
  <2>1. \A i \in 1..(n - 1) : i + 1 \in 1..n /\ 1 < i + 1 /\ r[i] = q[i + 1]
    BY <1>2, <1>3
  <2>2. \A i \in 1..(n - 1) : r[i].stat \in S /\ r[i].stat # m.stat
    <3> SUFFICES ASSUME NEW i \in 1..(n - 1) PROVE r[i].stat \in S /\ r[i].stat # m.stat
      OBVIOUS
    <3>1. i + 1 \in 1..n /\ 1 \in 1..n /\ 1 < i + 1 /\ r[i] = q[i + 1]
      BY <1>2, <2>1
    <3>2. Rank(q[1].stat) < Rank(q[i + 1].stat) /\ q[i + 1].stat \in S
      BY <1>2, <3>1
    <3>3. Rank(q[1].stat) \in Nat
      BY DEF Rank
    <3> QED BY <1>3, <3>1, <3>2, <3>3
  <2>3. \A i \in 1..(n - 1) : r[i].execs = num["execs"]
          /\ (r[i].stat # "heartbeat" => r[i].value = num[r[i].stat])
    BY <1>2, <2>1
  <2>4. \A i, j \in 1..(n - 1) : i < j => Rank(r[i].stat) < Rank(r[j].stat)
    <3> SUFFICES ASSUME NEW i \in 1..(n - 1), NEW j \in 1..(n - 1), i < j
                 PROVE  Rank(r[i].stat) < Rank(r[j].stat)
      OBVIOUS
    <3>1. i + 1 \in 1..n /\ j + 1 \in 1..n /\ i + 1 < j + 1 /\ r[i] = q[i + 1] /\ r[j] = q[j + 1]
      BY <2>1
    <3> QED BY <1>2, <3>1
  <2>5. ASSUME NEW x \in T PROVE \E i \in 1..(n - 1) : r[i].stat = x
    <3>1. PICK i \in 1..n : q[i].stat = x
      BY <1>2
    <3>2. i # 1
      BY <1>3, <3>1
    <3>3. i - 1 \in 1..(n - 1) /\ (i - 1) + 1 = i
      BY <1>2, <3>2
    <3>4. r[i - 1] = q[i]
      BY <2>1, <3>3
    <3> QED BY <3>1, <3>3, <3>4
  <2> QED BY <1>3, <2>2, <2>3, <2>4, <2>5 DEF Batch
<1>10. \A x \in Reported \ T : w[x] = num[x]
  BY <1>1, <1>5 DEF Reported
<1>11. \A p \in Bounds : w[p[1]] <= w[p[2]]
  <2> SUFFICES ASSUME NEW p \in Bounds PROVE w[p[1]] <= w[p[2]]
    OBVIOUS
  <2> DEFINE a == p[1]
             b == p[2]
  <2>1. /\ a \in Stats /\ b \in Stats /\ a # b /\ a # "execs"
        /\ a \in NonDecreasing /\ b \in NonDecreasing
        /\ b = "execs" \/ Rank(b) < Rank(a)
        /\ v[a] <= v[b] /\ num[a] <= num[b]
    BY <1>4, BoundFacts, RankFacts
  <2> HIDE DEF a, b
  <2>2. /\ v[a] \in Nat /\ v[b] \in Nat /\ num[a] \in Nat /\ num[b] \in Nat
        /\ w[a] \in Nat /\ w[b] \in Nat
        /\ v[b] <= w[b] /\ w[a] <= num[a]
    BY <1>4, <1>6, <1>7, <2>1
  <2>3. w[a] <= w[b]
    <3>1. CASE a = m.stat /\ b = "execs"
      BY <1>5, <2>1, <2>2, <3>1
    <3>2. CASE a = m.stat /\ b # "execs"
      <4>1. b \notin T
        BY <1>8, <2>1, <3>2 DEF Rank
      <4>2. w[b] = num[b]
        BY <1>10, <2>1, <3>2, <4>1 DEF Reported, NonDecreasing
      <4> QED BY <2>1, <2>2, <4>2
    <3>3. CASE a # m.stat
      <4>1. w[a] = v[a]
        BY <1>5, <2>1, <3>3
      <4> QED BY <2>1, <2>2, <4>1
    <3> QED BY <3>1, <3>2, <3>3
  <2> QED BY <2>3 DEF a, b
<1>12. T \in SUBSET (Stats \cup {"heartbeat"})
  OBVIOUS
<1> HIDE DEF T
<1> QED BY <1>6, <1>7, <1>9, <1>10, <1>11, <1>12 DEF Known, Reports, r

-----------------------------------------------------------------------------
(* The invariant of a campaign: clients and monitor, and the rows that are *)
(* on disk, the last of which is below what the monitor knows.             *)

ClientsInv ==
  /\ st \in [Clients -> States] /\ out \in [Clients -> Seq(Messages)]
  /\ seen \in [Clients -> [Stats -> Nat]]
  /\ \A c \in Clients : StateOK(st[c]) /\ Known(out[c], seen[c], st[c].num)

Rows == [Stats -> Nat]
RowsOK(rows) ==
  /\ rows \in Seq(Rows)
  /\ \A i \in 1..Len(rows) : \A p \in Bounds : rows[i][p[1]] <= rows[i][p[2]]
  /\ \A i \in 2..Len(rows) : \A s \in NonDecreasing : rows[i - 1][s] <= rows[i][s]

Below(rows, row) ==
  Len(rows) # 0 /\ \A s \in NonDecreasing : rows[Len(rows)][s] <= row[s]

DirsInv ==
  /\ dir \in Dirs \cup {NoDir}
  /\ made \in SUBSET Dirs /\ IsFiniteSet(made)
  /\ DOMAIN csv = Dirs /\ \A d \in Dirs : RowsOK(csv[d])
  /\ dir \in Dirs /\ writer => Clients # {} /\ Below(csv[dir], Row(seen))

CampaignInv == ClientsInv /\ DirsInv

(* A client that has just begun.                                           *)
LEMMA FreshFacts ==
  StateOK(Fresh) /\ Known(<<>>, NoStats, Fresh.num) /\ NoStats \in [Stats -> Nat]
<1>1. Cardinality({}) = 0
  BY FS_EmptySet
<1>2. /\ NoStats \in [Stats -> Nat] /\ \A s \in Stats : NoStats[s] = 0
      /\ Fresh.num = NoStats /\ Fresh.total = {} /\ Fresh.valid = {} /\ Fresh \in States
  BY DEF NoStats, Fresh, States
<1>3. "totalcoverage" \in Stats /\ "validcoverage" \in Stats
  BY DEF Stats
<1>4. \A p \in Bounds : NoStats[p[1]] = 0 /\ NoStats[p[2]] = 0
  BY <1>2, BoundFacts
<1>5. StateOK(Fresh)
  BY <1>1, <1>2, <1>3, <1>4 DEF StateOK
<1>6. Batch(<<>>, NoStats, {})
  BY DEF Batch
<1>7. \A x \in NonDecreasing : NoStats[x] <= NoStats[x]
  BY <1>2 DEF NonDecreasing
<1>8. {} \in SUBSET (Stats \cup {"heartbeat"})
  OBVIOUS
<1> QED BY <1>2, <1>4, <1>5, <1>6, <1>7, <1>8 DEF Known, Reports

LEMMA FreshClients ==
  ASSUME st' = [c \in Clients |-> Fresh], out' = [c \in Clients |-> <<>>],
         seen' = [c \in Clients |-> NoStats]
  PROVE  ClientsInv'
<1>1. StateOK(Fresh) /\ Known(<<>>, NoStats, Fresh.num) /\ NoStats \in [Stats -> Nat]
  BY FreshFacts
<1>2. Fresh \in States /\ <<>> \in Seq(Messages)
  BY <1>1, EmptySeq DEF StateOK
<1> QED BY <1>1, <1>2 DEF ClientsInv

LEMMA CampaignStarts == InitCampaign => CampaignInv
<1> SUFFICES ASSUME InitCampaign PROVE CampaignInv
  OBVIOUS
<1>1. StateOK(Fresh) /\ Known(<<>>, NoStats, Fresh.num) /\ NoStats \in [Stats -> Nat]
  BY FreshFacts
<1>2. Fresh \in States /\ <<>> \in Seq(Messages)
  BY <1>1, EmptySeq DEF StateOK
<1>3. ClientsInv
  BY <1>1, <1>2 DEF ClientsInv, InitCampaign
<1>4. RowsOK(<<>>)
  BY DEF RowsOK
<1>5. DirsInv
  BY <1>4, FS_EmptySet DEF DirsInv, InitCampaign
<1> QED BY <1>3, <1>5 DEF CampaignInv

LEMMA DirsKept ==
  ASSUME DirsInv, UNCHANGED <<dir, seen, writer, csv, made>>
  PROVE  DirsInv'
<1>1. dir' = dir /\ seen' = seen /\ writer' = writer /\ csv' = csv /\ made' = made
  OBVIOUS
<1> QED BY <1>1 DEF DirsInv

(* What an execution leaves: the state of its client and what is reported. *)
LEMMA ExecutionKeeps ==
  ASSUME ClientsInv, NEW c \in Clients, out[c] = <<>>,
         NEW t, StateOK(t), NEW q,
         \A x \in NonDecreasing : st[c].num[x] <= t.num[x],
         Reports(q, Stats \cup {"heartbeat"}, st[c].num, t.num),
         st' = [st EXCEPT ![c] = t], out' = [out EXCEPT ![c] = q], seen' = seen
  PROVE  ClientsInv'
<1>1. /\ Known(<<>>, seen[c], st[c].num) /\ seen[c] \in [Stats -> Nat]
      /\ st[c].num \in [Stats -> Nat] /\ t.num \in [Stats -> Nat]
  BY DEF ClientsInv, States, StateOK
<1>2. \A x \in Reported : seen[c][x] = st[c].num[x]
  BY <1>1, QuietFacts
<1>3. \A x \in NonDecreasing : seen[c][x] <= t.num[x]
  <2>1. \A x \in NonDecreasing : x \in Stats /\ seen[c][x] <= st[c].num[x]
    BY <1>1 DEF Known, NonDecreasing
  <2>2. \A x \in Stats : seen[c][x] \in Nat /\ st[c].num[x] \in Nat /\ t.num[x] \in Nat
    BY <1>1
  <2> QED BY <2>1, <2>2
<1>4. Known(q, seen[c], t.num)
  <2>1. Reports(q, Stats \cup {"heartbeat"}, seen[c], t.num)
    BY <1>2 DEF Reports
  <2>2. \A p \in Bounds : seen[c][p[1]] <= seen[c][p[2]]
    BY <1>1 DEF Known
  <2> QED BY <1>1, <1>3, <2>1, <2>2 DEF Known
<1>5. q \in Seq(Messages) /\ t \in States
  BY DEF Reports, Batch, StateOK
<1> QED BY <1>4, <1>5 DEF ClientsInv

LEMMA EvaluateKeeps ==
  ASSUME CampaignInv, NEW c \in Clients, Evaluate(c)
  PROVE  CampaignInv'
<1> DEFINE edges == Cardinality(Edges)
<1>1. PICK cov \in SUBSET Edges, valid \in BOOLEAN, kind \in {"Ok", "Crash"} :
        LET s == AfterCrash(st[c], cov, valid, kind)
            judged == Considered(st[c], cov, valid, kind)
        IN /\ st' = [st EXCEPT ![c] = IF judged THEN AfterJudged(s, cov, valid, edges) ELSE s]
           /\ out' = [out EXCEPT ![c] =
                CrashReports(st[c], cov, valid, kind)
                \o (IF judged THEN JudgedReports(s, cov, valid, edges) ELSE <<>>)]
  BY DEF Evaluate
<1> DEFINE s == AfterCrash(st[c], cov, valid, kind)
           judged == Considered(st[c], cov, valid, kind)
           t == IF judged THEN AfterJudged(s, cov, valid, edges) ELSE s
           first == CrashReports(st[c], cov, valid, kind)
           second == IF judged THEN JudgedReports(s, cov, valid, edges) ELSE <<>>
<1>2. st' = [st EXCEPT ![c] = t] /\ out' = [out EXCEPT ![c] = first \o second]
  BY <1>1
<1>3. out[c] = <<>> /\ UNCHANGED <<dir, seen, writer, csv, made>>
  BY DEF Evaluate, Executes
<1>4. StateOK(st[c]) /\ edges \in Nat
  BY FS_CardinalityType DEF CampaignInv, ClientsInv
<1> HIDE DEF s, judged, edges
<1>5. /\ StateOK(s) /\ \A x \in Stats : st[c].num[x] <= s.num[x]
  BY <1>4, CrashFacts DEF s
<1>6. Reports(first, CrashReported, st[c].num, s.num)
  BY <1>4, CrashFacts DEF s
<1> HIDE DEF first
<1>7. /\ StateOK(t) /\ \A x \in NonDecreasing : s.num[x] <= t.num[x]
      /\ \A x \in {"execs", "validexecs", "crashes", "validcrashes", "objectives"} :
           t.num[x] = s.num[x]
      /\ Reports(second, JudgedReported, s.num, t.num)
  <2>1. CASE judged
    <3>1. t = AfterJudged(s, cov, valid, edges) /\ second = JudgedReports(s, cov, valid, edges)
      BY <2>1
    <3>2. NonDecreasing = Reported \cup {"execs"}
      BY DEF NonDecreasing, Reported, Stats
    <3> HIDE DEF t, second
    <3> QED BY <1>4, <1>5, <3>1, <3>2, JudgedFacts
  <2>2. CASE ~judged
    <3>1. t = s /\ second = <<>>
      BY <2>2
    <3>2. Reports(<<>>, JudgedReported, s.num, s.num)
      <4>1. Batch(<<>>, s.num, {})
        BY DEF Batch
      <4> QED BY <4>1 DEF Reports
    <3>3. \A x \in NonDecreasing : s.num[x] <= s.num[x]
      BY <1>5 DEF NonDecreasing, StateOK, States
    <3> HIDE DEF t, second
    <3> QED BY <1>5, <3>1, <3>2, <3>3
  <2> QED BY <2>1, <2>2
<1> HIDE DEF t, second
<1>8. PICK S \in SUBSET CrashReported :
             Batch(first, s.num, S) /\ \A x \in Reported \ S : s.num[x] = st[c].num[x]
  BY <1>6 DEF Reports
<1>9. PICK T \in SUBSET JudgedReported :
             Batch(second, t.num, T) /\ \A x \in Reported \ T : t.num[x] = s.num[x]
  BY <1>7 DEF Reports
<1>10. Batch(first \o second, t.num, S \cup T)
  <2>1. \A x \in S \cup {"execs"} : t.num[x] = s.num[x]
    BY <1>7 DEF CrashReported
  <2>2. Batch(first, t.num, S)
    <3>1. S \in SUBSET Stats
      BY DEF CrashReported, Stats
    <3> QED BY <1>8, <2>1, <3>1, BatchAgrees
  <2>3. \A x \in S : \A y \in T : Rank(x) < Rank(y)
    BY DEF Rank, CrashReported, JudgedReported
  <2> QED BY <1>9, <2>2, <2>3, JoinBatch
<1>11. Reports(first \o second, Stats \cup {"heartbeat"}, st[c].num, t.num)
  <2>1. S \cup T \in SUBSET (Stats \cup {"heartbeat"})
    BY DEF Stats, CrashReported, JudgedReported
  <2>2. \A x \in Reported \ (S \cup T) : t.num[x] = st[c].num[x]
    BY <1>8, <1>9
  <2> QED BY <1>10, <2>1, <2>2 DEF Reports
<1>12. \A x \in NonDecreasing : st[c].num[x] <= t.num[x]
  <2>1. \A x \in NonDecreasing : x \in Stats
    BY DEF NonDecreasing
  <2>2. \A x \in Stats : st[c].num[x] \in Nat /\ s.num[x] \in Nat /\ t.num[x] \in Nat
    BY <1>4, <1>5, <1>7 DEF StateOK, States
  <2> QED BY <1>5, <1>7, <2>1, <2>2
<1>13. ClientsInv'
  BY <1>2, <1>3, <1>7, <1>11, <1>12, ExecutionKeeps DEF CampaignInv
<1>14. DirsInv'
  BY <1>3, DirsKept DEF CampaignInv
<1> QED BY <1>13, <1>14 DEF CampaignInv

LEMMA DiesKeeps ==
  ASSUME CampaignInv, NEW c \in Clients, Dies(c)
  PROVE  CampaignInv'
<1>1. PICK cov \in SUBSET Edges, valid \in BOOLEAN, kind \in {"Timeout", "Panic"} :
       /\ st' = [st EXCEPT ![c] = [AfterCrash(st[c], cov, valid, kind)
                                     EXCEPT !.num["totaledges"] = 0]]
       /\ out' = [out EXCEPT ![c] = CrashReports(st[c], cov, valid, kind)]
  BY DEF Dies
<1> DEFINE s == AfterCrash(st[c], cov, valid, kind)
           t == [s EXCEPT !.num["totaledges"] = 0]
           q == CrashReports(st[c], cov, valid, kind)
<1>2. st' = [st EXCEPT ![c] = t] /\ out' = [out EXCEPT ![c] = q]
  BY <1>1
<1>3. out[c] = <<>> /\ UNCHANGED <<dir, seen, writer, csv, made>>
  BY DEF Dies, Executes
<1>4. StateOK(st[c])
  BY DEF CampaignInv, ClientsInv
<1> HIDE DEF s
<1>5. /\ StateOK(s) /\ \A x \in Stats : st[c].num[x] <= s.num[x]
  BY <1>4, CrashFacts DEF s
<1>6. Reports(q, CrashReported, st[c].num, s.num)
  BY <1>4, CrashFacts DEF s
<1>7. /\ t \in States /\ t.total = s.total /\ t.valid = s.valid
      /\ \A x \in Stats : t.num[x] = IF x = "totaledges" THEN 0 ELSE s.num[x]
  BY <1>5 DEF StateOK, States
<1> HIDE DEF t, q
<1>8. StateOK(t)
  <2>1. \A p \in Bounds : p[1] \in Stats \ {"totaledges"} /\ p[2] \in Stats \ {"totaledges"}
    BY BoundFacts DEF NonDecreasing
  <2>2. "totalcoverage" \in Stats /\ "validcoverage" \in Stats
    BY DEF Stats
  <2> QED BY <1>5, <1>7, <2>1, <2>2 DEF StateOK
<1>9. PICK S \in SUBSET CrashReported :
             Batch(q, s.num, S) /\ \A x \in Reported \ S : s.num[x] = st[c].num[x]
  BY <1>6 DEF Reports
<1>10. S \in SUBSET Stats /\ "execs" \in Stats /\ "totaledges" \notin S
  BY DEF CrashReported, Stats
<1>11. Reports(q, Stats \cup {"heartbeat"}, st[c].num, t.num)
  <2>1. \A x \in S \cup {"execs"} : t.num[x] = s.num[x]
    BY <1>7, <1>10
  <2>2. Batch(q, t.num, S)
    BY <1>9, <1>10, <2>1, BatchAgrees
  <2>3. \A x \in Reported \ S : t.num[x] = st[c].num[x]
    BY <1>7, <1>9 DEF Reported
  <2> QED BY <1>10, <2>2, <2>3 DEF Reports
<1>12. \A x \in NonDecreasing : st[c].num[x] <= t.num[x]
  BY <1>5, <1>7 DEF NonDecreasing
<1>13. ClientsInv'
  BY <1>2, <1>3, <1>8, <1>11, <1>12, ExecutionKeeps DEF CampaignInv
<1>14. DirsInv'
  BY <1>3, DirsKept DEF CampaignInv
<1> QED BY <1>13, <1>14 DEF CampaignInv

LEMMA HeartbeatKeeps ==
  ASSUME CampaignInv, NEW c \in Clients, Heartbeat(c)
  PROVE  CampaignInv'
<1> DEFINE num == st[c].num
           m == [stat |-> "heartbeat", value |-> 0, execs |-> num["execs"]]
<1>1. /\ out[c] = <<>> /\ out' = [out EXCEPT ![c] = <<m>>]
      /\ UNCHANGED <<dir, st, seen, writer, csv, made>>
  BY DEF Heartbeat, Fire
<1>2. StateOK(st[c]) /\ num \in [Stats -> Nat]
  BY DEF CampaignInv, ClientsInv, StateOK, States
<1>3. Batch(<<m>>, num, {"heartbeat"})
  <2>1. m \in Messages /\ m.stat = "heartbeat" /\ m.execs = num["execs"]
    BY <1>2 DEF Messages, Stats
  <2> HIDE DEF m
  <2>2. <<m>> \in Seq(Messages) /\ Len(<<m>>) = 1 /\ <<m>>[1] = m
    BY <2>1
  <2> QED BY <2>1, <2>2 DEF Batch
<1>4. st' = [st EXCEPT ![c] = st[c]]
  BY <1>1 DEF CampaignInv, ClientsInv
<1>5. \A x \in NonDecreasing : num[x] <= num[x]
  BY <1>2 DEF NonDecreasing
<1>6. Reports(<<m>>, Stats \cup {"heartbeat"}, num, num)
  BY <1>3 DEF Reports
<1> HIDE DEF m
<1>7. ClientsInv'
  BY <1>1, <1>2, <1>4, <1>5, <1>6, ExecutionKeeps DEF CampaignInv
<1>8. DirsInv'
  BY <1>1, DirsKept DEF CampaignInv
<1> QED BY <1>7, <1>8 DEF CampaignInv

(* A row is appended to those it is not below.                             *)
LEMMA AppendRow ==
  ASSUME NEW rows, RowsOK(rows), NEW row \in Rows,
         \A p \in Bounds : row[p[1]] <= row[p[2]],
         Below(rows, row)
  PROVE  RowsOK(Append(rows, row)) /\ Below(Append(rows, row), row)
<1> DEFINE n == Len(rows)
           t == Append(rows, row)
<1>1. /\ t \in Seq(Rows) /\ Len(t) = n + 1 /\ t[n + 1] = row
      /\ \A i \in 1..n : t[i] = rows[i]
  BY AppendProperties DEF RowsOK
<1>2. n \in Nat
  BY LenProperties DEF RowsOK
<1>3. /\ \A i \in 1..n : \A p \in Bounds : rows[i][p[1]] <= rows[i][p[2]]
      /\ \A i \in 2..n : \A s \in NonDecreasing : rows[i - 1][s] <= rows[i][s]
      /\ n # 0 /\ \A s \in NonDecreasing : rows[n][s] <= row[s]
  BY DEF RowsOK, Below
<1> HIDE DEF n, t
<1>4. \A i \in 1..(n + 1) : \A p \in Bounds : t[i][p[1]] <= t[i][p[2]]
  <2> SUFFICES ASSUME NEW i \in 1..(n + 1), NEW p \in Bounds PROVE t[i][p[1]] <= t[i][p[2]]
    OBVIOUS
  <2>1. CASE i \in 1..n
    BY <1>1, <1>3, <2>1
  <2>2. CASE i = n + 1
    BY <1>1, <2>2
  <2> QED BY <1>2, <2>1, <2>2
<1>5. \A i \in 2..(n + 1) : \A s \in NonDecreasing : t[i - 1][s] <= t[i][s]
  <2> SUFFICES ASSUME NEW i \in 2..(n + 1), NEW s \in NonDecreasing
               PROVE  t[i - 1][s] <= t[i][s]
    OBVIOUS
  <2>1. CASE i \in 2..n
    <3>1. i \in 1..n /\ i - 1 \in 1..n
      BY <1>2, <2>1
    <3> QED BY <1>1, <1>3, <2>1, <3>1
  <2>2. CASE i = n + 1
    <3>1. i - 1 = n /\ n \in 1..n
      BY <1>2, <1>3, <2>2
    <3> QED BY <1>1, <1>3, <2>2, <3>1
  <2> QED BY <1>2, <2>1, <2>2
<1>6. \A s \in NonDecreasing : row[s] <= row[s]
  BY DEF Rows, NonDecreasing
<1> QED BY <1>1, <1>2, <1>4, <1>5, <1>6 DEF RowsOK, Below, t

LEMMA FirstRow ==
  ASSUME NEW row \in Rows, \A p \in Bounds : row[p[1]] <= row[p[2]]
  PROVE  RowsOK(<<row>>) /\ Below(<<row>>, row)
<1>1. <<row>> \in Seq(Rows) /\ Len(<<row>>) = 1 /\ <<row>>[1] = row
  OBVIOUS
<1>2. \A s \in NonDecreasing : row[s] <= row[s]
  BY DEF Rows, NonDecreasing
<1> QED BY <1>1, <1>2 DEF RowsOK, Below

LEMMA BrokerKeeps ==
  ASSUME CampaignInv, NEW c \in Clients, Broker(c)
  PROVE  CampaignInv'
<1> DEFINE m == Head(out[c])
           w == Latest(seen[c], m)
<1>1. /\ seen' = [seen EXCEPT ![c] = w] /\ out' = [out EXCEPT ![c] = Tail(out[c])]
      /\ IF m.stat = "heartbeat" THEN Record(Row(seen')) ELSE UNCHANGED <<writer, csv>>
      /\ out[c] # <<>> /\ dir # NoDir
      /\ st' = st /\ dir' = dir /\ made' = made
  <2>1. out \in [Clients -> Seq(Messages)]
    BY DEF CampaignInv, ClientsInv
  <2> QED BY <2>1 DEF Broker, Latest
<1>2. /\ StateOK(st[c]) /\ Known(out[c], seen[c], st[c].num) /\ st[c].num \in [Stats -> Nat]
      /\ \A p \in Bounds : st[c].num[p[1]] <= st[c].num[p[2]]
  BY DEF CampaignInv, ClientsInv, StateOK, States
<1> HIDE DEF m
<1>3. Known(Tail(out[c]), w, st[c].num) /\ \A x \in NonDecreasing : seen[c][x] <= w[x]
  <2>1. w = Latest(seen[c], Head(out[c]))
    BY DEF m
  <2> DEFINE num == st[c].num
  <2> HIDE DEF num, w
  <2>2. Known(Tail(out[c]), w, num) /\ \A x \in NonDecreasing : seen[c][x] <= w[x]
    BY <1>1, <1>2, <2>1, HandleFacts DEF num
  <2> QED BY <2>2 DEF num
<1> HIDE DEF w
<1>4. /\ ClientsInv'
      /\ seen' \in [Clients -> [Stats -> Nat]]
      /\ \A e \in Clients : \A p \in Bounds : seen'[e][p[1]] <= seen'[e][p[2]]
  <2>1. w \in [Stats -> Nat] /\ \A p \in Bounds : w[p[1]] <= w[p[2]]
    BY <1>3 DEF Known
  <2>2. Tail(out[c]) \in Seq(Messages)
    BY <1>3 DEF Known, Reports, Batch
  <2>3. \A e \in Clients : \A p \in Bounds : seen[e][p[1]] <= seen[e][p[2]]
    BY DEF CampaignInv, ClientsInv, Known
  <2>4. /\ seen' \in [Clients -> [Stats -> Nat]] /\ out' \in [Clients -> Seq(Messages)]
        /\ st' \in [Clients -> States]
    BY <1>1, <2>1, <2>2 DEF CampaignInv, ClientsInv
  <2>5. ASSUME NEW e \in Clients
        PROVE  /\ StateOK(st'[e]) /\ Known(out'[e], seen'[e], st'[e].num)
               /\ \A p \in Bounds : seen'[e][p[1]] <= seen'[e][p[2]]
    <3>1. CASE e = c
      BY <1>1, <1>2, <1>3, <2>1, <3>1 DEF CampaignInv, ClientsInv
    <3>2. CASE e # c
      BY <1>1, <2>3, <3>2 DEF CampaignInv, ClientsInv
    <3> QED BY <3>1, <3>2
  <2> QED BY <2>4, <2>5 DEF ClientsInv
<1> DEFINE row == Row(seen')
<1>5. row \in Rows /\ \A p \in Bounds : row[p[1]] <= row[p[2]]
  BY <1>4, RowFacts DEF Rows
<1>6. \A s \in NonDecreasing : Row(seen)[s] <= row[s]
  <2>1. \A e \in Clients : \A s \in NonDecreasing : seen[e][s] <= seen'[e][s]
    <3> SUFFICES ASSUME NEW e \in Clients, NEW s \in NonDecreasing
                 PROVE  seen[e][s] <= seen'[e][s]
      OBVIOUS
    <3>1. seen \in [Clients -> [Stats -> Nat]] /\ s \in Stats
      BY DEF CampaignInv, ClientsInv, NonDecreasing
    <3>2. seen'[e] = IF e = c THEN w ELSE seen[e]
      BY <1>1, <3>1
    <3> QED BY <1>3, <3>1, <3>2
  <2> HIDE DEF row
  <2>2. seen \in [Clients -> [Stats -> Nat]] /\ Clients # {}
    BY DEF CampaignInv, ClientsInv
  <2> QED BY <1>4, <2>1, <2>2, RowGrows DEF row
<1>7. /\ dir \in Dirs /\ DOMAIN csv = Dirs /\ (\A d \in Dirs : RowsOK(csv[d]))
      /\ (writer => Below(csv[dir], Row(seen)))
  BY <1>1 DEF CampaignInv, DirsInv
<1>8. writer => Below(csv[dir], row)
  <2> SUFFICES ASSUME writer, Len(csv[dir]) # 0, NEW s \in NonDecreasing
               PROVE  csv[dir][Len(csv[dir])][s] <= row[s]
    BY <1>7 DEF Below
  <2>1. Len(csv[dir]) # 0 /\ csv[dir][Len(csv[dir])][s] <= Row(seen)[s]
    BY <1>7 DEF Below
  <2>2. csv[dir][Len(csv[dir])] \in Rows
    <3>1. csv[dir] \in Seq(Rows)
      BY <1>7 DEF RowsOK
    <3>2. Len(csv[dir]) \in 1..Len(csv[dir])
      BY <2>1, <3>1, LenProperties
    <3> QED BY <3>1, <3>2, ElementOfSeq
  <2>3. Row(seen) \in Rows
    <3>1. /\ seen \in [Clients -> [Stats -> Nat]]
          /\ \A e \in Clients : \A p \in Bounds : seen[e][p[1]] <= seen[e][p[2]]
      BY DEF CampaignInv, ClientsInv, Known
    <3> QED BY <3>1, RowFacts DEF Rows
  <2>4. s \in Stats
    BY DEF NonDecreasing
  <2> HIDE DEF row
  <2>5. csv[dir][Len(csv[dir])][s] \in Nat /\ Row(seen)[s] \in Nat /\ row[s] \in Nat
    BY <1>5, <2>2, <2>3, <2>4 DEF Rows
  <2> QED BY <1>6, <2>1, <2>5
<1> HIDE DEF row
<1>9. /\ DOMAIN csv' = Dirs /\ \A d \in Dirs : RowsOK(csv'[d])
      /\ writer' => Below(csv'[dir], row)
  <2>1. CASE m.stat = "heartbeat"
    <3>1. writer' /\ csv' = [csv EXCEPT ![dir] = IF writer THEN Append(csv[dir], row) ELSE <<row>>]
      BY <1>1, <1>7, <2>1 DEF Record, row
    <3> DEFINE new == IF writer THEN Append(csv[dir], row) ELSE <<row>>
    <3>2. RowsOK(new) /\ Below(new, row)
      BY <1>5, <1>7, <1>8, AppendRow, FirstRow
    <3> HIDE DEF new
    <3>3. csv' = [csv EXCEPT ![dir] = new]
      BY <3>1 DEF new
    <3>4. DOMAIN csv' = Dirs /\ \A d \in Dirs : csv'[d] = IF d = dir THEN new ELSE csv[d]
      BY <1>7, <3>3
    <3> QED BY <1>7, <3>2, <3>4
  <2>2. CASE m.stat # "heartbeat"
    BY <1>1, <1>7, <1>8, <2>2
  <2> QED BY <2>1, <2>2
<1>10. DirsInv'
  BY <1>1, <1>9 DEF CampaignInv, DirsInv, row
<1> QED BY <1>4, <1>10 DEF CampaignInv

LEMMA LaunchKeeps ==
  ASSUME CampaignInv, NEW d \in Dirs, Launch(d)
  PROVE  CampaignInv'
<1>1. ClientsInv'
  BY FreshClients DEF Launch
<1>2. IsFiniteSet(made \cup {d})
  BY FS_AddElement DEF CampaignInv, DirsInv
<1>3. dir' = d /\ made' = made \cup {d} /\ csv' = csv /\ ~writer'
  BY DEF Launch
<1>4. DirsInv'
  BY <1>2, <1>3 DEF CampaignInv, DirsInv
<1> QED BY <1>1, <1>4 DEF CampaignInv

LEMMA StopKeeps ==
  ASSUME CampaignInv, Stop
  PROVE  CampaignInv'
<1>1. ClientsInv'
  BY FreshClients DEF Stop
<1>2. dir' = NoDir /\ made' = made /\ csv' = csv /\ ~writer'
  BY DEF Stop
<1>3. DirsInv'
  BY <1>2 DEF CampaignInv, DirsInv
<1> QED BY <1>1, <1>3 DEF CampaignInv

LEMMA CampaignKeeps ==
  ASSUME CampaignInv, NextCampaign
  PROVE  CampaignInv'
BY LaunchKeeps, EvaluateKeeps, DiesKeeps, HeartbeatKeeps, BrokerKeeps, StopKeeps DEF NextCampaign

-----------------------------------------------------------------------------
(* The import.                                                             *)

Records == [run : Dirs, row : Rows]

LEMMA RowsOfFacts ==
  ASSUME NEW d \in Dirs, RowsOK(csv[d])
  PROVE  /\ RowsOf(d) \in Seq(Records)
         /\ Len(csv[d]) \in Nat /\ DOMAIN csv[d] = 1..Len(csv[d])
         /\ Len(RowsOf(d)) = IF Matches(d) THEN Len(csv[d]) ELSE 0
         /\ \A j \in 1..Len(RowsOf(d)) :
              RowsOf(d)[j].run = d /\ RowsOf(d)[j].row = csv[d][j]
<1>1. csv[d] \in Seq(Rows)
  BY DEF RowsOK
<1>2. /\ Len(csv[d]) \in Nat /\ DOMAIN csv[d] = 1..Len(csv[d])
      /\ \A j \in 1..Len(csv[d]) : csv[d][j] \in Rows
  BY <1>1, LenProperties, ElementOfSeq
<1>3. CASE Matches(d)
  <2> DEFINE rows == [j \in 1..Len(csv[d]) |-> [run |-> d, row |-> csv[d][j]]]
  <2>1. rows \in [1..Len(csv[d]) -> Records]
    BY <1>2 DEF Records
  <2>2. RowsOf(d) = rows
    BY <1>2, <1>3 DEF RowsOf
  <2>3. \A j \in 1..Len(csv[d]) : rows[j].run = d /\ rows[j].row = csv[d][j]
    OBVIOUS
  <2> HIDE DEF rows
  <2>4. rows \in Seq(Records) /\ Len(rows) = Len(csv[d])
    BY <1>2, <2>1, FunctionIsSeq
  <2> QED BY <1>2, <1>3, <2>2, <2>3, <2>4
<1>4. CASE ~Matches(d)
  <2>1. RowsOf(d) = <<>>
    BY <1>4 DEF RowsOf
  <2> QED BY <1>2, <1>4, <2>1
<1> QED BY <1>3, <1>4

(* The rows of the directories D, each once, and no other.                 *)
Holds(rows, D) ==
  /\ rows \in Seq(Records)
  /\ \A i \in 1..Len(rows) : rows[i].run \in D /\ Matches(rows[i].run)
  /\ \A d \in D : Matches(d) => StandsOnce(rows, d)

LEMMA HoldsMore ==
  ASSUME DirsInv, NEW D \in SUBSET Dirs, NEW rows, Holds(rows, D), NEW d \in Dirs, d \notin D
  PROVE  Holds(rows \o RowsOf(d), D \cup {d})
<1> DEFINE r == RowsOf(d)
           t == rows \o r
           m == Len(rows)
           n == Len(r)
<1>1. /\ r \in Seq(Records) /\ Len(csv[d]) \in Nat /\ DOMAIN csv[d] = 1..Len(csv[d])
      /\ n = IF Matches(d) THEN Len(csv[d]) ELSE 0
      /\ \A j \in 1..n : r[j].run = d /\ r[j].row = csv[d][j]
  BY RowsOfFacts DEF DirsInv
<1> HIDE DEF r
<1>2. rows \in Seq(Records)
  BY DEF Holds
<1>3. /\ t \in Seq(Records) /\ Len(t) = m + n /\ m \in Nat /\ n \in Nat
      /\ DOMAIN t = 1..(m + n) /\ DOMAIN rows = 1..m
      /\ \A i \in 1..m : t[i] = rows[i]
      /\ \A i \in 1..n : t[m + i] = r[i]
  <2>1. r \in Seq(Records)
    BY <1>1
  <2>2. DOMAIN rows = 1..m
    BY <1>2, LenProperties
  <2> QED BY <1>2, <2>1, <2>2, Concatenated
<1>4. \A i \in 1..m : rows[i].run \in D /\ rows[i].run # d /\ Matches(rows[i].run)
  BY DEF Holds
<1> HIDE DEF t, m, n
<1>5. \A i \in 1..(m + n) : \/ i \in 1..m /\ t[i] = rows[i]
                            \/ i \in (m + 1)..(m + n) /\ i - m \in 1..n /\ t[i] = r[i - m]
  <2>1. \A i \in 1..(m + n) : \/ i \in 1..m
                              \/ i \in (m + 1)..(m + n) /\ i - m \in 1..n /\ i = m + (i - m)
    BY <1>3
  <2> QED BY <1>3, <2>1
<1>6. \A i \in 1..(m + n) : IF i \in 1..m THEN t[i].run = rows[i].run ELSE t[i].run = d
  <2> SUFFICES ASSUME NEW i \in 1..(m + n)
               PROVE  IF i \in 1..m THEN t[i].run = rows[i].run ELSE t[i].run = d
    OBVIOUS
  <2>1. CASE i \in 1..m
    BY <1>3, <2>1
  <2>2. CASE i \notin 1..m
    BY <1>1, <1>5, <2>2
  <2> QED BY <2>1, <2>2
<1>7. \A i \in 1..(m + n) : t[i].run \in D \cup {d} /\ Matches(t[i].run)
  <2> SUFFICES ASSUME NEW i \in 1..(m + n) PROVE t[i].run \in D \cup {d} /\ Matches(t[i].run)
    OBVIOUS
  <2>1. CASE i \in 1..m
    BY <1>4, <1>6, <2>1
  <2>2. CASE i \notin 1..m
    <3>1. Matches(d)
      BY <1>1, <1>3, <2>2
    <3> QED BY <1>6, <2>2, <3>1
  <2> QED BY <2>1, <2>2
<1>8. ASSUME NEW e \in D, Matches(e) PROVE StandsOnce(t, e)
  <2>1. e \in Dirs /\ e # d /\ Len(csv[e]) \in Nat /\ DOMAIN csv[e] = 1..Len(csv[e])
    BY RowsOfFacts DEF DirsInv
  <2>2. PICK k \in 0..m :
             /\ k + Len(csv[e]) <= m
             /\ \A i \in 1..m : rows[i].run = e <=> i \in (k + 1)..(k + Len(csv[e]))
             /\ \A j \in DOMAIN csv[e] : rows[k + j].row = csv[e][j]
    <3>1. StandsOnce(rows, e)
      BY <1>8 DEF Holds
    <3> QED BY <1>3, <3>1 DEF StandsOnce, m
  <2> DEFINE l == Len(csv[e])
  <2> HIDE DEF l
  <2>3. k + l <= m /\ l \in Nat /\ \A i \in 1..m : rows[i].run = e <=> i \in (k + 1)..(k + l)
    BY <2>1, <2>2 DEF l
  <2>4. \A i \in 1..(m + n) : t[i].run = e <=> i \in (k + 1)..(k + l)
    <3> SUFFICES ASSUME NEW i \in 1..(m + n)
                 PROVE  t[i].run = e <=> i \in (k + 1)..(k + l)
      OBVIOUS
    <3>1. CASE i \in 1..m
      BY <1>6, <2>3, <3>1
    <3>2. CASE i \notin 1..m
      <4>1. t[i].run # e
        BY <1>6, <2>1, <3>2
      <4>2. i \notin (k + 1)..(k + l)
        BY <1>3, <2>3, <3>2
      <4> QED BY <4>1, <4>2
    <3> QED BY <3>1, <3>2
  <2>5. \A j \in 1..l : t[k + j].row = csv[e][j]
    <3> SUFFICES ASSUME NEW j \in 1..l PROVE t[k + j].row = csv[e][j]
      OBVIOUS
    <3>1. k + j \in 1..m
      BY <1>3, <2>3
    <3>2. rows[k + j].row = csv[e][j]
      BY <2>1, <2>2 DEF l
    <3> QED BY <1>3, <3>1, <3>2
  <2>6. k \in 0..(m + n) /\ k + l <= m + n
    BY <1>3, <2>3
  <2> QED BY <1>3, <2>1, <2>4, <2>5, <2>6 DEF StandsOnce, l
<1>9. ASSUME Matches(d) PROVE StandsOnce(t, d)
  <2>1. n = Len(csv[d])
    BY <1>1, <1>9
  <2>2. \A i \in 1..(m + n) : t[i].run = d <=> i \in (m + 1)..(m + n)
    <3> SUFFICES ASSUME NEW i \in 1..(m + n)
                 PROVE  t[i].run = d <=> i \in (m + 1)..(m + n)
      OBVIOUS
    <3>1. CASE i \in 1..m
      BY <1>3, <1>4, <1>6, <3>1
    <3>2. CASE i \notin 1..m
      BY <1>3, <1>6, <3>2
    <3> QED BY <3>1, <3>2
  <2>3. \A j \in 1..n : t[m + j].row = csv[d][j]
    BY <1>1, <1>3
  <2>4. m \in 0..(m + n) /\ m + n <= m + n
    BY <1>3
  <2>5. /\ m \in 0..Len(t) /\ m + Len(csv[d]) <= Len(t)
        /\ \A i \in DOMAIN t : t[i].run = d <=> i \in (m + 1)..(m + Len(csv[d]))
        /\ \A j \in DOMAIN csv[d] : t[m + j].row = csv[d][j]
    BY <1>1, <1>3, <2>1, <2>2, <2>3, <2>4
  <2> QED BY <2>5 DEF StandsOnce
<1>10. \A e \in D \cup {d} : Matches(e) => StandsOnce(t, e)
  BY <1>8, <1>9
<1> QED BY <1>3, <1>7, <1>10 DEF Holds, t, r

(* Whatever the order of the files, the import holds every row once.       *)
LEMMA ImportedFacts ==
  ASSUME DirsInv, NEW order \in Orders
  PROVE  Holds(Imported(order), made)
<1> DEFINE n == Cardinality(made)
           s == [i \in 1..n |-> RowsOf(order[i])]
<1>1. /\ n \in Nat /\ order \in [1..n -> made]
      /\ \A i, j \in 1..n : order[i] = order[j] => i = j
  BY FS_CardinalityType DEF DirsInv, Orders
<1>2. /\ \A i \in 1..n : order[i] \in Dirs /\ RowsOf(order[i]) \in Seq(Records)
  BY <1>1, RowsOfFacts DEF DirsInv
<1>3. s \in [1..n -> Seq(Records)] /\ Imported(order) = FlattenSeq(s)
  <2>1. DOMAIN order = 1..n
    BY <1>1
  <2> QED BY <1>2, <2>1 DEF Imported
<1>4. Len(s) = n /\ s \in Seq(Seq(Records))
  <2> HIDE DEF s, n
  <2> QED BY <1>1, <1>3, FunctionIsSeq
<1> DEFINE D(m) == {order[i] : i \in 1..m}
<1>5. Holds(Imported(order), D(n))
  <2>1. Holds(<<>>, {})
    BY DEF Holds
  <2>2. CASE n = 0
    <3>1. s = <<>>
      <4> HIDE DEF s
      <4> QED BY <1>4, <2>2, EmptySeq
    <3>2. FlattenSeq(s) = s
      <4> HIDE DEF s
      <4> QED BY <1>4, <2>2 DEF FlattenSeq
    <3>3. D(n) = {}
      BY <2>2
    <3> HIDE DEF s, D
    <3> QED BY <1>3, <2>1, <3>1, <3>2, <3>3
  <2>3. CASE n # 0
    <3>1. PICK f : /\ FlattenSeq(s) = f[n] /\ f[1] = s[1]
                   /\ \A i \in 2..n : f[i] = f[i - 1] \o s[i]
      <4> HIDE DEF s, n
      <4> QED BY <1>1, <1>4, <2>3, FlattenDefined
    <3> DEFINE Right == {m \in Nat : m \in 1..n => Holds(f[m], D(m))}
    <3>2. 0 \in Right
      OBVIOUS
    <3>3. ASSUME NEW m \in Nat, m \in Right PROVE m + 1 \in Right
      <4> SUFFICES ASSUME m + 1 \in 1..n PROVE Holds(f[m + 1], D(m + 1))
        OBVIOUS
      <4> DEFINE d == order[m + 1]
      <4>1. d \in Dirs /\ D(m) \in SUBSET Dirs /\ d \notin D(m) /\ D(m + 1) = D(m) \cup {d}
        <5>1. \A i \in 1..m : i \in 1..n /\ i # m + 1
          BY <1>1
        <5>2. 1..(m + 1) = (1..m) \cup {m + 1}
          OBVIOUS
        <5> QED BY <1>1, <1>2, <5>1, <5>2
      <4>2. s[m + 1] = RowsOf(d)
        OBVIOUS
      <4>3. CASE m = 0
        <5>1. D(m) = {} /\ f[m + 1] = RowsOf(d)
          BY <3>1, <4>2, <4>3
        <5>2. RowsOf(d) \in Seq(Records)
          BY <1>2
        <5> HIDE DEF D, d, s
        <5>3. Holds(<<>> \o RowsOf(d), D(m) \cup {d})
          BY <2>1, <4>1, <5>1, HoldsMore
        <5>4. <<>> \o RowsOf(d) = RowsOf(d)
          BY <5>2, ConcatEmptySeq
        <5> QED BY <4>1, <5>1, <5>3, <5>4
      <4>4. CASE m # 0
        <5>1. m + 1 \in 2..n /\ m \in 1..n /\ (m + 1) - 1 = m
          BY <1>1, <4>4
        <5>2. f[m + 1] = f[m] \o RowsOf(d)
          BY <3>1, <4>2, <5>1
        <5>3. Holds(f[m], D(m))
          BY <3>3, <5>1
        <5> HIDE DEF D, d, s
        <5>4. Holds(f[m] \o RowsOf(d), D(m) \cup {d})
          BY <4>1, <5>3, HoldsMore
        <5> QED BY <4>1, <5>2, <5>4
      <4> QED BY <4>3, <4>4
    <3> HIDE DEF Right
    <3>4. n \in Right
      BY <1>1, <3>2, <3>3, Induction
    <3>5. n \in 1..n
      BY <1>1, <2>3
    <3> HIDE DEF n, s, D
    <3> QED BY <1>3, <3>1, <3>4, <3>5 DEF Right
  <2> QED BY <2>2, <2>3
<1>6. D(n) = made
  <2>1. order \in Injection(1..n, made)
    BY <1>1 DEF Injection, IsInjective
  <2>2. IsFiniteSet(made) /\ Cardinality(1..n) = Cardinality(made)
    BY <1>1, FS_Interval DEF DirsInv
  <2>3. order \in Surjection(1..n, made)
    BY <2>1, <2>2, FS_Injection
  <2> QED BY <1>1, <2>3 DEF Surjection
<1> QED BY <1>5, <1>6

-----------------------------------------------------------------------------
(* The invariant of the post-processing: the older database is gone before *)
(* the import, the import holds every row once, and so the rows that are   *)
(* checked are consecutive in their runs exactly if they are in the file.  *)

Complaints == {"panic", "missing", "incomplete"}

PostInv ==
  /\ step \in {"idle", "delete", "import", "verify", "done"}
  /\ step = "import" => db = NoDb
  /\ step \in {"verify", "done"} => Holds(db.rows, made)
  /\ step \in {"delete", "import", "verify"} => \A e \in errors : e[1] \in Complaints
  /\ HeartbeatsHold

IInv == CampaignInv /\ PostInv

(* The checks of the database find nothing but what is excepted.           *)
LEMMA ChecksFacts ==
  ASSUME DirsInv, NEW rows, Holds(rows, made)
  PROVE  /\ Decreasing(rows) = {}
         /\ \A e \in Exceeding(rows) : e[1] = "exceeds" /\ e[2] = <<"validcorpus", "corpus">>
<1>1. /\ rows \in Seq(Records) /\ Len(rows) \in Nat /\ DOMAIN rows = 1..Len(rows)
      /\ \A i \in 1..Len(rows) : rows[i].run \in made /\ Matches(rows[i].run)
      /\ \A d \in made : Matches(d) => StandsOnce(rows, d)
  BY LenProperties DEF Holds
<1>2. ASSUME NEW d \in made
      PROVE  /\ RowsOK(csv[d]) /\ Len(csv[d]) \in Nat /\ DOMAIN csv[d] = 1..Len(csv[d])
  BY RowsOfFacts DEF DirsInv
<1>3. ASSUME NEW i \in 1..Len(rows)
      PROVE  \E k \in 0..Len(rows) :
               /\ \A j \in 1..Len(rows) :
                    rows[j].run = rows[i].run <=> j \in (k + 1)..(k + Len(csv[rows[i].run]))
               /\ \A j \in 1..Len(csv[rows[i].run]) : rows[k + j].row = csv[rows[i].run][j]
  <2> DEFINE d == rows[i].run
  <2>1. StandsOnce(rows, d) /\ d \in made
    BY <1>1
  <2> HIDE DEF d
  <2>2. DOMAIN csv[d] = 1..Len(csv[d])
    BY <1>2, <2>1
  <2>3. PICK k \in 0..Len(rows) :
          /\ \A j \in DOMAIN rows : rows[j].run = d <=> j \in (k + 1)..(k + Len(csv[d]))
          /\ \A j \in DOMAIN csv[d] : rows[k + j].row = csv[d][j]
    BY <2>1 DEF StandsOnce
  <2>4. /\ \A j \in 1..Len(rows) : rows[j].run = d <=> j \in (k + 1)..(k + Len(csv[d]))
        /\ \A j \in 1..Len(csv[d]) : rows[k + j].row = csv[d][j]
    BY <1>1, <2>2, <2>3
  <2> QED BY <2>4 DEF d
<1>4. ASSUME NEW t \in NonDecreasing, NEW i \in 2..Len(rows), rows[i].run = rows[i - 1].run
      PROVE  ~(rows[i].row[t] < rows[i - 1].row[t])
  <2>1. i \in 1..Len(rows) /\ i - 1 \in 1..Len(rows)
    BY <1>1
  <2> DEFINE d == rows[i].run
             l == Len(csv[d])
  <2>2. d \in made /\ l \in Nat /\ RowsOK(csv[d])
    BY <1>1, <1>2, <2>1
  <2>3. PICK k \in 0..Len(rows) :
               /\ \A j \in 1..Len(rows) : rows[j].run = d <=> j \in (k + 1)..(k + l)
               /\ \A j \in 1..l : rows[k + j].row = csv[d][j]
    BY <1>3, <2>1
  <2>4. i \in (k + 1)..(k + l) /\ i - 1 \in (k + 1)..(k + l)
    BY <1>4, <2>1, <2>3
  <2> HIDE DEF d, l
  <2> DEFINE j == i - k
  <2>5. /\ j \in 1..l /\ j - 1 \in 1..l /\ j \in 2..l /\ i = k + j /\ i - 1 = k + (j - 1)
    BY <1>1, <2>1, <2>2, <2>4
  <2> HIDE DEF j
  <2>6. rows[i].row = csv[d][j] /\ rows[i - 1].row = csv[d][j - 1]
    BY <2>3, <2>5
  <2>7. csv[d][j - 1][t] <= csv[d][j][t]
    BY <2>2, <2>5 DEF RowsOK, l
  <2>8. csv[d][j][t] \in Nat /\ csv[d][j - 1][t] \in Nat
    <3>1. csv[d] \in Seq(Rows) /\ t \in Stats
      BY <2>2 DEF RowsOK, NonDecreasing
    <3>2. csv[d][j] \in Rows /\ csv[d][j - 1] \in Rows
      BY <2>5, <3>1, ElementOfSeq DEF l
    <3> QED BY <3>1, <3>2 DEF Rows
  <2> QED BY <2>6, <2>7, <2>8
<1>5. Decreasing(rows) = {}
  BY <1>4 DEF Decreasing
<1>6. ASSUME NEW p \in Bounds, NEW i \in 1..Len(rows)
      PROVE  ~(rows[i].row[p[1]] > rows[i].row[p[2]])
  <2> DEFINE d == rows[i].run
             l == Len(csv[d])
  <2>1. d \in made /\ l \in Nat /\ RowsOK(csv[d])
    BY <1>1, <1>2
  <2>2. PICK k \in 0..Len(rows) :
               /\ \A j \in 1..Len(rows) : rows[j].run = d <=> j \in (k + 1)..(k + l)
               /\ \A j \in 1..l : rows[k + j].row = csv[d][j]
    BY <1>3
  <2>3. i \in (k + 1)..(k + l)
    BY <2>2
  <2> HIDE DEF d, l
  <2> DEFINE j == i - k
  <2>4. j \in 1..l /\ i = k + j
    BY <1>1, <2>1, <2>3
  <2> HIDE DEF j
  <2>5. rows[i].row = csv[d][j]
    BY <2>2, <2>4
  <2>6. csv[d][j] \in Rows
    <3>1. csv[d] \in Seq(Rows)
      BY <2>1 DEF RowsOK
    <3> QED BY <2>4, <3>1, ElementOfSeq DEF l
  <2>7. csv[d][j][p[1]] <= csv[d][j][p[2]]
    BY <2>1, <2>4 DEF RowsOK, l
  <2>8. csv[d][j][p[1]] \in Nat /\ csv[d][j][p[2]] \in Nat
    BY <2>6, BoundFacts DEF Rows
  <2> QED BY <2>5, <2>7, <2>8
<1>7. \A e \in Exceeding(rows) : e[1] = "exceeds" /\ e[2] = <<"validcorpus", "corpus">>
  <2> SUFFICES ASSUME NEW q \in AtMost, NEW i \in 1..Len(rows),
                      rows[i].row[q[1]] > rows[i].row[q[2]]
               PROVE  q = <<"validcorpus", "corpus">>
    BY <1>1 DEF Exceeding, ToSet
  <2> QED BY <1>6 DEF Bounds
<1> QED BY <1>5, <1>7

LEMMA PostStarts == Init => IInv
BY CampaignStarts DEF Init, IInv, PostInv, HeartbeatsHold

LEMMA FuzzKeeps ==
  ASSUME IInv, Fuzz
  PROVE  IInv'
<1>1. CampaignInv'
  BY CampaignKeeps DEF IInv, Fuzz
<1>2. step' = "idle"
  BY DEF Fuzz, results
<1> QED BY <1>1, <1>2 DEF IInv, PostInv, HeartbeatsHold

(* The processing of the results changes nothing of the campaign.          *)
LEMMA CampaignKept ==
  ASSUME CampaignInv, UNCHANGED fuzzing
  PROVE  CampaignInv'
<1>1. st' = st /\ out' = out /\ seen' = seen /\ UNCHANGED <<dir, seen, writer, csv, made>>
  BY DEF fuzzing
<1>2. ClientsInv'
  BY <1>1 DEF CampaignInv, ClientsInv
<1> QED BY <1>1, <1>2, DirsKept DEF CampaignInv

LEMMA HoldsKept ==
  ASSUME NEW rows, NEW D, Holds(rows, D), UNCHANGED csv
  PROVE  Holds(rows, D)'
<1>1. \A d : StandsOnce(rows, d) => StandsOnce(rows, d)'
  BY DEF StandsOnce
<1> QED BY <1>1 DEF Holds

LEMMA CheckRunsKeeps ==
  ASSUME IInv, CheckRuns
  PROVE  IInv'
<1>1. CampaignInv'
  BY CampaignKept DEF IInv, CheckRuns
<1>2. step' = "delete" /\ \A e \in errors' : e[1] \in Complaints
  BY DEF CheckRuns, Missing, Complaints
<1> QED BY <1>1, <1>2 DEF IInv, PostInv, HeartbeatsHold

LEMMA DeleteDbKeeps ==
  ASSUME IInv, DeleteDb
  PROVE  IInv'
<1>1. CampaignInv'
  BY CampaignKept DEF IInv, DeleteDb
<1>2. step' = "import" /\ db' = NoDb /\ errors' = errors /\ step = "delete"
  BY DEF DeleteDb
<1> QED BY <1>1, <1>2 DEF IInv, PostInv, HeartbeatsHold, NoDb

LEMMA ImportKeeps ==
  ASSUME IInv, Import
  PROVE  IInv'
<1>1. CampaignInv'
  BY CampaignKept DEF IInv, Import
<1>2. step = "import" /\ step' = "verify" /\ errors' = errors /\ csv' = csv /\ made' = made
  BY DEF Import, fuzzing
<1>3. PICK o \in Orders : db' = [there |-> TRUE, rows |-> db.rows \o Imported(o)]
  BY DEF Import, Imports
<1>4. Holds(Imported(o), made)
  BY ImportedFacts DEF IInv, CampaignInv
<1>5. PICK rows : rows = Imported(o)
  OBVIOUS
<1>6. db'.rows = rows
  <2>1. db.rows = <<>>
    BY <1>2 DEF IInv, PostInv, NoDb
  <2>2. <<>> \o Imported(o) = Imported(o)
    BY <1>4, ConcatEmptySeq DEF Holds
  <2> QED BY <1>3, <1>5, <2>1, <2>2
<1>7. Holds(rows, made)'
  BY <1>2, <1>4, <1>5, HoldsKept
<1> QED BY <1>1, <1>2, <1>6, <1>7 DEF IInv, PostInv, HeartbeatsHold

LEMMA VerifyKeeps ==
  ASSUME IInv, Verify
  PROVE  IInv'
<1>1. CampaignInv'
  BY CampaignKept DEF IInv, Verify
<1>2. /\ step = "verify" /\ step' = "done" /\ db' = db /\ csv' = csv /\ made' = made
      /\ errors' = errors \cup Decreasing(db.rows) \cup Varying(db.rows) \cup Zero(db.rows)
                      \cup Exceeding(db.rows)
  BY DEF Verify, fuzzing
<1>3. Holds(db.rows, made) /\ \A e \in errors : e[1] \in Complaints
  BY <1>2 DEF IInv, PostInv
<1>4. /\ Decreasing(db.rows) = {}
      /\ \A e \in Exceeding(db.rows) : e[1] = "exceeds" /\ e[2] = <<"validcorpus", "corpus">>
  BY <1>3, ChecksFacts DEF IInv, CampaignInv
<1>5. (\A e \in Varying(db.rows) : e[1] = "varies") /\ (\A e \in Zero(db.rows) : e[1] = "zero")
  BY DEF Varying, Zero
<1>6. HeartbeatsHold'
  BY <1>2, <1>3, <1>4, <1>5 DEF HeartbeatsHold, Complaints
<1>7. Holds(db.rows, made)'
  BY <1>2, <1>3, HoldsKept
<1> QED BY <1>1, <1>2, <1>6, <1>7 DEF IInv, PostInv

LEMMA LeaveKeeps ==
  ASSUME IInv, Leave
  PROVE  IInv'
<1>1. CampaignInv'
  BY CampaignKept DEF IInv, Leave
<1>2. step' = "idle"
  BY DEF Leave
<1> QED BY <1>1, <1>2 DEF IInv, PostInv, HeartbeatsHold

LEMMA ImportByHandKeeps ==
  ASSUME IInv, ImportByHand
  PROVE  IInv'
<1>1. CampaignInv'
  BY CampaignKept DEF IInv, ImportByHand
<1>2. step' = "idle"
  BY DEF ImportByHand
<1> QED BY <1>1, <1>2 DEF IInv, PostInv, HeartbeatsHold

LEMMA NextKeeps == IInv /\ [Next]_vars => IInv'
<1> SUFFICES ASSUME IInv, [Next]_vars PROVE IInv'
  OBVIOUS
<1>1. CASE Next
  BY <1>1, FuzzKeeps, CheckRunsKeeps, DeleteDbKeeps, ImportKeeps, VerifyKeeps, LeaveKeeps,
     ImportByHandKeeps DEF Next, Post
<1>2. CASE UNCHANGED vars
  <2>1. CampaignInv'
    BY <1>2, CampaignKept DEF IInv, vars
  <2>2. step' = step /\ db' = db /\ errors' = errors /\ csv' = csv /\ made' = made
    BY <1>2 DEF vars, fuzzing, results
  <2>3. step \in {"verify", "done"} => Holds(db.rows, made)'
    BY <2>2, HoldsKept DEF IInv, PostInv
  <2> QED BY <2>1, <2>2, <2>3 DEF IInv, PostInv, HeartbeatsHold
<1> QED BY <1>1, <1>2

THEOREM Invariance == Spec => []IInv
BY PostStarts, NextKeeps, PTL DEF Spec

-----------------------------------------------------------------------------
(* What the runs check, for every value of the constants.                  *)

(* Once a client's messages are handled, the monitor knows of every        *)
(* statistic what the client does, also across the death of a client       *)
(* (feedback.rs, monitor.rs).                                              *)
THEOREM MonitorIsExact == Spec => []MonitorCatchesUp
<1>1. IInv => MonitorCatchesUp
  <2> SUFFICES ASSUME IInv, NEW c \in Clients, out[c] = <<>>,
                      NEW s \in Stats \ {"execs", "totaledges"}
               PROVE  seen[c][s] = st[c].num[s]
    BY DEF MonitorCatchesUp
  <2>1. Known(<<>>, seen[c], st[c].num) /\ s \in Reported
    BY DEF IInv, CampaignInv, ClientsInv, Reported
  <2> QED BY <2>1, QuietFacts
<1> QED BY <1>1, Invariance, PTL

(* The checks of the heartbeats hold of whatever the broker wrote, but for *)
(* the one bound the order of a client's messages can break                *)
(* (post-process.ts:420-451).                                              *)
THEOREM ChecksPass == Spec => []HeartbeatsHold
<1>1. IInv => HeartbeatsHold
  BY DEF IInv, PostInv
<1> QED BY <1>1, Invariance, PTL

(* The database that is checked holds every row of every run once, in one  *)
(* block and in order, in whatever order the files are found and whatever  *)
(* was imported before (post-process.ts:312-331).                          *)
THEOREM ImportIsExact == Spec => []ImportedOnce
<1>1. IInv => ImportedOnce
  <2> SUFFICES ASSUME IInv, step \in {"verify", "done"}
               PROVE  /\ \A i \in DOMAIN db.rows :
                           db.rows[i].run \in made /\ Matches(db.rows[i].run)
                      /\ \A d \in made : Matches(d) => StandsOnce(db.rows, d)
    BY DEF ImportedOnce
  <2>1. Holds(db.rows, made)
    BY DEF IInv, PostInv
  <2> QED BY <2>1, LenProperties DEF Holds
<1> QED BY <1>1, Invariance, PTL

=============================================================================
