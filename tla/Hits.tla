-------------------------------- MODULE Hits --------------------------------
(***************************************************************************)
(* How often each arm ran, as V8 tells it: the ranges of a coverage dump,  *)
(* the sum of several dumps and the join of ranges to arms                 *)
(* (v8-to-canonical.ts), and the counters that instrument.ts inserts.      *)
(***************************************************************************)
EXTENDS Branches

(* What a run counts: how often control entered each node (a function when *)
(* it is called) and how often it left each node normally.                 *)
Nothing(p) == [in |-> [n \in DOMAIN p |-> 0], past |-> [n \in DOMAIN p |-> 0]]

-----------------------------------------------------------------------------
(* V8's dump, as the comments of the join describe it: one range for every *)
(* function and for every arm that V8 counts, and one from the end of each *)
(* construct to the end of the arm around it, half-open; a range with the  *)
(* count of the range around it is left out.                               *)
ArmSlots == {"consequent", "alternate", "right", "finalizer"}
Counted(p, n) ==
  \/ p[n].kind \in Scopes \cup {"Case", "Default"}
  \/ p[n].slot \in ArmSlots
  \/ p[n].slot = "body" /\ p[p[n].up].kind \in Loops \cup {"Catch"}

(* The constructs that control may not come out of at their end.           *)
Diverts(p, n) == p[n].kind \in {"If", "Switch", "Try", "Return", "Throw", "Break"} \cup Loops

(* A function that is itself an arm has two ranges of the same extent: one *)
(* of its own, which counts its calls, and the arm's, in the function      *)
(* around it, which counts its evaluations.                                *)
Range1(from, to, count) == [from |-> from, to |-> to, count |-> count]
Inside(r, s) == s.from <= r.from /\ r.to <= s.to /\ (r.from # s.from \/ r.to # s.to)

AllRanges(p, run, f) ==
  LET at == Offset(p)
      of(n, count) == Range1(at[n].from, at[n].to, count)
      mine == {n \in DOMAIN p : FunctionOf(p, n) = f}
      arms == {n \in Kinds(p, {"Function"}) : p[n].slot \in ArmSlots /\ FunctionOf(p, p[n].up) = f}
      around(n) == Max({m \in Upwards(p, n) : Counted(p, m)})
  IN {of(n, run.in[n]) : n \in {m \in mine : Counted(p, m)}}
     \cup {of(n, run.past[n]) : n \in arms}
     \cup {r \in {Range1(at[n].to, at[around(n)].to, run.past[n]) :
                    n \in {m \in mine : Diverts(p, m)}} : r.from < r.to}

Ranges(p, run, f) ==
  LET all == AllRanges(p, run, f)
      around(r) == {s \in all : Inside(r, s)}
      closest(r) == CHOOSE s \in around(r) : \A t \in around(r) : s = t \/ Inside(s, t)
  IN {r \in all : around(r) # {} => closest(r).count # r.count}

(* Functions that were never defined are not reported.                     *)
Dump(p, run, defined) == [f \in {1} \cup defined |-> Ranges(p, run, f)]

-----------------------------------------------------------------------------
(* The ranges of a function in two dumps: the counts of identical ranges   *)
(* are added, the others are kept.                                         *)
Summed(a, b) ==
  LET same(r, s) == r.from = s.from /\ r.to = s.to
      twin(r, S) == {s \in S : same(r, s)}
  IN {[r EXCEPT !.count = @ + MapThenSumSet(LAMBDA s : s.count, twin(r, b))] : r \in a}
     \cup {s \in b : twin(s, a) = {}}

(* mergeScriptCoverages: functions by name and extent.                     *)
MergeScriptCoverages(a, b) ==
  [f \in DOMAIN a \cup DOMAIN b |->
     IF f \notin DOMAIN a THEN b[f] ELSE IF f \notin DOMAIN b THEN a[f] ELSE Summed(a[f], b[f])]

-----------------------------------------------------------------------------
AllOf(coverage) == UNION {coverage[f] : f \in DOMAIN coverage}

(* The smallest of some ranges, and of two with the same extent the one of *)
(* the function that is listed first.                                      *)
Owner(coverage, r) == Min({f \in DOMAIN coverage : r \in coverage[f]})
Smallest(coverage, S) ==
  LET least == {r \in S : \A s \in S : r.to - r.from <= s.to - s.from}
  IN CHOOSE r \in least : \A s \in least : Owner(coverage, r) <= Owner(coverage, s)
ExactOf(S, from, to) == {r \in S : r.from = from /\ r.to = to}

(* findRange: the arm's own range, in the last function that has one, or   *)
(* the smallest around it.                                                 *)
FindRange(coverage, arm) ==
  LET exact(f) == ExactOf(coverage[f], arm.from, arm.to)
      having == {f \in DOMAIN coverage : exact(f) # {}}
  IN IF having # {} THEN exact(Max(having))
     ELSE {r \in AllOf(coverage) : r.from <= arm.from /\ r.to >= arm.to}

(* Mutant of FindContinuationRange: the ranges that start at the point are *)
(* not looked for.                                                         *)
FindAroundPoint(S, x) == {r \in S : r.from < x /\ r.to > x}

(* findContinuationRange: the innermost range that starts at the point, or *)
(* the smallest that contains it.                                          *)
FindContinuationRange(S, x) ==
  LET starting == {r \in S : r.from = x}
  IN IF starting # {} THEN starting ELSE {r \in S : r.from <= x /\ r.to > x}

(* joinC8ToCanonical: the row of an arm.                                   *)
Joined(coverage, arm) ==
  LET S == AllOf(coverage)
      found == IF arm.point THEN FindContinuationRange(S, arm.from) ELSE FindRange(coverage, arm)
  IN [id |-> ArmId(arm),
      hitcount |-> IF found = {} THEN 0 ELSE Smallest(coverage, found).count,
      matched |-> found # {},
      exact |-> ~arm.point /\ ExactOf(S, arm.from, arm.to) # {}]

-----------------------------------------------------------------------------
(* The counters of the instrumented file: the nodes whose entry one counts *)
(* and those after which one is inserted.  The chain of operands of a      *)
(* logical expression is counted at its leaves only.                       *)
CountersIn(p) ==
  {n \in DOMAIN p :
     \/ p[n].kind \in {"Function", "Case", "Default"}
     \/ p[n].slot \in {"consequent", "alternate", "block", "finalizer"}
     \/ p[n].slot = "body" /\ p[p[n].up].kind \in Loops \cup {"Catch"}
     \/ p[n].slot \in {"left", "right"} /\ p[n].kind # "Logical"}

(* Mutant of CountersAfter: nothing is inserted after a loop.              *)
CountersAfterIfs(p) == Kinds(p, {"If", "Switch", "Try"})

CountersAfter(p) == Kinds(p, {"If", "Switch", "Try"} \cup Loops)

(* The counter that an arm's first step hits, if it has one.               *)
CounterOf(p, arm) ==
  IF arm.point THEN arm.node
  ELSE LET leaf[n \in DOMAIN p] ==
             IF p[n].kind = "Logical" THEN leaf[Only(At(p, n, {"left"}))] ELSE n
       IN leaf[arm.node]

=============================================================================
