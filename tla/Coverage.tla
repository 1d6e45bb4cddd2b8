------------------------------ MODULE Coverage ------------------------------
(***************************************************************************)
(* The coverage that the evaluation reports for a library's file:          *)
(*                                                                         *)
(*   - make-metrics-db.ts imports each library, extracts the branch arms   *)
(*     and functions of its files and inserts them;                        *)
(*   - replays of the corpus load the file under c8, call its functions    *)
(*     and dump V8's ranges, one dump for every process of a run;          *)
(*   - coverage-to-sqlite.ts merges the dumps of a run, joins the ranges   *)
(*     to the arms and writes the rows.                                    *)
(***************************************************************************)
EXTENDS Hits, Lcov

CONSTANTS Files,     \* the files, as syntax trees
          Projects,  \* the libraries, in the order of the list of main
          Runs,      \* the directories of runs
          MaxCalls, MaxTurns, MaxDumps  \* bounds: calls in a process, turns of a loop, dumps

ASSUME CoverageAssumption ==
  /\ \A p \in Files : Tree(p) /\ Grammar(p) /\ Shape(p)
  /\ IsFiniteSet(Runs)
  /\ {MaxCalls, MaxTurns, MaxDumps} \subseteq Nat

VARIABLES
  file,      \* the file of this behaviour
  projects,  \* the libraries still to be analyzed
  extract,   \* the extraction in progress
  db,        \* metrics.db: the branches of each library, and the functions
  at,        \* where the process is in the file
  frame,     \* the call it is in: a function, or the root while it is loaded
  outcome,   \* the last outcome of every test in this call, if it was made
  seen,      \* what the process has counted
  defined,   \* the functions it can call
  calls,     \* how many it has made
  dumps,     \* the dumps of each run
  ran,       \* how often each node really ran, by run
  rows,      \* the table coverage of each run, and how many dumps it tells
  report     \* the runs that were compared, and what the report of it shows

analysis == <<projects, extract, db>>
process == <<at, frame, outcome, seen, defined, calls>>
results == <<dumps, ran>>
tables == <<rows, report>>
vars == <<file, analysis, process, results, tables>>

Exited == Out(0, "exit")
Idle == Out(0, "idle")
NotExtracting == [place |-> [node |-> 0, entering |-> FALSE], arms |-> <<>>, functions |-> {}]
Unknown == [n \in DOMAIN file |-> {}]

-----------------------------------------------------------------------------
(* analyzeProject: the import runs the load hook, but for a file that an   *)
(* earlier import has cached.                                              *)
ImportProject ==
  /\ projects # <<>> /\ extract = NotExtracting /\ db.files = {}
  /\ extract' = Untouched(file)
  /\ UNCHANGED <<file, projects, db, process, results, tables>>

ImportCached ==
  /\ projects # <<>> /\ extract = NotExtracting /\ db.files # {}
  /\ projects' = Tail(projects)
  /\ UNCHANGED <<file, extract, db, process, results, tables>>

Traverse ==
  /\ extract # NotExtracting /\ ~Extracted(extract)
  /\ extract' = Visit(file, extract)
  /\ UNCHANGED <<file, projects, db, process, results, tables>>

(* main, for one library: every branch must have its function, and the     *)
(* functions' ids are keys.                                                *)
Insert ==
  /\ extract # NotExtracting /\ Extracted(extract)
  /\ \A i \in DOMAIN extract.arms : extract.arms[i].fn \in extract.functions
  /\ db' = [files |-> {file}, library |-> Head(projects), branches |-> extract.arms,
            functions |-> extract.functions, counts |-> extract.counts]
  /\ extract' = NotExtracting
  /\ projects' = Tail(projects)
  /\ UNCHANGED <<file, process, results, tables>>

-----------------------------------------------------------------------------
Added(f, n) == [f EXCEPT ![n] = @ + 1]

(* Reaching a place counts it; a function counts when it is called.        *)
Counts(place) ==
  CASE place.node = frame -> seen
    [] place.node # frame /\ place.how = "in" /\ file[place.node].kind # "Function" ->
         [seen EXCEPT !.in = Added(@, place.node)]
    [] place.node # frame /\ place.how = "normal" -> [seen EXCEPT !.past = Added(@, place.node)]
    [] OTHER -> seen

(* A function can be called once it is evaluated.                          *)
Defining(place) ==
  defined \cup {f \in {place.node} : place.how = "in" /\ file[f].kind = "Function"}

(* A replay loads the file.                                                *)
Start ==
  /\ projects = <<>> /\ at = Exited /\ rows.of = 0 /\ report.of = <<>>
  /\ MapThenSumSet(LAMBDA r : Len(dumps[r]), Runs) < MaxDumps
  /\ at' = In(1) /\ frame' = 1 /\ outcome' = Unknown
  /\ seen' = [Nothing(file) EXCEPT !.in = Added(@, 1)]
  /\ defined' = {} /\ calls' = 0
  /\ UNCHANGED <<file, analysis, results, tables>>

(* It calls one of the functions it can reach.                             *)
CallFunction ==
  /\ at = Idle /\ calls < MaxCalls
  /\ \E f \in defined :
       /\ at' = In(Only(At(file, f, {"body"}))) /\ frame' = f
       /\ seen' = [Counts(at') EXCEPT !.in = Added(@, f)]
  /\ defined' = Defining(at')
  /\ outcome' = Unknown
  /\ calls' = calls + 1
  /\ UNCHANGED <<file, analysis, results, tables>>

Moves == IF at.how = "in" THEN Enters(file, at.node)
         ELSE Leaves(file, at.node, at.how, Only(outcome[file[at.node].up]))

InCall == at \notin {Exited, Idle}
Ended == at.how # "in" /\ at.node = frame

Step ==
  /\ InCall /\ ~Ended
  /\ \E s \in Moves :
       /\ s.to.how = "in" /\ file[s.to.node].slot = "body" => seen.in[s.to.node] < MaxTurns
       /\ at' = s.to
       /\ seen' = Counts(s.to)
       /\ outcome' = IF s.test = 0 THEN outcome ELSE [outcome EXCEPT ![s.test] = {s.outcome}]
       /\ defined' = Defining(s.to)
  /\ UNCHANGED <<file, analysis, frame, calls, results, tables>>

Return ==
  /\ InCall /\ Ended
  /\ at' = Idle
  /\ UNCHANGED <<file, analysis, frame, outcome, seen, defined, calls, results, tables>>

-----------------------------------------------------------------------------
Plus(a, b) == [w \in DOMAIN a |-> [n \in DOMAIN file |-> a[w][n] + b[w][n]]]

(* The process of a run exits, and c8 keeps its dump.                      *)
WriteDump ==
  /\ at = Idle
  /\ at' = Exited /\ frame' = 0 /\ outcome' = Unknown /\ seen' = Nothing(file)
  /\ defined' = {} /\ calls' = 0
  /\ \E r \in Runs :
       /\ dumps' = [dumps EXCEPT ![r] = Append(@, Dump(file, seen, defined))]
       /\ ran' = [ran EXCEPT ![r] = Plus(@, seen)]
  /\ UNCHANGED <<file, analysis, tables>>

Merged(r) == FoldLeft(MergeScriptCoverages, Head(dumps[r]), Tail(dumps[r]))

(* coverage-to-sqlite: the table is dropped and written from the dumps.    *)
Convert ==
  /\ projects = <<>> /\ at = Exited /\ rows.of = 0
  /\ \E r \in Runs : dumps[r] # <<>>
  /\ rows' = [of |-> MapThenSumSet(LAMBDA r : Len(dumps[r]), Runs),
              table |-> [r \in {q \in Runs : dumps[q] # <<>>} |->
                           [i \in DOMAIN db.branches |-> Joined(Merged(r), db.branches[i])]]]
  /\ UNCHANGED <<file, analysis, process, results, report>>

(* c8's lcov.info of a run: a line for every node, a branch for every      *)
(* block, the functions by their names, which may be shared.               *)
FunctionName(n) == file[n].slot
Nodes == [n \in DOMAIN file |-> n]
InOrder(S) == Picked(Nodes, S)

Lines(r) ==
  LET fns == InOrder(Kinds(file, {"Function"}))
      blocks == InOrder({n \in DOMAIN file : Counted(file, n) /\ file[n].kind \notin Scopes})
  IN IF dumps[r] = <<>> THEN <<>>
     ELSE <<<<"TN">>, <<"SF", "index.js">>>>
          \o Each(fns, LAMBDA n : <<"FN", n, FunctionName(n)>>)
          \o Each(fns, LAMBDA n : <<"FNDA", ran[r].in[n], FunctionName(n)>>)
          \o Each(Nodes, LAMBDA n : <<"DA", n, ran[r].in[n]>>)
          \o Each(blocks, LAMBDA n : <<"BRDA", n, n, 0, ran[r].in[n]>>)
          \o <<<<"end_of_record">>>>

(* lcov-diff of two runs, piped into lcov-to-html.                         *)
Compare ==
  /\ projects = <<>> /\ at = Exited /\ report.of = <<>>
  /\ \E base, new \in Runs :
       /\ dumps[new] # <<>>
       /\ report' = [of |-> <<base, new>>,
                     files |-> Each(ParseLcov(FormatLcov(Diff(ParseLcov(Lines(base)),
                                                              ParseLcov(Lines(new))))), ToIstanbul)]
  /\ UNCHANGED <<file, analysis, process, results, rows>>

-----------------------------------------------------------------------------
Init ==
  /\ file \in Files
  /\ projects = Projects /\ extract = NotExtracting
  /\ db = [files |-> {}, library |-> "", branches |-> <<>>, functions |-> {}, counts |-> <<>>]
  /\ at = Exited /\ frame = 0 /\ outcome = Unknown /\ seen = Nothing(file)
  /\ defined = {} /\ calls = 0
  /\ dumps = [r \in Runs |-> <<>>] /\ ran = [r \in Runs |-> Nothing(file)]
  /\ rows = [of |-> 0, table |-> <<>>] /\ report = [of |-> <<>>, files |-> <<>>]

Analyze == ImportProject \/ ImportCached \/ Traverse \/ Insert
Replay == Start \/ CallFunction \/ Step \/ Return \/ WriteDump
Next == Analyze \/ Replay \/ Convert \/ Compare

Spec == Init /\ [][Next]_vars

-----------------------------------------------------------------------------
TrueCount(r, arm) == IF arm.point THEN ran[r].past[arm.node] ELSE ran[r].in[arm.node]

(* A construct that ends where the arm around it ends, being unbraced or   *)
(* the last of a case, has no range after it; the point is then looked up  *)
(* in a range that goes on further, whose count is another.  An arm that   *)
(* is a function is looked up by its extent and finds the function's calls,*)
(* and what is in such a function may find how often it was evaluated.     *)
(* An operand in the test of a loop, if it has no range of its own, is     *)
(* evaluated at every turn and counts like the arm around the loop.        *)
Turns(n) ==
  \E m \in Upwards(file, n) :
    /\ file[m].slot = "test" /\ file[file[m].up].kind \in Loops
    /\ \A k \in Upwards(file, n) : Counted(file, k) => k < m
InArm(n) ==
  \E f \in Upwards(file, n) \ {n} : file[f].kind = "Function" /\ file[f].slot \in ArmSlots
Told(arm) ==
  /\ ~InArm(arm.node)
  /\ IF arm.point
     THEN \A n \in Upwards(file, arm.node) : Counted(file, n) => Offset(file)[n].to > arm.to
     ELSE ~Turns(arm.node) /\ (file[arm.node].kind = "Function" => arm.kind = "FnEntry")

Stored == DOMAIN rows.table

(* The hit count stored for an arm is how often the arm really ran in the  *)
(* process of the run, found through ranges that V8 leaves out when they   *)
(* count like the range around them; merging several dumps never counts    *)
(* more than what ran (joinC8ToCanonical, mergeScriptCoverages).           *)
CountsFollow ==
  \A r \in Stored : \A i \in DOMAIN db.branches :
    LET arm == db.branches[i]
        row == rows.table[r][i]
    IN Told(arm) =>
         /\ row.hitcount <= TrueCount(r, arm)
         /\ Len(dumps[r]) = 1 => row.hitcount = TrueCount(r, arm)

(* An arm that ran in some process of a run has a hit count: the merge is  *)
(* "useful when the same script was loaded by multiple processes/dumps     *)
(* under one run" (v8-to-canonical.ts:168-171).                            *)
HitsSurviveMerge ==
  \A r \in Stored : \A i \in DOMAIN db.branches :
    TrueCount(r, db.branches[i]) > 0 => rows.table[r][i].hitcount > 0

(* Whenever an arm runs, every predicate of its stored path held when it   *)
(* was last tested in this call; only a switch case may instead be fallen  *)
(* into, after an earlier case (computeBranchPredicates).                  *)
Held(test, value) ==
  \/ outcome[test] = {value}
  \/ file[test].kind = "Switch" /\ \E m \in outcome[test] : m < value
Entered(arm) == IF arm.point THEN at = Out(arm.node, "normal") ELSE at = In(arm.node)
PathsHold ==
  InCall => \A i \in DOMAIN db.branches :
    Entered(db.branches[i]) => \A c \in db.branches[i].path : Held(c[1], c[2])

(* Per-function counts kept with a stack during the shared traversal are   *)
(* those of the innermost functions, and every function has its row, also  *)
(* one nested in a branch, whatever another plugin did to the tree         *)
(* (function-stack-analysis.ts, and the comment at branch-extract.ts:151). *)
AttributionAgrees ==
  db.files # {} =>
    /\ db.functions = Kinds(file, Scopes)
    /\ LET weight == [n \in DOMAIN file |-> Weight(file[n].kind)]
       IN \A f \in db.functions : \A m \in Metrics :
            db.counts[f][m] = MapThenSumSet(LAMBDA n : weight[n][m],
                                            {n \in DOMAIN file : FunctionOf(file, n) = f})

(* Every arm that the evaluation counts, but the file itself, is told      *)
(* apart by the fuzzer: a counter of the instrumented file is hit exactly  *)
(* as often as the arm runs (instrument.ts, branch-extract.ts).            *)
CountersCount ==
  \A i \in DOMAIN db.branches :
    LET arm == db.branches[i]
        n   == CounterOf(file, arm)
    IN arm.node # 1 =>
         IF arm.point THEN n \in CountersAfter(file)
         ELSE n \in CountersIn(file) /\ (at.how # "in" => seen.in[n] = seen.in[arm.node])

(* The report of a comparison shows what the new run covered and the base  *)
(* did not, "only coverage present in the second file but not the first"   *)
(* (lcov-diff.ts:3-5): for lines, branches and functions, and nothing at   *)
(* all when there is none, except for functions that share their name.     *)
DiffShowsNew ==
  report.of # <<>> =>
    LET base == ran[report.of[1]].in
        new == ran[report.of[2]].in
        only(n) == IF base[n] = 0 THEN new[n] ELSE 0
        fns == InOrder(Kinds(file, {"Function"}))
        shared(n) == \E m \in ToSet(fns) \ {n} : FunctionName(m) = FunctionName(n)
    IN IF report.files = <<>> THEN \A n \in DOMAIN file : only(n) = 0
       ELSE /\ Len(report.files) = 1
            /\ \E n \in DOMAIN file : only(n) > 0 \/ (file[n].kind = "Function" /\ shared(n))
            /\ LET shown == Head(report.files)
               IN /\ shown.s = [n \in DOMAIN file |-> only(n)]
                  /\ \A g \in DOMAIN shown.b : shown.b[g] = <<only(g[1])>>
                  /\ \A i \in DOMAIN fns : shared(fns[i]) \/ shown.f[i] = only(fns[i])

=============================================================================
