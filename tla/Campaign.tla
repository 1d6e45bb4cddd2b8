------------------------------ MODULE Campaign ------------------------------
(***************************************************************************)
(* A campaign: several clients fuzz at once, each reports its statistics   *)
(* to the broker message by message (feedback.rs), and the broker's        *)
(* monitor folds the latest value of every client into the rows of         *)
(* heartbeat.csv (monitor.rs, metrics.rs).  A launch that is killed can be *)
(* repeated, into the same output directory or another.                    *)
(*                                                                         *)
(* A client's messages arrive in order and between two executions it only  *)
(* reads what others found, so it may as well wait for the broker before   *)
(* the next execution: every interleaving of the broker is still explored. *)
(***************************************************************************)
EXTENDS Integers, Sequences, FiniteSets, FiniteSetsExt, SequencesExt

CONSTANTS Clients, Edges, Dirs, NoDir, MaxExecs, MaxBeats, MaxLaunches
ASSUME CampaignAssumption ==
  /\ NoDir \notin Dirs
  /\ IsFiniteSet(Clients) /\ IsFiniteSet(Edges)
  /\ MaxExecs \in Nat /\ MaxBeats \in Nat /\ MaxLaunches \in Nat

VARIABLES
  dir,        \* the output directory of the running launch, or NoDir
  st,         \* per client: its state and the history of its feedbacks
  out,        \* per client: messages the broker has not handled yet
  seen,       \* per client: the latest value of every statistic
  writer,     \* has the launch opened its metrics file?
  csv,        \* per directory: the rows of heartbeat.csv
  made,       \* the output directories that exist
  panics,     \* per directory: does logs.txt speak of a panic?
  spent       \* executions, heartbeats and launches so far, for the bounds
fuzzing == <<dir, st, out, seen, writer, csv, made, panics, spent>>

Stats == {"execs", "validexecs", "crashes", "validcrashes", "objectives", "totaledges",
          "validcorpus", "corpus", "totalcoverage", "validcoverage"}
NoStats == [s \in Stats |-> 0]

(* The state of a client: its counters and, for the histories of the three *)
(* map feedbacks, the edges they hold.  num is what it last reported.      *)
Fresh == [num |-> NoStats, total |-> {}, valid |-> {}, crash |-> {}]

-----------------------------------------------------------------------------
(* One statistic as it is reported by a client after n executions.         *)
Fire(condition, stat, value, n) ==
  IF condition THEN <<[stat |-> stat, value |-> value, execs |-> n]>> ELSE <<>>

Counted(num, stat, condition) ==
  IF condition THEN [num EXCEPT ![stat] = @ + 1] ELSE num

(* UniqCrashFeedback and the solution it decides on.                       *)
IsCrash(kind) == kind # "Ok"
IsSolution(s, cov, valid, kind) == IsCrash(kind) /\ valid /\ ~(cov \subseteq s.crash)

CrashCounts(s, cov, valid, kind) ==
  LET a == Counted(s.num, "execs", TRUE)
      b == Counted(a, "validexecs", valid)
      d == Counted(b, "crashes", IsCrash(kind))
      e == Counted(d, "validcrashes", valid /\ IsCrash(kind))
  IN Counted(e, "objectives", IsSolution(s, cov, valid, kind))

CrashReports(s, cov, valid, kind) ==
  LET num == CrashCounts(s, cov, valid, kind)
      n   == num["execs"]
  IN Fire(valid, "validexecs", num["validexecs"], n)
     \o Fire(IsCrash(kind), "crashes", num["crashes"], n)
     \o Fire(IsCrash(kind) /\ valid, "validcrashes", num["validcrashes"], n)
     \o Fire(IsSolution(s, cov, valid, kind), "objectives", num["objectives"], n)

AfterCrash(s, cov, valid, kind) ==
  [s EXCEPT !.num = CrashCounts(s, cov, valid, kind),
            !.crash = IF IsSolution(s, cov, valid, kind) THEN @ \cup cov ELSE @]

-----------------------------------------------------------------------------
(* StdFeedback, for an input that is no solution and either Ok or invalid: *)
(* the instrumented edges, and the new corpus entry if there is coverage.  *)
Considered(s, cov, valid, kind) == ~IsSolution(s, cov, valid, kind) /\ (kind = "Ok" \/ ~valid)
IsKept(s, cov) == ~(cov \subseteq s.total)

AfterJudged(s, cov, valid, edges) ==
  LET num   == [s.num EXCEPT !["totaledges"] = edges]
      kept  == Counted(Counted(num, "validcorpus", valid), "corpus", TRUE)
      total == s.total \cup cov
      both  == IF valid THEN s.valid \cup cov ELSE s.valid
  IN IF ~IsKept(s, cov) THEN [s EXCEPT !.num = num]
     ELSE [s EXCEPT !.total = total, !.valid = both,
                    !.num = [kept EXCEPT !["totalcoverage"] = Cardinality(total),
                                         !["validcoverage"] = Cardinality(both)]]

JudgedReports(s, cov, valid, edges) ==
  LET num == AfterJudged(s, cov, valid, edges).num
      n   == num["execs"]
      new == IsKept(s, cov)
  IN Fire(edges > s.num["totaledges"], "totaledges", edges, n)
     \o Fire(new /\ valid, "validcorpus", num["validcorpus"], n)
     \o Fire(new, "totalcoverage", num["totalcoverage"], n)
     \o Fire(new /\ valid, "validcoverage", num["validcoverage"], n)
     \o Fire(new, "corpus", num["corpus"], n)

-----------------------------------------------------------------------------
(* The broker runs the clients afresh; the corpus found on disk is run     *)
(* again and counts as this launch's executions.                           *)
Launch(d) ==
  /\ dir = NoDir /\ spent.launches < MaxLaunches
  /\ dir' = d
  /\ st' = [c \in Clients |-> Fresh]
  /\ out' = [c \in Clients |-> <<>>]
  /\ seen' = [c \in Clients |-> NoStats]
  /\ writer' = FALSE
  /\ made' = made \cup {d}
  /\ spent' = [spent EXCEPT !.launches = @ + 1]
  /\ UNCHANGED <<csv, panics>>

Executes(c) ==
  /\ dir # NoDir /\ out[c] = <<>> /\ spent.execs < MaxExecs
  /\ spent' = [spent EXCEPT !.execs = @ + 1]
  /\ UNCHANGED <<dir, seen, writer, csv, made>>

(* The harness returned with a verdict.                                    *)
Evaluate(c) ==
  /\ Executes(c) /\ UNCHANGED panics
  /\ \E cov \in SUBSET Edges, valid \in BOOLEAN, kind \in {"Ok", "Crash"} :
       LET edges == Cardinality(Edges)
           s == AfterCrash(st[c], cov, valid, kind)
           judged == Considered(st[c], cov, valid, kind)
       IN /\ kind = "Ok" => valid
          /\ st' = [st EXCEPT ![c] = IF judged THEN AfterJudged(s, cov, valid, edges) ELSE s]
          /\ out' = [out EXCEPT ![c] =
               CrashReports(st[c], cov, valid, kind)
               \o (IF judged THEN JudgedReports(s, cov, valid, edges) ELSE <<>>)]

(* Mutant of Dies: the client that replaces it starts from an empty state. *)
DiesAfresh(c) ==
  /\ Executes(c)
  /\ \E cov \in SUBSET Edges, valid \in BOOLEAN, kind \in {"Timeout", "Panic"} :
       /\ st' = [st EXCEPT ![c] = Fresh]
       /\ out' = [out EXCEPT ![c] = CrashReports(st[c], cov, valid, kind)]
       /\ panics' = [panics EXCEPT ![dir] = @ \/ kind = "Panic"]

(* The client dies during an execution: only the objective is judged, and  *)
(* the client that replaces it starts its feedback of the edges anew.      *)
Dies(c) ==
  /\ Executes(c)
  /\ \E cov \in SUBSET Edges, valid \in BOOLEAN, kind \in {"Timeout", "Panic"} :
       /\ st' = [st EXCEPT ![c] = [AfterCrash(st[c], cov, valid, kind)
                                     EXCEPT !.num["totaledges"] = 0]]
       /\ out' = [out EXCEPT ![c] = CrashReports(st[c], cov, valid, kind)]
       /\ panics' = [panics EXCEPT ![dir] = @ \/ kind = "Panic"]

(* A client reports its progress, every few seconds.                       *)
Heartbeat(c) ==
  /\ dir # NoDir /\ out[c] = <<>> /\ spent.beats < MaxBeats
  /\ out' = [out EXCEPT ![c] = Fire(TRUE, "heartbeat", 0, st[c].num["execs"])]
  /\ spent' = [spent EXCEPT !.beats = @ + 1]
  /\ UNCHANGED <<dir, st, seen, writer, csv, made, panics>>

-----------------------------------------------------------------------------
Summed  == {"execs", "validexecs", "crashes", "validcrashes", "objectives", "corpus"}

(* make_heartbeat_event: sums, and maxima of what the clients share.       *)
Row(latest) ==
  [s \in Stats |-> IF s \in Summed
                   THEN MapThenSumSet(LAMBDA c : latest[c][s], Clients)
                   ELSE Max({latest[c][s] : c \in Clients})]

(* Mutant of Record: a new launch appends to the file of the old one.      *)
RecordOnTop(row) ==
  /\ writer' = TRUE
  /\ csv' = [csv EXCEPT ![dir] = Append(@, row)]

(* Metrics::record: the writer is opened by its first row, and opening     *)
(* truncates the file.                                                     *)
Record(row) ==
  /\ writer' = TRUE
  /\ csv' = [csv EXCEPT ![dir] = IF writer THEN Append(@, row) ELSE <<row>>]

(* The broker handles the next message of a client and shows it to the     *)
(* monitor, which writes a row at a heartbeat.                             *)
Broker(c) ==
  /\ dir # NoDir /\ out[c] # <<>>
  /\ LET msg    == Head(out[c])
         latest == [s \in Stats |-> IF s = "execs" THEN msg.execs
                                    ELSE IF s = msg.stat THEN msg.value ELSE seen[c][s]]
     IN /\ seen' = [seen EXCEPT ![c] = latest]
        /\ IF msg.stat = "heartbeat" THEN Record(Row(seen')) ELSE UNCHANGED <<writer, csv>>
  /\ out' = [out EXCEPT ![c] = Tail(@)]
  /\ UNCHANGED <<dir, st, made, panics, spent>>

(* The launch ends, after its time or because it is killed; what the       *)
(* broker has not handled is lost.                                         *)
Stop ==
  /\ dir # NoDir
  /\ dir' = NoDir
  /\ st' = [c \in Clients |-> Fresh]
  /\ out' = [c \in Clients |-> <<>>]
  /\ seen' = [c \in Clients |-> NoStats]
  /\ writer' = FALSE
  /\ UNCHANGED <<csv, made, panics, spent>>

InitCampaign ==
  /\ dir = NoDir
  /\ st = [c \in Clients |-> Fresh]
  /\ out = [c \in Clients |-> <<>>]
  /\ seen = [c \in Clients |-> NoStats]
  /\ writer = FALSE
  /\ csv = [d \in Dirs |-> <<>>]
  /\ made = {}
  /\ panics = [d \in Dirs |-> FALSE]
  /\ spent = [execs |-> 0, beats |-> 0, launches |-> 0]

NextCampaign ==
  \/ \E d \in Dirs : Launch(d)
  \/ \E c \in Clients : Evaluate(c) \/ Dies(c) \/ Heartbeat(c) \/ Broker(c)
  \/ Stop

=============================================================================
