---------------------------- MODULE PostProcess ----------------------------
(***************************************************************************)
(* What becomes of the directories of a campaign (post-process.ts,         *)
(* heartbeat-to-sqlite.ts): panicked runs are found and skipped, the       *)
(* others checked for completeness, the heartbeats of all of them imported *)
(* into one database, and the rows of the database checked.  It may be     *)
(* interrupted, repeated, and preceded by an import done by hand.          *)
(***************************************************************************)
EXTENDS Campaign

CONSTANTS
  Labels,     \* the number of labels each directory's rows carry
  MaxPosts    \* how often the results are processed or imported by hand
ASSUME PostAssumption == Labels \in [Dirs -> Nat] /\ MaxPosts \in Nat

VARIABLES
  step,       \* what post-process.ts does next
  skip,       \* the panicked runs
  errors,     \* the complaints so far, each with the runs or columns it is about
  db,         \* heartbeat.db: does it exist, and its rows in order
  stats,      \* the runs counted in corpus-stats.csv
  posts       \* for the bound
results == <<step, skip, errors, db, stats, posts>>
vars == <<fuzzing, results>>

NoDb == [there |-> FALSE, rows |-> <<>>]

-----------------------------------------------------------------------------
(* The checks of the directories that are not skipped.  Whether a launch   *)
(* ran for its whole time is read off its logs: any of them may be short.  *)
Missing(skipped)    == {<<"missing", d>> : d \in {e \in made \ skipped : csv[e] = <<>>}}

(* The labels of a row are one field of the csv, which is quoted only when *)
(* it holds a comma; other lines do not match and are skipped.             *)
Matches(d) == Labels[d] >= 2

RowsOf(d) == IF Matches(d) THEN [j \in DOMAIN csv[d] |-> [run |-> d, row |-> csv[d][j]]] ELSE <<>>
Imported(order) == FlattenSeq([i \in DOMAIN order |-> RowsOf(order[i])])

(* The files are found in any order.                                       *)
Orders == {o \in [1..Cardinality(made) -> made] : \A i, j \in DOMAIN o : o[i] = o[j] => i = j}

(* The checks of the database: columns that must not decrease from one row *)
(* of a run to the next, ...                                               *)
NonDecreasing == Stats \ {"totaledges"}
Decreasing(rows) ==
  {<<"decreases", s>> : s \in {t \in NonDecreasing : \E i \in 2..Len(rows) :
     rows[i].run = rows[i - 1].run /\ rows[i].row[t] < rows[i - 1].row[t]}}

(* ... a column that must be constant, columns that must not be zero, ...  *)
Varying(rows) ==
  {<<"varies", r.run>> : r \in {q \in ToSet(rows) : q.row["totaledges"] = 0 \/
     \E p \in ToSet(rows) : p.run = q.run /\ p.row["totaledges"] # q.row["totaledges"]}}
Zero(rows) == {<<"zero", s>> : s \in {t \in {"totalcoverage", "execs"} :
                 \E r \in ToSet(rows) : r.row[t] = 0}}

(* ... and columns that bound each other.                                  *)
AtMost ==
  { <<"validcoverage", "totalcoverage">>, <<"validcorpus", "corpus">>, <<"objectives", "validcrashes">>,
    <<"crashes", "execs">>, <<"validcrashes", "crashes">>, <<"validcrashes", "validexecs">> }
Exceeding(rows) ==
  {<<"exceeds", p>> : p \in {q \in AtMost : \E r \in ToSet(rows) : r.row[q[1]] > r.row[q[2]]}}

-----------------------------------------------------------------------------
(* assertDirectory, assertNoPanics, and the checks of the directories.     *)
CheckRuns ==
  /\ step = "idle" /\ dir = NoDir /\ made # {} /\ posts < MaxPosts
  /\ posts' = posts + 1
  /\ step' = "delete"
  /\ skip' = {d \in made : panics[d]}
  /\ \E short \in SUBSET (made \ skip') :
       errors' = {<<"panic", d>> : d \in skip'} \cup Missing(skip')
                   \cup {<<"incomplete", d>> : d \in short}
  /\ UNCHANGED <<fuzzing, db, stats>>

(* Mutant of DeleteDb: an older database stays.                            *)
KeepDb ==
  /\ step = "delete" /\ step' = "import"
  /\ UNCHANGED <<fuzzing, skip, errors, db, stats, posts>>

(* heartbeatToSqlite deletes an older database ...                         *)
DeleteDb ==
  /\ step = "delete"
  /\ step' = "import"
  /\ db' = NoDb
  /\ UNCHANGED <<fuzzing, skip, errors, stats, posts>>

(* ... and imports every heartbeat.csv in a transaction.                   *)
Imports == \E o \in Orders : db' = [there |-> TRUE, rows |-> db.rows \o Imported(o)]
Import ==
  /\ step = "import"
  /\ step' = "verify"
  /\ Imports
  /\ UNCHANGED <<fuzzing, skip, errors, stats, posts>>

(* createCorpusStats, assertGenerated, assertHeartbeatDb.                  *)
Verify ==
  /\ step = "verify"
  /\ step' = "done"
  /\ stats' = made \ skip
  /\ errors' = errors \cup Decreasing(db.rows) \cup Varying(db.rows) \cup Zero(db.rows)
                      \cup Exceeding(db.rows)
  /\ UNCHANGED <<fuzzing, skip, db, posts>>

(* The script ends, or is interrupted wherever it is.                      *)
Leave ==
  /\ step # "idle"
  /\ step' = "idle"
  /\ skip' = {} /\ errors' = {}
  /\ UNCHANGED <<fuzzing, db, stats, posts>>

(* heartbeat-to-sqlite.ts run by hand adds to a database that is there.    *)
ImportByHand ==
  /\ step = "idle" /\ dir = NoDir /\ made # {} /\ posts < MaxPosts
  /\ posts' = posts + 1
  /\ Imports
  /\ UNCHANGED <<fuzzing, step, skip, errors, stats>>

Init ==
  /\ InitCampaign
  /\ step = "idle" /\ skip = {} /\ errors = {} /\ db = NoDb /\ stats = {} /\ posts = 0

Fuzz == step = "idle" /\ NextCampaign /\ UNCHANGED results
Post == CheckRuns \/ DeleteDb \/ Import \/ Verify \/ Leave \/ ImportByHand
Next == Fuzz \/ Post
Spec == Init /\ [][Next]_vars

-----------------------------------------------------------------------------
(* The checks of the heartbeats hold of whatever the broker wrote, however *)
(* it interleaved the clients' messages, clients died and launches were    *)
(* repeated (post-process.ts:420-451), with the exceptions of              *)
(* valid_corpus <= corpus, which a beat between the two messages of one    *)
(* new input can break, and of the checks about rows from before the first *)
(* coverage and the first edges.                                           *)
HeartbeatsHold ==
  step = "done" => \A e \in errors :
    /\ e[1] # "decreases"
    /\ e[1] = "exceeds" => e[2] = <<"validcorpus", "corpus">>

(* The database that is checked holds every row of every run exactly once, *)
(* in one block and in order, and nothing else, whatever was imported      *)
(* before (post-process.ts:312-331).                                       *)
StandsOnce(rows, d) ==
  \E k \in 0..Len(rows) :
    /\ k + Len(csv[d]) <= Len(rows)
    /\ \A i \in DOMAIN rows : rows[i].run = d <=> i \in (k + 1)..(k + Len(csv[d]))
    /\ \A j \in DOMAIN csv[d] : rows[k + j].row = csv[d][j]

ImportedOnce ==
  step \in {"verify", "done"} =>
    /\ \A i \in DOMAIN db.rows : db.rows[i].run \in made /\ Matches(db.rows[i].run)
    /\ \A d \in made : Matches(d) => StandsOnce(db.rows, d)

(* When a client's messages of an execution are handled, the monitor knows *)
(* exactly what the client does: nothing was lost or overtaken, and what   *)
(* a client found before it died still counts (feedback.rs, monitor.rs).   *)
MonitorCatchesUp ==
  dir # NoDir => \A c \in Clients :
    out[c] = <<>> => \A s \in Stats \ {"execs", "totaledges"} : seen[c][s] = st[c].num[s]

=============================================================================
