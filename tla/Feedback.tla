------------------------------ MODULE Feedback ------------------------------
(***************************************************************************)
(* How a fuzzing client judges its executions (fuzzer/src/feedback.rs):    *)
(* UniqCrashFeedback, the objective, decides what is a new crash and keeps *)
(* the statistics; StdFeedback decides what joins the corpus.  Each keeps  *)
(* coverage histories of its own in the fuzzer's state, which survives the *)
(* death of the client process, while the feedback objects, the shared     *)
(* memory and the child do not.                                            *)
(*                                                                         *)
(* Here an execution is what the observers show when the harness returns,  *)
(* or when the process dies: the coverage map, the validity flag, the exit *)
(* kind and the number of instrumented edges.  How they come about is the  *)
(* business of Worker; of it this module keeps that Ok means valid.        *)
(***************************************************************************)
EXTENDS Naturals, Sequences, FiniteSets

CONSTANTS
  Edges,      \* keys of the coverage map
  Classes,    \* number of hit count classes above "not hit"
  MaxExecs,   \* bound: executions in a behaviour
  Base,       \* edges instrumented once a child has loaded the entry point
  MaxEdges    \* bound: edges a child instruments, lazy imports included

ASSUME ClassesAssumption == Classes \in Nat /\ MaxExecs \in Nat
ASSUME EdgesAssumption   == Base \in Nat /\ MaxEdges \in Nat /\ Base <= MaxEdges

VARIABLES
  pc,            \* the client: "down", "up" or "failed"
  execs,         \* State.executions
  validExecs,    \* ExtraStateMetadata.num_valid_executions
  crashes,       \* ExtraStateMetadata.num_crashes
  validCrashes,  \* ExtraStateMetadata.num_valid_crashes
  validCorpus,   \* ExtraStateMetadata.num_valid_corpus
  totalHist,     \* history of the TotalCoverage feedback
  validHist,     \* history of the ValidCoverage feedback
  crashHist,     \* history of the CrashCoverage feedback
  corpus,        \* inputs kept, in order: [cov, valid, throws]
  solutions,     \* crashes kept, in order
  edges,         \* TotalEdgesFeedback.edges
  total,         \* ShMemView.total_edges
  instr          \* edges the present child has instrumented (getNumEdges)

stats  == <<execs, validExecs, crashes, validCrashes>>
std    == <<validCorpus, totalHist, validHist, corpus>>
crash  == <<crashHist, solutions>>
shared == <<total, instr>>
vars   == <<pc, stats, std, crash, edges, shared>>

Maps  == [Edges -> 0..Classes]
Blank == [e \in Edges |-> 0]

-----------------------------------------------------------------------------
(* The map feedback of LibAFL: is_interesting compares with the history,   *)
(* append_metadata merges into it.                                         *)
Novel(hist, cov) == \E e \in Edges : cov[e] > hist[e]
Merge(hist, cov) == [e \in Edges |-> IF cov[e] > hist[e] THEN cov[e] ELSE hist[e]]

Entry(cov, valid, kind) == [cov |-> cov, valid |-> valid, throws |-> kind # "Ok"]
Plus(n, condition) == IF condition THEN n + 1 ELSE n

(* Mutants of UniqCrash: the crash history is never updated; valid         *)
(* executions are counted among the crashes.                               *)
UniqCrashForgets(cov, valid, kind) ==
  /\ execs'        = execs + 1
  /\ validExecs'   = Plus(validExecs, valid)
  /\ crashes'      = Plus(crashes, kind # "Ok")
  /\ validCrashes' = Plus(validCrashes, valid /\ kind # "Ok")
  /\ solutions' = IF kind # "Ok" /\ valid /\ Novel(crashHist, cov)
                  THEN Append(solutions, Entry(cov, valid, kind)) ELSE solutions
  /\ UNCHANGED crashHist

UniqCrashMiscounts(cov, valid, kind) ==
  /\ execs'        = execs + 1
  /\ validExecs'   = Plus(validExecs, valid)
  /\ crashes'      = Plus(crashes, kind # "Ok")
  /\ validCrashes' = Plus(validCrashes, valid)
  /\ IF kind # "Ok" /\ valid /\ Novel(crashHist, cov)
     THEN /\ crashHist' = Merge(crashHist, cov)
          /\ solutions' = Append(solutions, Entry(cov, valid, kind))
     ELSE UNCHANGED crash

(* UniqCrashFeedback: the statistics, and whether this is a new crash.     *)
UniqCrash(cov, valid, kind) ==
  /\ execs'        = execs + 1
  /\ validExecs'   = Plus(validExecs, valid)
  /\ crashes'      = Plus(crashes, kind # "Ok")
  /\ validCrashes' = Plus(validCrashes, valid /\ kind # "Ok")
  /\ IF kind # "Ok" /\ valid /\ Novel(crashHist, cov)
     THEN /\ crashHist' = Merge(crashHist, cov)
          /\ solutions' = Append(solutions, Entry(cov, valid, kind))
     ELSE UNCHANGED crash

(* Mutant of Considered: StdFeedback considers valid crashes, too.         *)
ConsidersAll(valid, kind) == TRUE

(* StdFeedback only considers inputs that are Ok or invalid.               *)
Considered(valid, kind) == kind = "Ok" \/ ~valid

(* Mutant of Keep: invalid inputs update the valid history.                *)
KeepAllValid(cov, valid, kind) ==
  /\ totalHist'   = Merge(totalHist, cov)
  /\ validHist'   = Merge(validHist, cov)
  /\ validCorpus' = Plus(validCorpus, valid)
  /\ corpus'      = Append(corpus, Entry(cov, valid, kind))

(* StdFeedback::append_metadata and the new corpus entry.                  *)
Keep(cov, valid, kind) ==
  /\ totalHist'   = Merge(totalHist, cov)
  /\ validHist'   = IF valid THEN Merge(validHist, cov) ELSE validHist
  /\ validCorpus' = Plus(validCorpus, valid)
  /\ corpus'      = Append(corpus, Entry(cov, valid, kind))

(* StdFeedback::is_interesting.  TotalEdgesFeedback raises an error, which *)
(* ends the client, when there are fewer instrumented edges than before.   *)
StdJudges(cov, valid, kind) ==
  \/ ~Considered(valid, kind) /\ UNCHANGED <<pc, edges, std>>
  \/ /\ Considered(valid, kind) /\ total' < edges
     /\ pc' = "failed"
     /\ UNCHANGED <<edges, std>>
  \/ /\ Considered(valid, kind) /\ total' >= edges
     /\ edges' = total'
     /\ pc' = pc
     /\ IF Novel(totalHist, cov) THEN Keep(cov, valid, kind) ELSE UNCHANGED std

(* What an execution does to the counters of instrumented edges: lazy      *)
(* imports add to instr, a new child starts over, and every hit publishes  *)
(* the count of the child it happens in.                                   *)
Instruments(cov, restarted) ==
  \E n \in instr..MaxEdges :
    /\ instr' = IF restarted THEN Base ELSE n
    /\ total' \in IF cov = Blank THEN {total} ELSE {n, instr'}

(* Mutant of Boot: the respawned client starts from an empty state.        *)
BootAfresh ==
  /\ pc = "down"
  /\ pc' = "up"
  /\ edges' = 0
  /\ instr' = Base
  /\ total' \in {0, Base}
  /\ totalHist' = Blank /\ validHist' = Blank /\ validCorpus' = 0 /\ corpus' = <<>>
  /\ UNCHANGED <<stats, crash>>

-----------------------------------------------------------------------------
(* A client process starts: fresh shared memory, child and feedback        *)
(* objects, and the state its predecessor saved, if there was one.         *)
Boot ==
  /\ pc = "down"
  /\ pc' = "up"
  /\ edges' = 0
  /\ instr' = Base
  /\ total' \in {0, Base}
  /\ UNCHANGED <<stats, std, crash>>

(* The harness returned; a new child may have replaced a broken one.       *)
Returned(cov, valid, kind, restarted) ==
  /\ pc = "up" /\ execs < MaxExecs
  /\ kind = "Ok" => valid /\ ~restarted
  /\ Instruments(cov, restarted)
  /\ UniqCrash(cov, valid, kind)
  /\ StdJudges(cov, valid, kind)

(* The client dies during an execution (timeout, panic): the handler runs  *)
(* the objective only, saves the state, and the client is respawned.       *)
Died(cov, valid) ==
  /\ pc = "up" /\ execs < MaxExecs
  /\ UniqCrash(cov, valid, "Timeout")
  /\ pc' = "down"
  /\ UNCHANGED <<std, edges, shared>>

Init ==
  /\ pc = "down"
  /\ execs = 0 /\ validExecs = 0 /\ crashes = 0 /\ validCrashes = 0 /\ validCorpus = 0
  /\ totalHist = Blank /\ validHist = Blank /\ crashHist = Blank
  /\ corpus = <<>> /\ solutions = <<>>
  /\ edges = 0 /\ total = 0 /\ instr = Base

Next ==
  \/ Boot
  \/ \E cov \in Maps, valid, restarted \in BOOLEAN, kind \in {"Ok", "Crash"} :
       Returned(cov, valid, kind, restarted)
  \/ \E cov \in Maps, valid \in BOOLEAN : Died(cov, valid)

Spec == Init /\ [][Next]_vars

-----------------------------------------------------------------------------
(* The inputs that assertCorpusInvariants and assertCrashInvariants of     *)
(* post-process.ts complain about, from the metadata stored beside them.   *)
CorpusErrors == {i \in 1..Len(corpus) : corpus[i].valid = corpus[i].throws}
CrashErrors == {i \in 1..Len(solutions) : ~solutions[i].valid \/ ~solutions[i].throws}

-----------------------------------------------------------------------------
Entries == [cov : Maps, valid : BOOLEAN, throws : BOOLEAN]

(* Every variable stays in its set.                                        *)
TypeOK ==
  /\ pc \in {"down", "up", "failed"}
  /\ execs \in Nat /\ validExecs \in Nat /\ crashes \in Nat
  /\ validCrashes \in Nat /\ validCorpus \in Nat
  /\ totalHist \in Maps /\ validHist \in Maps /\ crashHist \in Maps
  /\ corpus \in Seq(Entries) /\ solutions \in Seq(Entries)
  /\ edges \in 0..MaxEdges /\ total \in 0..MaxEdges /\ instr \in Base..MaxEdges

(* A history claims exactly the coverage of the inputs kept for it: what   *)
(* counts as old was really seen, and its witness was not thrown away,     *)
(* however often the client died in between.                               *)
Claims(hist, kept, onlyValid) ==
  \A e \in Edges :
    /\ \A i \in 1..Len(kept) : (onlyValid => kept[i].valid) => kept[i].cov[e] <= hist[e]
    /\ hist[e] > 0 => \E i \in 1..Len(kept) :
                        (onlyValid => kept[i].valid) /\ kept[i].cov[e] = hist[e]

HistoryWitnessed ==
  /\ Claims(totalHist, corpus, FALSE)
  /\ Claims(validHist, corpus, TRUE)
  /\ Claims(crashHist, solutions, FALSE)

(* validcoverage never exceeds totalcoverage: both are reported, and the   *)
(* histories are updated under different conditions.                       *)
ValidBelowTotal == \A e \in Edges : validHist[e] <= totalHist[e]

(* What post-process.ts says of a finished run is true of every state: an  *)
(* input of the corpus is either valid or throws (166-209), not even valid *)
(* crashes that UniqCrashFeedback finds uninteresting enter it             *)
(* (feedback.rs:384), and every crash is a valid input that throws         *)
(* (211-269).                                                              *)
CrashesKeptApart == CorpusErrors = {} /\ CrashErrors = {}

(* Nothing is kept twice: each entry shows an edge more often than every   *)
(* entry kept before it.                                                   *)
EachAdds(kept) ==
  \A i \in 1..Len(kept) : \E e \in Edges :
    kept[i].cov[e] > 0 /\ \A j \in 1..(i - 1) : kept[j].cov[e] < kept[i].cov[e]

NothingKeptTwice == EachAdds(corpus) /\ EachAdds(solutions)

(* The statistics agree with each other and with what was kept: every Ok   *)
(* execution is a valid one that does not crash, and the other way round.  *)
StatsAgree ==
  /\ validCrashes <= crashes /\ crashes <= execs
  /\ validExecs - validCrashes = execs - crashes
  /\ validCorpus + Len(solutions) <= validExecs
  /\ Len(solutions) <= validCrashes
  /\ validCorpus = Cardinality({i \in 1..Len(corpus) : corpus[i].valid})

(* No coverage, no input and no count is forgotten, not by a restart.      *)
Forgets(hist, new) == \E e \in Edges : new[e] < hist[e]
NothingForgotten ==
  [][/\ ~Forgets(totalHist, totalHist') /\ ~Forgets(validHist, validHist')
     /\ ~Forgets(crashHist, crashHist')
     /\ Len(corpus') >= Len(corpus) /\ Len(solutions') >= Len(solutions)
     /\ execs' >= execs /\ validExecs' >= validExecs /\ crashes' >= crashes]_vars

(* "total number of instrumented edges must not decrease"                  *)
(* (feedback.rs:226), as long as the client lives.                         *)
TotalEdgesGrow == [][pc = "up" => total' >= total]_vars

=============================================================================
