--------------------------- MODULE Feedback_proofs --------------------------
(***************************************************************************)
(* Machine-checked proofs about Feedback, for every coverage map, every    *)
(* number of executions and every sequence of restarts.                    *)
(***************************************************************************)
EXTENDS Feedback, SequenceTheorems, FiniteSetTheorems, TLAPS

USE ClassesAssumption, EdgesAssumption

-----------------------------------------------------------------------------
(* Coverage maps.                                                          *)

LEMMA MergeFacts ==
  ASSUME NEW hist \in Maps, NEW cov \in Maps
  PROVE  /\ Merge(hist, cov) \in Maps
         /\ \A e \in Edges : /\ Merge(hist, cov)[e] >= hist[e]
                             /\ Merge(hist, cov)[e] >= cov[e]
                             /\ Merge(hist, cov)[e] \in {hist[e], cov[e]}
BY DEF Merge, Maps

LEMMA BlankType == Blank \in Maps
BY DEF Blank, Maps

LEMMA EntryType ==
  ASSUME NEW cov \in Maps, NEW valid \in BOOLEAN, NEW kind
  PROVE  Entry(cov, valid, kind) \in Entries
BY DEF Entry, Entries

-----------------------------------------------------------------------------
(* Type correctness.                                                       *)

LEMMA UniqCrashType ==
  ASSUME TypeOK, NEW cov \in Maps, NEW valid \in BOOLEAN, NEW kind,
         UniqCrash(cov, valid, kind)
  PROVE  /\ execs' \in Nat /\ validExecs' \in Nat /\ crashes' \in Nat /\ validCrashes' \in Nat
         /\ crashHist' \in Maps /\ solutions' \in Seq(Entries)
BY MergeFacts, EntryType, AppendProperties DEF UniqCrash, Plus, crash, TypeOK

LEMMA StdType ==
  ASSUME TypeOK, NEW cov \in Maps, NEW valid \in BOOLEAN, NEW kind,
         StdJudges(cov, valid, kind), total' \in 0..MaxEdges
  PROVE  /\ pc' \in {"down", "up", "failed"} /\ edges' \in 0..MaxEdges
         /\ validCorpus' \in Nat /\ totalHist' \in Maps /\ validHist' \in Maps
         /\ corpus' \in Seq(Entries)
<1>1. ASSUME Keep(cov, valid, kind)
      PROVE  /\ validCorpus' \in Nat /\ totalHist' \in Maps /\ validHist' \in Maps
             /\ corpus' \in Seq(Entries)
  BY <1>1, MergeFacts, EntryType, AppendProperties DEF Keep, Plus, TypeOK
<1> QED BY <1>1 DEF StdJudges, std, TypeOK

LEMMA InstrumentsType ==
  ASSUME TypeOK, NEW cov, NEW restarted, Instruments(cov, restarted)
  PROVE  total' \in 0..MaxEdges /\ instr' \in Base..MaxEdges
BY DEF Instruments, TypeOK

LEMMA InitType == Init => TypeOK
BY BlankType, EmptySeq DEF Init, TypeOK

LEMMA NextType == TypeOK /\ [Next]_vars => TypeOK'
<1> SUFFICES ASSUME TypeOK, [Next]_vars PROVE TypeOK'
  OBVIOUS
<1>1. CASE Boot
  BY <1>1 DEF Boot, TypeOK, stats, std, crash
<1>2. ASSUME NEW cov \in Maps, NEW valid \in BOOLEAN, NEW restarted \in BOOLEAN,
             NEW kind \in {"Ok", "Crash"}, Returned(cov, valid, kind, restarted)
      PROVE  TypeOK'
  BY <1>2, UniqCrashType, StdType, InstrumentsType DEF Returned, TypeOK
<1>3. ASSUME NEW cov \in Maps, NEW valid \in BOOLEAN, Died(cov, valid)
      PROVE  TypeOK'
  BY <1>3, UniqCrashType DEF Died, std, shared, TypeOK
<1>4. CASE UNCHANGED vars
  BY <1>4 DEF vars, stats, std, crash, shared, TypeOK
<1> QED BY <1>1, <1>2, <1>3, <1>4 DEF Next

(* Every variable stays in its set.                                        *)
THEOREM TypeCorrect == Spec => []TypeOK
BY InitType, NextType, PTL DEF Spec

-----------------------------------------------------------------------------
(* The histories and what was kept.                                        *)

LEMMA Appended ==
  ASSUME NEW kept \in Seq(Entries), NEW entry \in Entries
  PROVE  /\ Len(kept) \in Nat
         /\ Len(Append(kept, entry)) = Len(kept) + 1
         /\ \A i \in 1..Len(kept) : /\ i \in 1..Len(Append(kept, entry))
                                    /\ Append(kept, entry)[i] = kept[i]
                                    /\ kept[i] \in Entries
         /\ Append(kept, entry)[Len(kept) + 1] = entry
         /\ \A i \in 1..Len(Append(kept, entry)) : i \in 1..Len(kept) \/ i = Len(kept) + 1
BY AppendProperties, LenProperties, ElementOfSeq

(* An entry that counts, merged into the history that it counts for.       *)
LEMMA ClaimsMerged ==
  ASSUME NEW hist \in Maps, NEW kept \in Seq(Entries), NEW entry \in Entries,
         NEW onlyValid \in BOOLEAN, onlyValid => entry.valid,
         Claims(hist, kept, onlyValid)
  PROVE  Claims(Merge(hist, entry.cov), Append(kept, entry), onlyValid)
<1> DEFINE new  == Append(kept, entry)
           hist2 == Merge(hist, entry.cov)
<1>1. entry.cov \in Maps
  BY DEF Entries
<1>2. /\ hist2 \in Maps
      /\ \A e \in Edges : hist2[e] >= hist[e] /\ hist2[e] >= entry.cov[e]
                            /\ hist2[e] \in {hist[e], entry.cov[e]}
  BY <1>1, MergeFacts
<1>3. /\ Len(kept) \in Nat /\ Len(new) = Len(kept) + 1
      /\ \A i \in 1..Len(kept) : i \in 1..Len(new) /\ new[i] = kept[i] /\ kept[i] \in Entries
      /\ new[Len(kept) + 1] = entry
      /\ \A i \in 1..Len(new) : i \in 1..Len(kept) \/ i = Len(kept) + 1
  BY Appended
<1> HIDE DEF new, hist2
<1> SUFFICES ASSUME NEW e \in Edges
             PROVE  /\ \A i \in 1..Len(new) : (onlyValid => new[i].valid)
                                                => new[i].cov[e] <= hist2[e]
                    /\ hist2[e] > 0 => \E i \in 1..Len(new) :
                                         (onlyValid => new[i].valid) /\ new[i].cov[e] = hist2[e]
  BY DEF Claims, new, hist2
<1>4. ASSUME NEW i \in 1..Len(new), onlyValid => new[i].valid
      PROVE  new[i].cov[e] <= hist2[e]
  <2>1. CASE i \in 1..Len(kept)
    <3>1. kept[i].cov[e] <= hist[e]
      BY <1>3, <1>4, <2>1 DEF Claims
    <3>2. kept[i].cov[e] \in Nat /\ hist[e] \in Nat /\ hist2[e] \in Nat /\ hist2[e] >= hist[e]
      BY <1>2, <1>3, <2>1 DEF Entries, Maps
    <3> QED BY <1>3, <2>1, <3>1, <3>2
  <2>2. CASE i = Len(kept) + 1
    BY <1>2, <1>3, <2>2
  <2> QED BY <1>3, <2>1, <2>2
<1>5. ASSUME hist2[e] > 0
      PROVE  \E i \in 1..Len(new) : (onlyValid => new[i].valid) /\ new[i].cov[e] = hist2[e]
  <2>1. CASE hist2[e] = hist[e]
    <3>1. PICK i \in 1..Len(kept) : (onlyValid => kept[i].valid) /\ kept[i].cov[e] = hist[e]
      BY <1>5, <2>1 DEF Claims
    <3> QED BY <1>3, <2>1, <3>1
  <2>2. CASE hist2[e] = entry.cov[e]
    <3>1. Len(kept) + 1 \in 1..Len(new)
      BY <1>3
    <3> QED BY <1>3, <2>2, <3>1
  <2> QED BY <1>2, <2>1, <2>2
<1> QED BY <1>4, <1>5

(* An invalid entry does not touch what only valid ones count for.         *)
LEMMA ClaimsSkipped ==
  ASSUME NEW hist \in Maps, NEW kept \in Seq(Entries), NEW entry \in Entries,
         ~entry.valid, Claims(hist, kept, TRUE)
  PROVE  Claims(hist, Append(kept, entry), TRUE)
BY Appended DEF Claims

(* What is novel to the history is novel to every entry kept before.       *)
LEMMA NovelAdds ==
  ASSUME NEW hist \in Maps, NEW kept \in Seq(Entries), NEW entry \in Entries,
         Claims(hist, kept, FALSE), Novel(hist, entry.cov), EachAdds(kept)
  PROVE  EachAdds(Append(kept, entry))
<1> DEFINE new == Append(kept, entry)
<1>1. /\ Len(kept) \in Nat /\ Len(new) = Len(kept) + 1
      /\ \A i \in 1..Len(kept) : i \in 1..Len(new) /\ new[i] = kept[i] /\ kept[i] \in Entries
      /\ new[Len(kept) + 1] = entry
      /\ \A i \in 1..Len(new) : i \in 1..Len(kept) \/ i = Len(kept) + 1
  BY Appended
<1> HIDE DEF new
<1> SUFFICES ASSUME NEW i \in 1..Len(new)
             PROVE  \E e \in Edges : new[i].cov[e] > 0
                                     /\ \A j \in 1..(i - 1) : new[j].cov[e] < new[i].cov[e]
  BY DEF EachAdds, new
<1>2. CASE i \in 1..Len(kept)
  <2>1. PICK e \in Edges : kept[i].cov[e] > 0
                           /\ \A j \in 1..(i - 1) : kept[j].cov[e] < kept[i].cov[e]
    BY <1>2 DEF EachAdds
  <2>2. \A j \in 1..(i - 1) : j \in 1..Len(kept)
    BY <1>1, <1>2
  <2> QED BY <1>1, <1>2, <2>1, <2>2
<1>3. CASE i = Len(kept) + 1
  <2>1. PICK e \in Edges : entry.cov[e] > hist[e]
    BY DEF Novel
  <2>2. hist[e] \in Nat /\ entry.cov[e] \in Nat
    BY DEF Maps, Entries
  <2>3. \A j \in 1..Len(kept) : kept[j].cov[e] <= hist[e] /\ kept[j].cov[e] \in Nat
    BY <1>1 DEF Claims, Maps, Entries
  <2>4. entry.cov[e] > 0 /\ \A j \in 1..Len(kept) : kept[j].cov[e] < entry.cov[e]
    BY <2>1, <2>2, <2>3
  <2> QED BY <1>1, <1>3, <2>4
<1> QED BY <1>1, <1>2, <1>3

-----------------------------------------------------------------------------
(* The invariant: everything but the counters.                             *)

Kept == HistoryWitnessed /\ ValidBelowTotal /\ CrashesKeptApart /\ NothingKeptTwice

(* The conjuncts that speak of the corpus, and those that speak of the     *)
(* solutions: StdFeedback and UniqCrashFeedback each keep their own.       *)
CorpusOK ==
  /\ Claims(totalHist, corpus, FALSE) /\ Claims(validHist, corpus, TRUE)
  /\ ValidBelowTotal /\ EachAdds(corpus)
  /\ \A i \in 1..Len(corpus) : corpus[i].valid # corpus[i].throws

SolutionsOK ==
  /\ Claims(crashHist, solutions, FALSE) /\ EachAdds(solutions)
  /\ \A i \in 1..Len(solutions) : solutions[i].valid /\ solutions[i].throws

LEMMA KeptParts == Kept <=> CorpusOK /\ SolutionsOK
BY DEF Kept, CorpusOK, SolutionsOK, HistoryWitnessed, CrashesKeptApart, NothingKeptTwice,
   CorpusErrors, CrashErrors

LEMMA UniqCrashKeeps ==
  ASSUME TypeOK, SolutionsOK, NEW cov \in Maps, NEW valid \in BOOLEAN, NEW kind,
         UniqCrash(cov, valid, kind)
  PROVE  SolutionsOK'
<1> DEFINE entry == Entry(cov, valid, kind)
<1>1. entry \in Entries /\ entry.cov = cov /\ entry.valid = valid /\ entry.throws = (kind # "Ok")
  BY EntryType DEF Entry
<1>2. CASE UNCHANGED crash
  BY <1>2 DEF crash, SolutionsOK
<1>3. CASE /\ kind # "Ok" /\ valid /\ Novel(crashHist, cov)
           /\ crashHist' = Merge(crashHist, cov) /\ solutions' = Append(solutions, entry)
  <2>1. Claims(crashHist', solutions', FALSE)
    BY <1>1, <1>3, ClaimsMerged DEF SolutionsOK, TypeOK
  <2>2. EachAdds(solutions')
    BY <1>1, <1>3, NovelAdds DEF SolutionsOK, TypeOK
  <2>3. \A i \in 1..Len(solutions') : solutions'[i].valid /\ solutions'[i].throws
    <3>1. entry.valid /\ entry.throws
      BY <1>3 DEF Entry
    <3>2. solutions' = Append(solutions, entry) /\ solutions \in Seq(Entries)
      BY <1>3 DEF TypeOK
    <3>3. \A i \in 1..Len(solutions) : solutions[i].valid /\ solutions[i].throws
      BY DEF SolutionsOK
    <3> HIDE DEF entry
    <3> TAKE i \in 1..Len(solutions')
    <3>4. CASE i \in 1..Len(solutions)
      BY <1>1, <3>2, <3>3, <3>4, Appended
    <3>5. CASE i = Len(solutions) + 1
      BY <1>1, <3>1, <3>2, <3>5, Appended
    <3> QED BY <1>1, <3>2, <3>4, <3>5, Appended
  <2> QED BY <2>1, <2>2, <2>3 DEF SolutionsOK, Claims, EachAdds
<1> QED BY <1>2, <1>3 DEF UniqCrash

LEMMA StdKeeps ==
  ASSUME TypeOK, CorpusOK, NEW cov \in Maps, NEW valid \in BOOLEAN, NEW kind,
         kind = "Ok" => valid, StdJudges(cov, valid, kind)
  PROVE  CorpusOK'
<1> DEFINE entry == Entry(cov, valid, kind)
<1>1. entry \in Entries /\ entry.cov = cov /\ entry.valid = valid /\ entry.throws = (kind # "Ok")
  BY EntryType DEF Entry
<1>2. CASE UNCHANGED std
  BY <1>2 DEF std, CorpusOK, ValidBelowTotal
<1>3. CASE Considered(valid, kind) /\ Novel(totalHist, cov) /\ Keep(cov, valid, kind)
  <2>1. totalHist' = Merge(totalHist, cov) /\ corpus' = Append(corpus, entry)
    BY <1>3 DEF Keep
  <2>2. Claims(totalHist', corpus', FALSE)
    BY <1>1, <2>1, ClaimsMerged DEF CorpusOK, TypeOK
  <2>3. EachAdds(corpus')
    BY <1>1, <1>3, <2>1, NovelAdds DEF CorpusOK, TypeOK
  <2>4. Claims(validHist', corpus', TRUE)
    <3>1. CASE valid
      BY <1>1, <1>3, <2>1, <3>1, ClaimsMerged DEF CorpusOK, TypeOK, Keep
    <3>2. CASE ~valid
      BY <1>1, <1>3, <2>1, <3>2, ClaimsSkipped DEF CorpusOK, TypeOK, Keep
    <3> QED BY <3>1, <3>2
  <2>5. \A i \in 1..Len(corpus') : corpus'[i].valid # corpus'[i].throws
    <3>1. entry.valid # entry.throws
      <4>1. CASE kind = "Ok"
        BY <1>1, <4>1
      <4>2. CASE ~valid
        BY <1>1, <4>2
      <4> QED BY <1>3, <4>1, <4>2 DEF Considered
    <3>2. corpus \in Seq(Entries)
      BY DEF TypeOK
    <3>3. \A i \in 1..Len(corpus) : corpus[i].valid # corpus[i].throws
      BY DEF CorpusOK
    <3> HIDE DEF entry
    <3> TAKE i \in 1..Len(corpus')
    <3>4. CASE i \in 1..Len(corpus)
      BY <1>1, <2>1, <3>2, <3>3, <3>4, Appended
    <3>5. CASE i = Len(corpus) + 1
      BY <1>1, <2>1, <3>1, <3>2, <3>5, Appended
    <3> QED BY <1>1, <2>1, <3>2, <3>4, <3>5, Appended
  <2>6. \A e \in Edges : validHist'[e] <= totalHist'[e]
    BY <1>3 DEF Keep, Merge, CorpusOK, ValidBelowTotal, TypeOK, Maps
  <2> QED BY <2>2, <2>3, <2>4, <2>5, <2>6 DEF CorpusOK, ValidBelowTotal, Claims, EachAdds
<1> QED BY <1>2, <1>3 DEF StdJudges

LEMMA InitKept == Init => Kept
<1> SUFFICES ASSUME Init PROVE CorpusOK /\ SolutionsOK
  BY KeptParts
<1>1. corpus = <<>> /\ solutions = <<>> /\ Len(<<>>) = 0
  BY DEF Init
<1>2. 1..Len(corpus) = {} /\ 1..Len(solutions) = {}
  BY <1>1
<1>3. \A e \in Edges : totalHist[e] = 0 /\ validHist[e] = 0 /\ crashHist[e] = 0
  BY DEF Init, Blank
<1>4. EachAdds(corpus) /\ EachAdds(solutions)
  BY <1>2 DEF EachAdds
<1>5. /\ Claims(totalHist, corpus, FALSE) /\ Claims(validHist, corpus, TRUE)
      /\ Claims(crashHist, solutions, FALSE)
  BY <1>2, <1>3 DEF Claims
<1>6. ValidBelowTotal
  BY <1>3 DEF ValidBelowTotal
<1> QED BY <1>2, <1>4, <1>5, <1>6 DEF CorpusOK, SolutionsOK

LEMMA NextKept == TypeOK /\ Kept /\ [Next]_vars => Kept'
<1> SUFFICES ASSUME TypeOK, CorpusOK, SolutionsOK, [Next]_vars PROVE CorpusOK' /\ SolutionsOK'
  BY KeptParts DEF Kept, CorpusOK, SolutionsOK, HistoryWitnessed, CrashesKeptApart,
     NothingKeptTwice, ValidBelowTotal, Claims, EachAdds, CorpusErrors, CrashErrors
<1>1. ASSUME UNCHANGED std PROVE CorpusOK'
  BY <1>1 DEF std, CorpusOK, ValidBelowTotal
<1>2. ASSUME UNCHANGED crash PROVE SolutionsOK'
  BY <1>2 DEF crash, SolutionsOK
<1>3. CASE Boot \/ UNCHANGED vars
  BY <1>1, <1>2, <1>3 DEF Boot, vars
<1>4. ASSUME NEW cov \in Maps, NEW valid \in BOOLEAN, NEW restarted \in BOOLEAN,
             NEW kind \in {"Ok", "Crash"}, Returned(cov, valid, kind, restarted)
      PROVE  CorpusOK' /\ SolutionsOK'
  BY <1>4, UniqCrashKeeps, StdKeeps DEF Returned
<1>5. ASSUME NEW cov \in Maps, NEW valid \in BOOLEAN, Died(cov, valid)
      PROVE  CorpusOK' /\ SolutionsOK'
  BY <1>1, <1>5, UniqCrashKeeps DEF Died
<1> QED BY <1>3, <1>4, <1>5 DEF Next

(* Whatever the executions show and however often the client dies, what    *)
(* was kept and the histories fit: the inductive invariant of the four     *)
(* theorems below.                                                         *)
THEOREM KeptInvariant == Spec => []Kept
BY InitType, InitKept, TypeCorrect, NextKept, PTL DEF Spec

(* The coverage a history claims was really seen, by an input that was     *)
(* kept for it (is_interesting and append_metadata agree).                 *)
THEOREM HistoriesAreWitnessed == Spec => []HistoryWitnessed
BY KeptInvariant, PTL DEF Kept

(* The reported validcoverage never exceeds totalcoverage.                 *)
THEOREM ValidStaysBelowTotal == Spec => []ValidBelowTotal
BY KeptInvariant, PTL DEF Kept

(* Valid crashes are solutions and never corpus entries, and nothing else  *)
(* is a solution.                                                          *)
THEOREM CrashesStayApart == Spec => []CrashesKeptApart
BY KeptInvariant, PTL DEF Kept

(* Neither the corpus nor the solutions hold an entry that shows nothing   *)
(* over those kept before it.                                              *)
THEOREM NothingIsKeptTwice == Spec => []NothingKeptTwice
BY KeptInvariant, PTL DEF Kept

-----------------------------------------------------------------------------
(* Nothing is forgotten.                                                   *)

Grows ==
  /\ ~Forgets(totalHist, totalHist') /\ ~Forgets(validHist, validHist')
  /\ ~Forgets(crashHist, crashHist')
  /\ Len(corpus') >= Len(corpus) /\ Len(solutions') >= Len(solutions)
  /\ execs' >= execs /\ validExecs' >= validExecs /\ crashes' >= crashes

LEMMA MergeRemembers ==
  ASSUME NEW hist \in Maps, NEW cov \in Maps
  PROVE  ~Forgets(hist, hist) /\ ~Forgets(hist, Merge(hist, cov))
BY MergeFacts DEF Forgets, Maps

LEMMA UniqCrashGrows ==
  ASSUME TypeOK, NEW cov \in Maps, NEW valid \in BOOLEAN, NEW kind,
         UniqCrash(cov, valid, kind)
  PROVE  /\ ~Forgets(crashHist, crashHist') /\ Len(solutions') >= Len(solutions)
         /\ execs' >= execs /\ validExecs' >= validExecs /\ crashes' >= crashes
<1>1. execs' >= execs /\ validExecs' >= validExecs /\ crashes' >= crashes
  BY DEF UniqCrash, Plus, TypeOK
<1>2. ~Forgets(crashHist, crashHist')
  BY MergeRemembers DEF UniqCrash, crash, TypeOK
<1>3. Len(solutions') >= Len(solutions)
  BY EntryType, Appended, LenProperties DEF UniqCrash, crash, TypeOK
<1> QED BY <1>1, <1>2, <1>3

LEMMA StdGrows ==
  ASSUME TypeOK, NEW cov \in Maps, NEW valid \in BOOLEAN, NEW kind,
         StdJudges(cov, valid, kind)
  PROVE  /\ ~Forgets(totalHist, totalHist') /\ ~Forgets(validHist, validHist')
         /\ Len(corpus') >= Len(corpus)
<1>1. CASE UNCHANGED std
  BY <1>1, MergeRemembers, LenProperties DEF std, TypeOK
<1>2. CASE Keep(cov, valid, kind)
  BY <1>2, MergeRemembers, EntryType, Appended DEF Keep, TypeOK
<1> QED BY <1>1, <1>2 DEF StdJudges

LEMMA NextGrows == TypeOK /\ [Next]_vars => [Grows]_vars
<1> SUFFICES ASSUME TypeOK, Next PROVE Grows
  BY DEF Grows
<1>1. /\ ~Forgets(totalHist, totalHist) /\ ~Forgets(validHist, validHist)
      /\ ~Forgets(crashHist, crashHist)
      /\ Len(corpus) >= Len(corpus) /\ Len(solutions) >= Len(solutions)
      /\ execs >= execs /\ validExecs >= validExecs /\ crashes >= crashes
  BY MergeRemembers, LenProperties DEF TypeOK
<1>2. CASE Boot
  BY <1>1, <1>2 DEF Boot, stats, std, crash, Grows
<1>3. ASSUME NEW cov \in Maps, NEW valid \in BOOLEAN, NEW restarted \in BOOLEAN,
             NEW kind \in {"Ok", "Crash"}, Returned(cov, valid, kind, restarted)
      PROVE  Grows
  BY <1>3, UniqCrashGrows, StdGrows DEF Returned, Grows
<1>4. ASSUME NEW cov \in Maps, NEW valid \in BOOLEAN, Died(cov, valid)
      PROVE  Grows
  BY <1>1, <1>4, UniqCrashGrows DEF Died, std, Grows
<1> QED BY <1>2, <1>3, <1>4 DEF Next

(* No coverage, no input and no count is forgotten, not by a restart of    *)
(* the client: what the next process starts from is all that was saved.    *)
THEOREM NothingIsForgotten == Spec => NothingForgotten
<1>1. TypeOK /\ [Next]_vars
        => [/\ ~Forgets(totalHist, totalHist') /\ ~Forgets(validHist, validHist')
            /\ ~Forgets(crashHist, crashHist')
            /\ Len(corpus') >= Len(corpus) /\ Len(solutions') >= Len(solutions)
            /\ execs' >= execs /\ validExecs' >= validExecs /\ crashes' >= crashes]_vars
  BY NextGrows DEF Grows
<1> QED BY <1>1, TypeCorrect, PTL DEF Spec, NothingForgotten

-----------------------------------------------------------------------------
(* The statistics.                                                         *)

ValidIn(kept) == {i \in 1..Len(kept) : kept[i].valid}

LEMMA ValidInAppended ==
  ASSUME NEW kept \in Seq(Entries), NEW entry \in Entries
  PROVE  Cardinality(ValidIn(Append(kept, entry)))
           = Plus(Cardinality(ValidIn(kept)), entry.valid)
<1> DEFINE new == Append(kept, entry)
<1>1. /\ Len(kept) \in Nat /\ Len(new) = Len(kept) + 1
      /\ \A i \in 1..Len(kept) : i \in 1..Len(new) /\ new[i] = kept[i]
      /\ new[Len(kept) + 1] = entry
      /\ \A i \in 1..Len(new) : i \in 1..Len(kept) \/ i = Len(kept) + 1
  BY Appended
<1> HIDE DEF new
<1>2. IsFiniteSet(ValidIn(kept)) /\ Len(kept) + 1 \notin ValidIn(kept)
  <2>1. IsFiniteSet(1..Len(kept))
    BY <1>1, FS_Interval
  <2>2. ValidIn(kept) \subseteq 1..Len(kept)
    BY DEF ValidIn
  <2> QED BY <1>1, <2>1, <2>2, FS_Subset
<1>3. CASE entry.valid
  <2>1. ValidIn(new) = ValidIn(kept) \cup {Len(kept) + 1}
    BY <1>1, <1>3 DEF ValidIn
  <2>2. Cardinality(ValidIn(new)) = Cardinality(ValidIn(kept)) + 1
    BY <1>2, <2>1, FS_AddElement
  <2> QED BY <1>3, <2>2 DEF Plus, new
<1>4. CASE ~entry.valid
  <2>1. ValidIn(new) = ValidIn(kept)
    BY <1>1, <1>4 DEF ValidIn
  <2> QED BY <1>4, <2>1 DEF Plus, new
<1> QED BY <1>3, <1>4

LEMMA InitStats == Init => StatsAgree
<1> SUFFICES ASSUME Init PROVE StatsAgree
  OBVIOUS
<1>1. corpus = <<>> /\ solutions = <<>> /\ Len(<<>>) = 0
  BY DEF Init
<1>2. {i \in 1..Len(corpus) : corpus[i].valid} = {}
  BY <1>1
<1>3. Cardinality({i \in 1..Len(corpus) : corpus[i].valid}) = 0
  BY <1>2, FS_EmptySet
<1> QED BY <1>1, <1>3 DEF Init, StatsAgree

(* What one execution adds to the counters and to what is kept.            *)
LEMMA JudgedStats ==
  ASSUME TypeOK, StatsAgree, NEW cov \in Maps, NEW valid \in BOOLEAN, NEW kind,
         kind = "Ok" => valid, UniqCrash(cov, valid, kind),
         \/ UNCHANGED std
         \/ Considered(valid, kind) /\ Keep(cov, valid, kind)
  PROVE  StatsAgree'
<1> DEFINE entry == Entry(cov, valid, kind)
<1>1. entry \in Entries /\ entry.valid = valid
  BY EntryType DEF Entry
<1>2. /\ execs' = execs + 1
      /\ validExecs' = Plus(validExecs, valid)
      /\ crashes' = Plus(crashes, kind # "Ok")
      /\ validCrashes' = Plus(validCrashes, valid /\ kind # "Ok")
  BY DEF UniqCrash
<1>3. /\ validCrashes' <= crashes' /\ crashes' <= execs'
      /\ validExecs' - validCrashes' = execs' - crashes'
  BY <1>2 DEF Plus, StatsAgree, TypeOK
<1>4. /\ Len(solutions) \in Nat /\ Len(solutions') \in Nat
      /\ Len(solutions') <= Plus(Len(solutions), valid /\ kind # "Ok")
  BY <1>1, Appended, LenProperties DEF UniqCrash, crash, Plus, TypeOK
<1>5. /\ validCorpus' \in Nat /\ validCorpus' <= Plus(validCorpus, valid /\ kind = "Ok")
  BY DEF Keep, Considered, std, Plus, TypeOK
<1>6. validCorpus' = Cardinality(ValidIn(corpus'))
  <2>1. validCorpus = Cardinality(ValidIn(corpus))
    BY DEF StatsAgree, ValidIn
  <2>2. CASE UNCHANGED std
    BY <2>1, <2>2 DEF std
  <2>3. CASE Keep(cov, valid, kind)
    <3>1. corpus' = Append(corpus, entry) /\ validCorpus' = Plus(validCorpus, valid)
      BY <2>3 DEF Keep
    <3>2. corpus \in Seq(Entries)
      BY DEF TypeOK
    <3> HIDE DEF entry
    <3> QED BY <1>1, <2>1, <3>1, <3>2, ValidInAppended
  <2> QED BY <2>2, <2>3
<1>7. /\ validCorpus' + Len(solutions') <= validExecs'
      /\ Len(solutions') <= validCrashes'
  BY <1>2, <1>4, <1>5 DEF Plus, StatsAgree, TypeOK
<1> QED BY <1>3, <1>6, <1>7 DEF StatsAgree, ValidIn

LEMMA NextStats == TypeOK /\ StatsAgree /\ [Next]_vars => StatsAgree'
<1> SUFFICES ASSUME TypeOK, StatsAgree, [Next]_vars PROVE StatsAgree'
  OBVIOUS
<1>1. CASE UNCHANGED <<stats, std, crash>>
  BY <1>1 DEF stats, std, crash, StatsAgree
<1>2. ASSUME NEW cov \in Maps, NEW valid \in BOOLEAN, NEW restarted \in BOOLEAN,
             NEW kind \in {"Ok", "Crash"}, Returned(cov, valid, kind, restarted)
      PROVE  StatsAgree'
  BY <1>2, JudgedStats DEF Returned, StdJudges
<1>3. ASSUME NEW cov \in Maps, NEW valid \in BOOLEAN, Died(cov, valid)
      PROVE  StatsAgree'
  BY <1>3, JudgedStats DEF Died
<1>4. CASE Boot \/ UNCHANGED vars
  BY <1>1, <1>4 DEF Boot, vars
<1> QED BY <1>2, <1>3, <1>4 DEF Next

(* The statistics agree with each other and with what was kept.            *)
THEOREM StatisticsAgree == Spec => []StatsAgree
BY InitStats, NextStats, TypeCorrect, PTL DEF Spec

=============================================================================
