------------------------------- MODULE ApiSeq -------------------------------
(***************************************************************************)
(* The API sequences a client fuzzes with: how they are generated,         *)
(* completed (fuzzer/src/seq.rs) and mutated (fuzzer/src/mutations.rs).    *)
(*                                                                         *)
(* A sequence is a list of calls; an argument is a constant, the output of *)
(* another call, named by its ID, or missing.  Every operation that may    *)
(* leave arguments missing ends with a completion, a loop over a worklist  *)
(* of calls that fills one argument after the other, inserts calls to      *)
(* produce them, and may need arguments for those.  The model takes one    *)
(* step per argument, so that the choices of the random number generator   *)
(* are the only thing left open.                                           *)
(*                                                                         *)
(* Of types, only what this code asks of them is kept: what may stand for  *)
(* what (Makes), what can be a constant (ConstAble), and which constants   *)
(* may be sampled (Samples).  Fuzz bytes are left out.                     *)
(***************************************************************************)
EXTENDS Naturals, Sequences, FiniteSets, SequencesExt

CONSTANTS
  Apis,       \* endpoints of the schema
  Builtin,    \* those that the schema adds to the library's own
  Free,       \* those whose call convention is Free
  Types,      \* type guesses in argument position
  Sig,        \* the guesses for an endpoint's arguments
  Makes,      \* the endpoints whose result is assignable to a guess
  ConstAble,  \* the guesses that can be a constant (is_const_able)
  Samples,    \* the constants that may be sampled for a guess
  MaxSeqLen,  \* DEFAULT_MAX_SEQ_LEN
  Ids,        \* bound: call IDs
  MaxKept,    \* bound: calls of a sequence in the corpus
  MaxCorpus   \* bound: sequences in the corpus

ASSUME ApisAssumption    == Builtin \subseteq Apis /\ Free \subseteq Apis
ASSUME SigAssumption     == Sig \in [Apis -> Seq(Types)] /\ Makes \in [Types -> SUBSET Apis]
ASSUME SamplesAssumption == /\ ConstAble \subseteq Types
                            /\ \A t \in Types : Samples[t] # {}
ASSUME BoundsAssumption  == /\ MaxSeqLen \in Nat /\ MaxKept \in Nat /\ MaxCorpus \in Nat
                            /\ IsFiniteSet(Ids)

VARIABLES
  mode,      \* FuzzerMode: "sequence" or "single"
  pc,        \* "idle", "filling" a sequence, or a sequence is "made"
  fuzzing,   \* FALSE while the initial corpus is generated
  seq,       \* the sequence being made: calls [id, api, args]
  worklist,  \* IDs of the calls with missing arguments, the current first
  limit,     \* max_len of complete_one
  corpus     \* the sequences kept

vars == <<mode, pc, fuzzing, seq, worklist, limit, corpus>>

-----------------------------------------------------------------------------
(* Arguments, calls and sequences.                                         *)

Missing     == <<"Missing">>
Constant(c) == <<"Constant", c>>
Output(id)  == <<"Output", id>>

Call(id, api, args) == [id |-> id, api |-> api, args |-> args]

(* ApiSeq::append makes a call without any argument.                       *)
NewCall(id, api) == Call(id, api, [k \in 1..Len(Sig[api]) |-> Missing])

Slots(call, tag) == {k \in DOMAIN call.args : call.args[k][1] = tag}
Refs(call)       == {call.args[k][2] : k \in Slots(call, "Output")}

IdsOf(s)    == {s[i].id : i \in 1..Len(s)}
RefsOf(s)   == UNION {Refs(s[i]) : i \in 1..Len(s)}
IndexOf(id) == CHOOSE i \in 1..Len(seq) : seq[i].id = id

(* A random UUID is no ID of any sequence at hand.                         *)
UnusedIds == Ids \ (IdsOf(seq) \cup UNION {IdsOf(s) : s \in corpus})
FreshId   == CHOOSE id \in UnusedIds : TRUE

(* The call with its references to the IDs in `gone' missing.              *)
Forget(call, gone) ==
  [call EXCEPT !.args = [k \in DOMAIN @ |->
     IF k \in Slots(call, "Output") /\ @[k][2] \in gone THEN Missing ELSE @[k]]]

(* Mutant of Without: references to the removed call stay.                 *)
WithoutForgetting(s, i) == RemoveAt(s, i)

(* ApiSeq::remove: later references to the call become missing.            *)
Without(s, i) ==
  [j \in 1..(Len(s) - 1) |-> IF j < i THEN s[j] ELSE Forget(s[j + 1], {s[i].id})]

(* Mutant of Renamed: the other sequence keeps its IDs.                    *)
NotRenamed(s) == s

(* generate_fresh_ids: IDs and references are renamed together.  The code  *)
(* panics on a reference to no call: see PanicFree.                        *)
Renamed(s) ==
  LET new   == CHOOSE f \in Injection(IdsOf(s), UnusedIds) : TRUE
      Id(x) == IF x \in IdsOf(s) THEN new[x] ELSE x
  IN [i \in 1..Len(s) |->
       Call(Id(s[i].id), s[i].api,
            [k \in DOMAIN s[i].args |->
               IF k \in Slots(s[i], "Output") THEN Output(Id(s[i].args[k][2]))
                                              ELSE s[i].args[k]])]

(* Crossover's tail of the other sequence, from call `from' on.            *)
SuffixOf(s, from) ==
  LET suffix == SubSeq(s, from, Len(s))
      gone   == RefsOf(suffix) \ IdsOf(suffix)
  IN [i \in 1..Len(suffix) |-> Forget(suffix[i], gone)]

-----------------------------------------------------------------------------
(* Completion.                                                             *)

Incomplete(call) == Slots(call, "Missing") # {}

(* The IDs of the incomplete calls, in the order of the calls.             *)
Todo(s) ==
  LET upTo[i \in 0..Len(s)] ==
        IF i = 0 THEN <<>>
        ELSE IF Incomplete(s[i]) THEN Append(upTo[i - 1], s[i].id) ELSE upTo[i - 1]
  IN upTo[Len(s)]

(* ApiSeq::complete: the worklist starts with the incomplete calls.        *)
Complete(s) ==
  /\ seq' = s
  /\ worklist' = Todo(s)
  /\ limit' = MaxSeqLen
  /\ pc' = "filling"

(* The argument that is filled next: the first missing one of the call at  *)
(* the head of the worklist.                                               *)
Here    == IndexOf(Head(worklist))
Slot    == CHOOSE k \in Slots(seq[Here], "Missing") :
             \A l \in Slots(seq[Here], "Missing") : k <= l
Need    == Sig[seq[Here].api][Slot]
Filling == pc = "filling" /\ worklist # <<>> /\ Incomplete(seq[Here])

Fill(arg) == [seq EXCEPT ![Here].args[Slot] = arg]

(* Mutant of Strategies: the limit is one too high.                        *)
StrategiesOneMore ==
  IF Len(seq) > limit
  THEN IF Need \in ConstAble THEN {"Constant"} ELSE {"Reuse"}
  ELSE IF Need \in ConstAble THEN {"Constant", "Reuse", "New"} ELSE {"Reuse", "New"}

(* pick_arg_fill_strat: the strategies the generator may pick.             *)
Strategies ==
  IF Len(seq) >= limit
  THEN IF Need \in ConstAble THEN {"Constant"} ELSE {"Reuse"}
  ELSE IF Need \in ConstAble THEN {"Constant", "Reuse", "New"} ELSE {"Reuse", "New"}

(* Mutant of Suppliers: any earlier call will do.                          *)
SuppliersOfAny == {seq[i].id : i \in 1..(Here - 1)}

(* find_output_before.                                                     *)
Suppliers == {seq[i].id : i \in {j \in 1..(Here - 1) : seq[j].api \in Makes[Need]}}

Reuse ==
  /\ Filling
  /\ "Reuse" \in Strategies
  /\ \E id \in Suppliers : seq' = Fill(Output(id))
  /\ UNCHANGED <<mode, pc, fuzzing, worklist, limit, corpus>>

(* New was picked, or Reuse and there was nothing to reuse.                *)
WantsCall == "New" \in Strategies \/ ("Reuse" \in Strategies /\ Suppliers = {})

(* Mutant of InsertCall: the new call is not put on the worklist.          *)
InsertUnlisted ==
  /\ Filling
  /\ WantsCall
  /\ UnusedIds # {}
  /\ \E api \in Makes[Need] :
       seq' = InsertAt(Fill(Output(FreshId)), Here, NewCall(FreshId, api))
  /\ UNCHANGED <<mode, pc, fuzzing, worklist, limit, corpus>>

(* A call that produces the argument is inserted before the current one.   *)
InsertCall ==
  /\ Filling
  /\ WantsCall
  /\ UnusedIds # {}
  /\ \E api \in Makes[Need] :
       seq' = InsertAt(Fill(Output(FreshId)), Here, NewCall(FreshId, api))
  /\ worklist' = Append(worklist, FreshId)
  /\ UNCHANGED <<mode, pc, fuzzing, limit, corpus>>

(* A constant was picked, or no endpoint produces the argument.            *)
UseConstant ==
  /\ Filling
  /\ "Constant" \in Strategies \/ (WantsCall /\ Makes[Need] = {})
  /\ \E c \in Samples[Need] : seq' = Fill(Constant(c))
  /\ UNCHANGED <<mode, pc, fuzzing, worklist, limit, corpus>>

(* Mutant of CallDone: a completed call goes to the end of the worklist.   *)
CallRequeued ==
  /\ pc = "filling" /\ worklist # <<>> /\ ~Incomplete(seq[Here])
  /\ worklist' = Append(Tail(worklist), Head(worklist))
  /\ UNCHANGED <<mode, pc, fuzzing, seq, limit, corpus>>

(* The worklist's next call.                                               *)
CallDone ==
  /\ pc = "filling" /\ worklist # <<>> /\ ~Incomplete(seq[Here])
  /\ worklist' = Tail(worklist)
  /\ UNCHANGED <<mode, pc, fuzzing, seq, limit, corpus>>

Completed ==
  /\ pc = "filling" /\ worklist = <<>>
  /\ pc' = "made"
  /\ UNCHANGED <<mode, fuzzing, seq, worklist, limit, corpus>>

-----------------------------------------------------------------------------
(* Generators.                                                             *)

Ready(inMode, isFuzzing) == pc = "idle" /\ mode \in inMode /\ fuzzing = isFuzzing

(* ApiSeq::create: one call of the library, completed at once.             *)
Create ==
  /\ Ready({"sequence"}, FALSE)
  /\ UnusedIds # {}
  /\ \E api \in Apis \ Builtin : seq' = <<NewCall(FreshId, api)>>
  /\ worklist' = <<FreshId>>
  /\ limit' = 1
  /\ pc' = "filling"
  /\ UNCHANGED <<mode, fuzzing, corpus>>

AllSamples == UNION {Samples[t] : t \in Types}

(* A sequence that needs no completion.                                    *)
Made(s) == seq' = s /\ pc' = "made" /\ UNCHANGED <<mode, fuzzing, worklist, limit, corpus>>

(* ApiSeq::create_single.                                                  *)
CreateSingle ==
  /\ Ready({"single"}, FALSE)
  /\ UnusedIds # {}
  /\ \E api \in Free \ Builtin :
       /\ \A k \in 1..Len(Sig[api]) : Sig[api][k] \in ConstAble
       /\ \E f \in [1..Len(Sig[api]) -> AllSamples] :
            /\ \A k \in DOMAIN f : f[k] \in Samples[Sig[api][k]]
            /\ Made(<<Call(FreshId, api, [k \in DOMAIN f |-> Constant(f[k])])>>)

StartFuzzing ==
  /\ pc = "idle" /\ ~fuzzing /\ corpus # {}
  /\ fuzzing' = TRUE
  /\ UNCHANGED <<mode, pc, seq, worklist, limit, corpus>>

-----------------------------------------------------------------------------
(* Mutations, each of a clone of a sequence in the corpus.                 *)

Mutating == Ready({"sequence"}, TRUE)

SpliceSeq ==
  /\ Mutating
  /\ \E s \in corpus : Len(s) >= 2 /\ \E i \in 1..Len(s) : Complete(Without(s, i))
  /\ UNCHANGED <<mode, fuzzing, corpus>>

ExtendSeq ==
  /\ Mutating
  /\ UnusedIds # {}
  /\ \E s \in corpus, api \in Apis : Complete(Append(s, NewCall(FreshId, api)))
  /\ UNCHANGED <<mode, fuzzing, corpus>>

RemoveSuffixSeq ==
  /\ Mutating
  /\ \E s \in corpus : Len(s) >= 2 /\ Made(Front(s))

RemovePrefixSeq ==
  /\ Mutating
  /\ \E s \in corpus : Len(s) >= 2 /\ Complete(Without(s, 1))
  /\ UNCHANGED <<mode, fuzzing, corpus>>

(* A prefix of a sequence and a suffix of another, or of the same one:     *)
(* both may be empty.                                                      *)
Crossover ==
  /\ Mutating
  /\ \E s, other \in corpus :
       /\ Cardinality(UnusedIds) >= Len(other)
       /\ \E n \in 0..Len(s), from \in 1..(Len(other) + 1) :
            Complete(SubSeq(s, 1, n) \o SuffixOf(Renamed(other), from))
  /\ UNCHANGED <<mode, fuzzing, corpus>>

(* ConstTypes samples constants again, at least one of them.               *)
ConstSlots(s) == UNION {{<<i, k>> : k \in Slots(s[i], "Constant")} : i \in 1..Len(s)}

ConstTypes ==
  /\ Ready({"sequence", "single"}, TRUE)
  /\ \E s \in corpus : \E f \in [ConstSlots(s) -> AllSamples] :
       /\ DOMAIN f # {}
       /\ \A p \in DOMAIN f : f[p] \in Samples[Sig[s[p[1]].api][p[2]]]
       /\ Made([i \in 1..Len(s) |-> [s[i] EXCEPT !.args =
              [k \in DOMAIN @ |-> IF <<i, k>> \in DOMAIN f THEN Constant(f[<<i, k>>]) ELSE @[k]]]])

(* LibAFL's byte mutations leave the calls alone.                          *)
FuzzSeqConsts ==
  /\ Ready({"sequence", "single"}, TRUE)
  /\ \E s \in corpus : Made(s)

(* The sequence is executed; the fuzzer keeps it or drops it.              *)
Evaluate ==
  /\ pc = "made"
  /\ corpus' \in {corpus} \cup {c \in {corpus \cup {seq}} :
                                  Cardinality(c) <= MaxCorpus /\ Len(seq) <= MaxKept}
  /\ seq' = <<>>
  /\ pc' = "idle"
  /\ UNCHANGED <<mode, fuzzing, worklist, limit>>

-----------------------------------------------------------------------------
Init ==
  /\ mode \in {"sequence", "single"}
  /\ pc = "idle"
  /\ fuzzing = FALSE
  /\ seq = <<>> /\ worklist = <<>>
  /\ limit = MaxSeqLen
  /\ corpus = {}

Completion == Reuse \/ InsertCall \/ UseConstant \/ CallDone \/ Completed

Next ==
  \/ Completion
  \/ Create \/ CreateSingle \/ StartFuzzing \/ Evaluate
  \/ SpliceSeq \/ ExtendSeq \/ RemoveSuffixSeq \/ RemovePrefixSeq
  \/ Crossover \/ ConstTypes \/ FuzzSeqConsts

Spec     == Init /\ [][Next]_vars

(* A completion is a loop of one thread that never waits for anything.     *)
FairSpec == Spec /\ WF_vars(Completion)

-----------------------------------------------------------------------------
Args  == {Missing} \cup {Constant(c) : c \in AllSamples} \cup {Output(id) : id \in Ids}
Calls == [id : Ids, api : Apis, args : Seq(Args)]
WellFormed(s) == s \in Seq(Calls) /\ \A i \in 1..Len(s) : Len(s[i].args) = Len(Sig[s[i].api])

(* ApiSeq::is_valid: no argument is missing, an output is one of an        *)
(* earlier call, and no two calls share an ID.                             *)
OutputsComeFirst(s) == \A i \in 1..Len(s) : Refs(s[i]) \subseteq IdsOf(SubSeq(s, 1, i - 1))
IdsDiffer(s)        == \A i, j \in 1..Len(s) : s[i].id = s[j].id => i = j
IsValid(s) ==
  OutputsComeFirst(s) /\ IdsDiffer(s) /\ \A i \in 1..Len(s) : ~Incomplete(s[i])

(* What is executed, and what is kept, is valid, whatever was generated,   *)
(* removed, spliced and filled in before.  Release builds do not check it. *)
ValidInputs == (pc = "made" => IsValid(seq)) /\ \A s \in corpus : IsValid(s)

(* No unwrap or assertion of seq.rs and mutations.rs fails: the calls on   *)
(* the worklist exist (:333), references that get fresh IDs have one       *)
(* (:152), sequences joined by crossover share no ID (:320), and calls     *)
(* have as many arguments as their endpoint takes.                         *)
PanicFree ==
  /\ WellFormed(seq) /\ \A s \in corpus : WellFormed(s)
  /\ ToSet(worklist) \subseteq IdsOf(seq)
  /\ \A s \in corpus : RefsOf(s) \subseteq IdsOf(s)
  /\ pc = "filling" => IdsDiffer(seq)

(* Arguments fit the signature: an output is assignable to the guess it is *)
(* used for, a constant was sampled from it, and a guess that can be no    *)
(* constant has one only if no endpoint produces it (seq.rs:379).          *)
ArgsFit(s) ==
  \A i \in 1..Len(s) : \A k \in DOMAIN s[i].args :
    LET arg  == s[i].args[k]
        need == Sig[s[i].api][k]
    IN /\ arg[1] = "Output" =>
            \A j \in 1..Len(s) : s[j].id = arg[2] => s[j].api \in Makes[need]
       /\ arg[1] = "Constant" =>
            arg[2] \in Samples[need] /\ (need \in ConstAble \/ Makes[need] = {})

ArgumentsFit == ArgsFit(seq) /\ \A s \in corpus : ArgsFit(s)

(* While a sequence is completed it is valid but for what is on the        *)
(* worklist: the loop neither forgets a call nor breaks the order.         *)
WorklistCovers ==
  pc = "filling" =>
    /\ OutputsComeFirst(seq) /\ IdsDiffer(seq)
    /\ \A i \in 1..Len(seq) : Incomplete(seq[i]) => seq[i].id \in ToSet(worklist)

(* A sequence that is long enough only grows out of need: for an argument  *)
(* that can be no constant and that no earlier call supplies.              *)
GrowthIsForced ==
  [][pc = "filling" /\ Len(seq') > Len(seq) /\ Len(seq) >= limit
       => Need \notin ConstAble /\ Suppliers = {}]_vars

(* Completion ends, if no guess needs itself to be produced.               *)
CompletionEnds == pc = "filling" ~> pc = "made"

=============================================================================
