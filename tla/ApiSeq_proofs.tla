---------------------------- MODULE ApiSeq_proofs ---------------------------
(***************************************************************************)
(* Machine-checked proofs about ApiSeq, for every schema, every limit on   *)
(* the length of sequences, every set of IDs and every choice of the       *)
(* random number generator.                                                *)
(***************************************************************************)
EXTENDS ApiSeq, Inductions, SequenceTheorems, FiniteSetTheorems, TLAPS

USE ApisAssumption, SigAssumption, SamplesAssumption, BoundsAssumption

-----------------------------------------------------------------------------
(* Sequences and arguments.                                                *)

LEMMA ArgCases ==
  ASSUME NEW arg \in Args
  PROVE  \/ arg = Missing /\ arg[1] = "Missing"
         \/ arg[1] = "Constant" /\ arg = Constant(arg[2]) /\ arg[2] \in AllSamples
         \/ arg[1] = "Output" /\ arg = Output(arg[2]) /\ arg[2] \in Ids
BY DEF Args, Missing, Constant, Output

LEMMA ArgTags ==
  /\ Missing[1] = "Missing"
  /\ \A c : Constant(c)[1] = "Constant" /\ Constant(c)[2] = c
  /\ \A id : Output(id)[1] = "Output" /\ Output(id)[2] = id
BY DEF Missing, Constant, Output

LEMMA ArgTypes ==
  /\ Missing \in Args
  /\ \A t \in Types : \A c \in Samples[t] : Constant(c) \in Args
  /\ \A id \in Ids : Output(id) \in Args
BY DEF Args, AllSamples

LEMMA SigFacts ==
  ASSUME NEW api \in Apis
  PROVE  /\ Len(Sig[api]) \in Nat
         /\ \A k \in 1..Len(Sig[api]) : Sig[api][k] \in Types
<1>1. Sig[api] \in Seq(Types)
  OBVIOUS
<1> QED BY <1>1, LenProperties, ElementOfSeq

LEMMA NewCallFacts ==
  ASSUME NEW id \in Ids, NEW api \in Apis
  PROVE  /\ NewCall(id, api) \in Calls
         /\ NewCall(id, api).id = id /\ NewCall(id, api).api = api
         /\ Len(NewCall(id, api).args) = Len(Sig[api])
         /\ \A k \in 1..Len(Sig[api]) : NewCall(id, api).args[k] = Missing
<1>1. [k \in 1..Len(Sig[api]) |-> Missing] \in Seq(Args)
  BY SigFacts, ArgTypes
<1>2. Len([k \in 1..Len(Sig[api]) |-> Missing]) = Len(Sig[api])
  BY SigFacts
<1> QED BY <1>1, <1>2 DEF NewCall, Call, Calls

-----------------------------------------------------------------------------
(* A sequence is sound when it is well-formed, no two of its calls share   *)
(* an ID, and every argument that is not missing is a constant that fits   *)
(* or the output of an earlier call that fits: one statement per argument, *)
(* which is what every operation on sequences is shown to keep.            *)

Fits(s, i, need, arg) ==
  \/ arg = Missing
  \/ \E c \in Samples[need] : arg = Constant(c) /\ (need \in ConstAble \/ Makes[need] = {})
  \/ \E j \in 1..(i - 1) : arg = Output(s[j].id) /\ s[j].api \in Makes[need]

CallFits(s, i, call) ==
  \A k \in 1..Len(Sig[call.api]) : Fits(s, i, Sig[call.api][k], call.args[k])

Sound(s) == WellFormed(s) /\ IdsDiffer(s) /\ \A i \in 1..Len(s) : CallFits(s, i, s[i])

LEMMA CallFacts ==
  ASSUME NEW s, WellFormed(s)
  PROVE  /\ Len(s) \in Nat /\ DOMAIN s = 1..Len(s)
         /\ \A i \in 1..Len(s) :
              /\ s[i] \in Calls /\ s[i].id \in Ids /\ s[i].api \in Apis
              /\ s[i].args \in Seq(Args)
              /\ DOMAIN s[i].args = 1..Len(Sig[s[i].api])
              /\ Len(s[i].args) = Len(Sig[s[i].api])
              /\ \A k \in DOMAIN s[i].args : s[i].args[k] \in Args
              /\ \A k \in DOMAIN s[i].args : Sig[s[i].api][k] \in Types
<1>1. Len(s) \in Nat /\ DOMAIN s = 1..Len(s)
  BY LenProperties DEF WellFormed
<1>2. ASSUME NEW i \in 1..Len(s)
      PROVE  /\ s[i] \in Calls /\ s[i].id \in Ids /\ s[i].api \in Apis
             /\ s[i].args \in Seq(Args)
             /\ Len(s[i].args) = Len(Sig[s[i].api])
  <2>1. s \in Seq(Calls) /\ Len(s[i].args) = Len(Sig[s[i].api])
    BY DEF WellFormed
  <2>2. s[i] \in Calls
    BY <2>1, ElementOfSeq
  <2> QED BY <2>1, <2>2 DEF Calls
<1>3. ASSUME NEW i \in 1..Len(s)
      PROVE  /\ DOMAIN s[i].args = 1..Len(Sig[s[i].api])
             /\ \A k \in DOMAIN s[i].args : s[i].args[k] \in Args
             /\ \A k \in DOMAIN s[i].args : Sig[s[i].api][k] \in Types
  BY <1>2, LenProperties, ElementOfSeq, SigFacts
<1> QED BY <1>1, <1>2, <1>3

LEMMA PrefixIds ==
  ASSUME NEW s, WellFormed(s), NEW i \in 1..Len(s)
  PROVE  IdsOf(SubSeq(s, 1, i - 1)) = {s[j].id : j \in 1..(i - 1)}
<1>1. \A j \in 1..(i - 1) : s[j] \in Calls
  BY CallFacts
<1>2. /\ Len(SubSeq(s, 1, i - 1)) = i - 1
      /\ \A j \in 1..(i - 1) : SubSeq(s, 1, i - 1)[j] = s[j]
  BY <1>1, CallFacts, SubSeqProperties
<1> QED BY <1>2 DEF IdsOf

(* Soundness is what the properties of ApiSeq say of a sequence.           *)
LEMMA SoundMeans ==
  ASSUME NEW s
  PROVE  Sound(s) <=> WellFormed(s) /\ IdsDiffer(s) /\ OutputsComeFirst(s) /\ ArgsFit(s)
<1>1. ASSUME Sound(s)
      PROVE  OutputsComeFirst(s) /\ ArgsFit(s)
  <2> USE <1>1 DEF Sound, CallFits
  <2>1. OutputsComeFirst(s)
    <3> SUFFICES ASSUME NEW i \in 1..Len(s), NEW k \in Slots(s[i], "Output")
                 PROVE  \E j \in 1..(i - 1) : s[i].args[k][2] = s[j].id
      BY PrefixIds DEF OutputsComeFirst, Refs
    <3>1. k \in 1..Len(Sig[s[i].api]) /\ s[i].args[k][1] = "Output"
      BY CallFacts DEF Slots
    <3> QED BY <3>1, ArgTags DEF Fits
  <2>2. ArgsFit(s)
    <3> SUFFICES ASSUME NEW i \in 1..Len(s), NEW k \in DOMAIN s[i].args
                 PROVE  LET arg  == s[i].args[k]
                            need == Sig[s[i].api][k]
                        IN /\ arg[1] = "Output" =>
                                \A j \in 1..Len(s) : s[j].id = arg[2] => s[j].api \in Makes[need]
                           /\ arg[1] = "Constant" =>
                                arg[2] \in Samples[need] /\ (need \in ConstAble \/ Makes[need] = {})
      BY DEF ArgsFit
    <3> DOMAIN s[i].args = 1..Len(Sig[s[i].api]) /\ Len(s) \in Nat /\ i \in Nat
      BY CallFacts
    <3>1. Fits(s, i, Sig[s[i].api][k], s[i].args[k])
      OBVIOUS
    <3>2. CASE s[i].args[k] = Missing
      BY <3>2, ArgTags
    <3>3. CASE \E c \in Samples[Sig[s[i].api][k]] :
                 s[i].args[k] = Constant(c) /\ (Sig[s[i].api][k] \in ConstAble \/ Makes[Sig[s[i].api][k]] = {})
      BY <3>3, ArgTags
    <3>4. ASSUME NEW h \in 1..(i - 1), s[i].args[k] = Output(s[h].id), s[h].api \in Makes[Sig[s[i].api][k]]
          PROVE  \A j \in 1..Len(s) : s[j].id = s[i].args[k][2] => s[j].api \in Makes[Sig[s[i].api][k]]
      BY <3>4, <3>1, ArgTags DEF IdsDiffer
    <3>5. CASE \E h \in 1..(i - 1) :
                 s[i].args[k] = Output(s[h].id) /\ s[h].api \in Makes[Sig[s[i].api][k]]
      BY <3>5, <3>4, ArgTags
    <3> QED BY <3>1, <3>2, <3>3, <3>5 DEF Fits
  <2> QED BY <2>1, <2>2
<1>2. ASSUME WellFormed(s), IdsDiffer(s), OutputsComeFirst(s), ArgsFit(s)
      PROVE  Sound(s)
  <2> SUFFICES ASSUME NEW i \in 1..Len(s), NEW k \in 1..Len(Sig[s[i].api])
               PROVE  Fits(s, i, Sig[s[i].api][k], s[i].args[k])
    BY <1>2 DEF Sound, CallFits
  <2>1. k \in DOMAIN s[i].args /\ s[i].args[k] \in Args /\ i \in Nat /\ Len(s) \in Nat /\ i <= Len(s)
    BY <1>2, CallFacts
  <2>2. CASE s[i].args[k] = Missing
    BY <2>2 DEF Fits
  <2>3. CASE s[i].args[k][1] = "Constant" /\ s[i].args[k] = Constant(s[i].args[k][2])
    BY <1>2, <2>1, <2>3 DEF ArgsFit, Fits
  <2>4. CASE s[i].args[k][1] = "Output" /\ s[i].args[k] = Output(s[i].args[k][2])
    <3>1. s[i].args[k][2] \in Refs(s[i])
      BY <2>1, <2>4 DEF Refs, Slots
    <3> DEFINE before == {s[j].id : j \in 1..(i - 1)}
    <3>5. Refs(s[i]) \subseteq before
      BY <1>2, PrefixIds DEF OutputsComeFirst
    <3>2. PICK j \in 1..(i - 1) : s[j].id = s[i].args[k][2]
      BY <3>1, <3>5
    <3>3. j \in 1..Len(s)
      BY <2>1
    <3>4. s[j].api \in Makes[Sig[s[i].api][k]]
      BY <1>2, <2>1, <2>4, <3>2, <3>3 DEF ArgsFit
    <3> QED BY <2>4, <3>2, <3>4 DEF Fits
  <2> QED BY <2>1, <2>2, <2>3, <2>4, ArgCases
<1> QED BY <1>1, <1>2 DEF Sound

-----------------------------------------------------------------------------
(* Completion: what the worklist starts with.                              *)

LEMMA AppendSet ==
  ASSUME NEW S, NEW s \in Seq(S), NEW x \in S
  PROVE  Append(s, x) \in Seq(S) /\ ToSet(Append(s, x)) = ToSet(s) \cup {x}
<1>1. /\ Append(s, x) \in Seq(S) /\ Len(Append(s, x)) = Len(s) + 1
      /\ \A i \in 1..Len(s) : Append(s, x)[i] = s[i]
      /\ Append(s, x)[Len(s) + 1] = x
  BY AppendProperties
<1>2. DOMAIN s = 1..Len(s) /\ DOMAIN Append(s, x) = 1..(Len(s) + 1) /\ Len(s) \in Nat
  BY <1>1, LenProperties
<1>3. \A i \in DOMAIN Append(s, x) : i \in DOMAIN s \/ i = Len(s) + 1
  BY <1>2
<1>4. DOMAIN s \subseteq DOMAIN Append(s, x) /\ Len(s) + 1 \in DOMAIN Append(s, x)
  BY <1>2
<1> QED BY <1>1, <1>2, <1>3, <1>4 DEF ToSet

(* The worklist holds the incomplete calls and no other.                   *)
LEMMA TodoFacts ==
  ASSUME NEW s, WellFormed(s)
  PROVE  /\ Todo(s) \in Seq(Ids)
         /\ ToSet(Todo(s)) \subseteq IdsOf(s)
         /\ \A i \in 1..Len(s) : Incomplete(s[i]) => s[i].id \in ToSet(Todo(s))
<1> DEFINE n == Len(s)
           Body(g, i) == IF i = 0 THEN <<>>
                         ELSE IF Incomplete(s[i]) THEN Append(g[i - 1], s[i].id) ELSE g[i - 1]
           f == CHOOSE g : g = [i \in 0..n |-> Body(g, i)]
           Defined == {m \in Nat : \E g : g = [i \in 0..m |-> Body(g, i)]}
           IdsTo(m) == {s[i].id : i \in {j \in 1..m : Incomplete(s[j])}}
           Right == {m \in Nat : m <= n => f[m] \in Seq(Ids) /\ ToSet(f[m]) = IdsTo(m)}
<1>1. n \in Nat /\ \A i \in 1..n : s[i].id \in Ids
  BY CallFacts
<1>2. Todo(s) = f[n]
  BY DEF Todo
<1>3. f = [i \in 0..n |-> Body(f, i)]
  <2>1. 0 \in Defined
    <3>1. [i \in 0..0 |-> <<>>] = [i \in 0..0 |-> Body([j \in 0..0 |-> <<>>], i)]
      OBVIOUS
    <3> QED BY <3>1
  <2>2. ASSUME NEW m \in Nat, m \in Defined PROVE m + 1 \in Defined
    <3>1. PICK g : g = [i \in 0..m |-> Body(g, i)]
      BY <2>2
    <3> DEFINE h == [i \in 0..(m + 1) |-> IF i = m + 1 THEN Body(g, i) ELSE g[i]]
    <3>2. \A i \in 0..(m + 1) : h[i] = Body(h, i)
      <4>1. \A i \in 0..m : h[i] = g[i]
        OBVIOUS
      <4>2. \A i \in 1..(m + 1) : h[i - 1] = g[i - 1]
        BY <4>1
      <4>3. \A i \in 0..(m + 1) : Body(h, i) = Body(g, i)
        BY <4>2
      <4>4. \A i \in 0..m : g[i] = Body(g, i)
        BY <3>1
      <4> HIDE DEF Body
      <4>5. \A i \in 0..(m + 1) : h[i] = Body(g, i)
        BY <4>4
      <4> QED BY <4>3, <4>5
    <3> HIDE DEF h
    <3>3. h = [i \in 0..(m + 1) |-> h[i]]
      BY DEF h
    <3>4. h = [i \in 0..(m + 1) |-> Body(h, i)]
      BY <3>2, <3>3
    <3> QED BY <3>4
  <2> HIDE DEF Defined, Body
  <2>3. n \in Defined
    BY <2>1, <2>2, <1>1, Induction
  <2> QED BY <2>3 DEF Defined
<1>4. Nat \subseteq Right
  <2> HIDE DEF f
  <2>1. 0 \in Right
    <3>1. f[0] = <<>>
      BY <1>1, <1>3
    <3>2. <<>> \in Seq(Ids) /\ ToSet(<<>>) = {} /\ IdsTo(0) = {}
      BY EmptySeq DEF ToSet
    <3> HIDE DEF IdsTo
    <3> QED BY <3>1, <3>2
  <2>2. ASSUME NEW m \in Nat, m \in Right PROVE m + 1 \in Right
    <3> SUFFICES ASSUME m + 1 <= n
                 PROVE  f[m + 1] \in Seq(Ids) /\ ToSet(f[m + 1]) = IdsTo(m + 1)
      OBVIOUS
    <3>1. f[m] \in Seq(Ids) /\ ToSet(f[m]) = IdsTo(m) /\ m + 1 \in 1..n
      BY <1>1, <2>2
    <3>2. f[m + 1] = IF Incomplete(s[m + 1]) THEN Append(f[m], s[m + 1].id) ELSE f[m]
      <4>1. f[m + 1] = Body(f, m + 1)
        <5> HIDE DEF Body
        <5>1. \A i \in 0..n : f[i] = Body(f, i)
          BY <1>3, Zenon
        <5>2. m + 1 \in 0..n
          BY <1>1, <3>1
        <5> QED BY <5>1, <5>2, Zenon
      <4>2. m + 1 # 0 /\ (m + 1) - 1 = m
        OBVIOUS
      <4> QED BY <4>1, <4>2
    <3>3. CASE Incomplete(s[m + 1])
      <4>1. IdsTo(m + 1) = IdsTo(m) \cup {s[m + 1].id}
        <5>1. 1..(m + 1) = (1..m) \cup {m + 1}
          OBVIOUS
        <5> QED BY <3>3, <5>1
      <4> QED BY <3>1, <3>2, <3>3, <4>1, <1>1, AppendSet
    <3>4. CASE ~Incomplete(s[m + 1])
      <4>1. 1..(m + 1) = (1..m) \cup {m + 1}
        OBVIOUS
      <4>2. {j \in 1..(m + 1) : Incomplete(s[j])} = {j \in 1..m : Incomplete(s[j])}
        BY <3>4, <4>1
      <4> QED BY <3>1, <3>2, <3>4, <4>2
    <3> QED BY <3>3, <3>4
  <2> HIDE DEF Right
  <2> QED BY <2>1, <2>2, Induction
<1>5. Todo(s) \in Seq(Ids) /\ ToSet(Todo(s)) = IdsTo(n)
  <2>1. n \in Right
    BY <1>1, <1>4
  <2> HIDE DEF f, IdsTo
  <2> QED BY <1>2, <2>1
<1> QED BY <1>5 DEF IdsOf

-----------------------------------------------------------------------------
(* Operations on sound sequences.                                          *)

(* A call's arguments fit elsewhere if the earlier calls are there too.    *)
LEMMA CallMoved ==
  ASSUME NEW s, NEW i, NEW call, CallFits(s, i, call), NEW t, NEW p,
         \A j \in 1..(i - 1) :
           \E l \in 1..(p - 1) : t[l].id = s[j].id /\ t[l].api = s[j].api
  PROVE  CallFits(t, p, call)
BY DEF CallFits, Fits

(* Those that are not there are to be forgotten.                           *)
LEMMA ForgetFacts ==
  ASSUME NEW call \in Calls, Len(call.args) = Len(Sig[call.api]), NEW gone
  PROVE  /\ Forget(call, gone) \in Calls
         /\ Forget(call, gone).id = call.id /\ Forget(call, gone).api = call.api
         /\ Len(Forget(call, gone).args) = Len(call.args)
         /\ \A k \in 1..Len(call.args) :
              Forget(call, gone).args[k] =
                IF call.args[k][1] = "Output" /\ call.args[k][2] \in gone
                THEN Missing ELSE call.args[k]
<1> DEFINE args == [k \in DOMAIN call.args |->
                     IF k \in Slots(call, "Output") /\ call.args[k][2] \in gone
                     THEN Missing ELSE call.args[k]]
<1>1. /\ call.args \in Seq(Args) /\ Len(call.args) \in Nat
      /\ DOMAIN call.args = 1..Len(call.args)
      /\ \A k \in 1..Len(call.args) : call.args[k] \in Args
  <2>1. call.args \in Seq(Args)
    BY DEF Calls
  <2> QED BY <2>1, LenProperties, ElementOfSeq
<1>2. /\ \A k \in 1..Len(call.args) :
           args[k] = IF call.args[k][1] = "Output" /\ call.args[k][2] \in gone
                     THEN Missing ELSE call.args[k]
      /\ \A k \in 1..Len(call.args) : args[k] \in Args
  BY <1>1, ArgTypes DEF Slots
<1>3. args \in Seq(Args) /\ Len(args) = Len(call.args)
  <2>1. args \in [1..Len(call.args) -> Args]
    BY <1>1, <1>2
  <2> QED BY <1>1, <2>1, FunctionIsSeq
<1>4. Forget(call, gone) = [call EXCEPT !.args = args]
  BY DEF Forget, Calls
<1> HIDE DEF args
<1>5. /\ Forget(call, gone) \in Calls /\ Forget(call, gone).args = args
      /\ Forget(call, gone).id = call.id /\ Forget(call, gone).api = call.api
  BY <1>3, <1>4 DEF Calls
<1> QED BY <1>2, <1>3, <1>5

LEMMA ForgetMoved ==
  ASSUME NEW s, NEW i, NEW call \in Calls, Len(call.args) = Len(Sig[call.api]),
         CallFits(s, i, call), NEW t, NEW p, NEW gone,
         \A j \in 1..(i - 1) :
           \/ s[j].id \in gone
           \/ \E l \in 1..(p - 1) : t[l].id = s[j].id /\ t[l].api = s[j].api
  PROVE  CallFits(t, p, Forget(call, gone))
<1> SUFFICES ASSUME NEW k \in 1..Len(Sig[call.api])
             PROVE  Fits(t, p, Sig[call.api][k], Forget(call, gone).args[k])
  BY ForgetFacts DEF CallFits
<1> DEFINE need == Sig[call.api][k]
           old  == call.args[k]
           new  == Forget(call, gone).args[k]
<1>1. Fits(s, i, need, old)
  BY DEF CallFits
<1>2. new = IF old[1] = "Output" /\ old[2] \in gone THEN Missing ELSE old
  BY ForgetFacts
<1> HIDE DEF need, old, new
<1>3. Fits(t, p, need, new)
  BY <1>1, <1>2, ArgTags DEF Fits
<1> QED BY <1>3 DEF need, new

Filled(s, i, k, arg) == [s EXCEPT ![i].args[k] = arg]

LEMMA FillFacts ==
  ASSUME NEW s, WellFormed(s), NEW i \in 1..Len(s), NEW k \in DOMAIN s[i].args, NEW arg \in Args,
         NEW t, t = Filled(s, i, k, arg)
  PROVE  /\ WellFormed(t) /\ Len(t) = Len(s)
         /\ \A j \in 1..Len(s) :
              /\ t[j].id = s[j].id /\ t[j].api = s[j].api
              /\ DOMAIN t[j].args = DOMAIN s[j].args
              /\ \A l \in DOMAIN s[j].args :
                   t[j].args[l] = IF j = i /\ l = k THEN arg ELSE s[j].args[l]
<1> DEFINE args == [s[i].args EXCEPT ![k] = arg]
           call == [s[i] EXCEPT !.args = args]
<1>1. /\ s \in Seq(Calls) /\ s[i] \in Calls /\ s[i].args \in Seq(Args)
      /\ DOMAIN s = 1..Len(s) /\ Len(s) \in Nat
      /\ DOMAIN s[i].args = 1..Len(s[i].args) /\ Len(s[i].args) = Len(Sig[s[i].api])
  <2>1. s \in Seq(Calls)
    BY DEF WellFormed
  <2> QED BY <2>1, CallFacts
<1>2. t = [s EXCEPT ![i] = call]
  BY <1>1 DEF Filled
<1>3. /\ args \in Seq(Args) /\ Len(args) = Len(s[i].args)
      /\ DOMAIN args = DOMAIN s[i].args
      /\ \A l \in DOMAIN s[i].args : args[l] = IF l = k THEN arg ELSE s[i].args[l]
  BY <1>1, ExceptSeq
<1> HIDE DEF args
<1>4. call \in Calls /\ call.id = s[i].id /\ call.api = s[i].api /\ call.args = args
  BY <1>1, <1>3 DEF Calls
<1> HIDE DEF call
<1>5. /\ t \in Seq(Calls) /\ Len(t) = Len(s)
      /\ \A j \in 1..Len(s) : t[j] = IF j = i THEN call ELSE s[j]
  <2>1. s \in Seq(Calls) /\ i \in 1..Len(s) /\ call \in Calls
    BY <1>1, <1>4
  <2>2. /\ [s EXCEPT ![i] = call] \in Seq(Calls)
        /\ Len([s EXCEPT ![i] = call]) = Len(s)
        /\ \A j \in 1..Len(s) : [s EXCEPT ![i] = call][j] = IF j = i THEN call ELSE s[j]
    BY <2>1, ExceptSeq
  <2> QED BY <2>2, <1>2
<1>6. ASSUME NEW j \in 1..Len(s)
      PROVE  /\ t[j].id = s[j].id /\ t[j].api = s[j].api
             /\ DOMAIN t[j].args = DOMAIN s[j].args
             /\ Len(t[j].args) = Len(s[j].args)
             /\ \A l \in DOMAIN s[j].args :
                  t[j].args[l] = IF j = i /\ l = k THEN arg ELSE s[j].args[l]
  <2>1. CASE j = i
    BY <2>1, <1>3, <1>4, <1>5
  <2>2. CASE j # i
    BY <2>2, <1>5
  <2> QED BY <2>1, <2>2
<1>7. WellFormed(t)
  BY <1>5, <1>6 DEF WellFormed
<1> QED BY <1>5, <1>6, <1>7

(* Calls that keep their places keep what fitted.                          *)
LEMMA CallStays ==
  ASSUME NEW s, NEW i, NEW call, CallFits(s, i, call), NEW t,
         \A j \in 1..(i - 1) : t[j].id = s[j].id /\ t[j].api = s[j].api
  PROVE  CallFits(t, i, call)
<1> SUFFICES ASSUME NEW k \in 1..Len(Sig[call.api])
             PROVE  Fits(t, i, Sig[call.api][k], call.args[k])
  BY DEF CallFits
<1> DEFINE need == Sig[call.api][k]
           arg  == call.args[k]
<1>1. Fits(s, i, need, arg)
  BY DEF CallFits
<1> HIDE DEF need, arg
<1>2. CASE \E j \in 1..(i - 1) : arg = Output(s[j].id) /\ s[j].api \in Makes[need]
  <2>1. PICK j \in 1..(i - 1) : arg = Output(s[j].id) /\ s[j].api \in Makes[need]
    BY <1>2
  <2>2. arg = Output(t[j].id) /\ t[j].api \in Makes[need]
    BY <2>1
  <2>3. Fits(t, i, need, arg)
    BY <2>2 DEF Fits
  <2> QED BY <2>3 DEF need, arg
<1>3. CASE ~\E j \in 1..(i - 1) : arg = Output(s[j].id) /\ s[j].api \in Makes[need]
  <2>1. Fits(t, i, need, arg)
    BY <1>1, <1>3 DEF Fits
  <2> QED BY <2>1 DEF need, arg
<1> QED BY <1>2, <1>3

(* A sequence of which one argument was replaced by one that fits.         *)
Refills(s, i, k, arg, t) ==
  /\ WellFormed(t) /\ Len(t) = Len(s) /\ Len(s) \in Nat
  /\ \A j \in 1..Len(s) :
       /\ t[j].id = s[j].id /\ t[j].api = s[j].api
       /\ DOMAIN s[j].args = 1..Len(Sig[s[j].api])
       /\ \A l \in DOMAIN s[j].args :
            t[j].args[l] = IF j = i /\ l = k THEN arg ELSE s[j].args[l]

LEMMA Refilled ==
  ASSUME NEW s, Sound(s), NEW i, NEW k, NEW arg, Fits(s, i, Sig[s[i].api][k], arg),
         NEW t, Refills(s, i, k, arg, t)
  PROVE  Sound(t)
<1>0. /\ WellFormed(t) /\ Len(t) = Len(s) /\ Len(s) \in Nat
      /\ \A j \in 1..Len(s) :
           /\ t[j].id = s[j].id /\ t[j].api = s[j].api
           /\ DOMAIN s[j].args = 1..Len(Sig[s[j].api])
           /\ \A l \in DOMAIN s[j].args :
                t[j].args[l] = IF j = i /\ l = k THEN arg ELSE s[j].args[l]
  BY DEF Refills
<1>1. IdsDiffer(t)
  BY <1>0 DEF Sound, IdsDiffer
<1>2. ASSUME NEW j \in 1..Len(t)
      PROVE  CallFits(t, j, t[j])
  <2>1. ASSUME NEW l \in 1..Len(Sig[t[j].api])
        PROVE  Fits(s, j, Sig[t[j].api][l], t[j].args[l])
    <3>1. /\ j \in 1..Len(s) /\ t[j].api = s[j].api /\ l \in DOMAIN s[j].args
          /\ l \in 1..Len(Sig[s[j].api])
      BY <1>0
    <3>2. Fits(s, j, Sig[s[j].api][l], s[j].args[l])
      BY <3>1 DEF Sound, CallFits
    <3>3. t[j].args[l] = IF j = i /\ l = k THEN arg ELSE s[j].args[l]
      BY <1>0, <3>1
    <3> QED BY <3>1, <3>2, <3>3
  <2>2. \A h \in 1..(j - 1) : t[h].id = s[h].id /\ t[h].api = s[h].api
    <3>1. \A h \in 1..(j - 1) : h \in 1..Len(s)
      BY <1>0
    <3> QED BY <1>0, <3>1
  <2>3. CallFits(s, j, t[j])
    BY <2>1 DEF CallFits
  <2> QED BY <2>2, <2>3, CallStays
<1> QED BY <1>0, <1>1, <1>2 DEF Sound

(* Filling in an argument that fits.                                       *)
LEMMA FillKeeps ==
  ASSUME NEW s, Sound(s), NEW i \in 1..Len(s), NEW k \in DOMAIN s[i].args, NEW arg \in Args,
         Fits(s, i, Sig[s[i].api][k], arg),
         NEW t, t = Filled(s, i, k, arg)
  PROVE  Sound(t)
<1>1. WellFormed(s)
  BY DEF Sound
<1>2. Len(s) \in Nat /\ \A j \in 1..Len(s) : DOMAIN s[j].args = 1..Len(Sig[s[j].api])
  BY <1>1, CallFacts
<1>3. /\ WellFormed(t) /\ Len(t) = Len(s)
      /\ \A j \in 1..Len(s) :
           /\ t[j].id = s[j].id /\ t[j].api = s[j].api
           /\ \A l \in DOMAIN s[j].args :
                t[j].args[l] = IF j = i /\ l = k THEN arg ELSE s[j].args[l]
  BY <1>1, FillFacts
<1>4. Refills(s, i, k, arg, t)
  BY <1>2, <1>3 DEF Refills
<1> QED BY <1>4, Refilled

LEMMA InsertFacts ==
  ASSUME NEW S, NEW s \in Seq(S), NEW i \in 1..Len(s), NEW e \in S
  PROVE  /\ InsertAt(s, i, e) \in Seq(S)
         /\ Len(InsertAt(s, i, e)) = Len(s) + 1
         /\ \A j \in 1..(Len(s) + 1) :
              InsertAt(s, i, e)[j] = IF j < i THEN s[j] ELSE IF j = i THEN e ELSE s[j - 1]
<1> DEFINE before == SubSeq(s, 1, i - 1)
           after  == SubSeq(s, i, Len(s))
<1>1. Len(s) \in Nat /\ i \in Nat /\ \A j \in 1..Len(s) : s[j] \in S
  BY LenProperties, ElementOfSeq
<1>2. /\ before \in Seq(S) /\ Len(before) = i - 1
      /\ \A j \in 1..(i - 1) : before[j] = s[j]
  <2>1. 1 \in Int /\ i - 1 \in Int /\ \A j \in 1..(i - 1) : s[j] \in S
    BY <1>1
  <2>2. /\ before \in Seq(S) /\ Len(before) = IF 1 <= i - 1 THEN (i - 1) - 1 + 1 ELSE 0
        /\ \A j \in 1..((i - 1) - 1 + 1) : before[j] = s[1 + j - 1]
    BY <2>1, SubSeqProperties
  <2> QED BY <1>1, <2>2
<1>3. /\ after \in Seq(S) /\ Len(after) = Len(s) - i + 1
      /\ \A j \in 1..(Len(s) - i + 1) : after[j] = s[i + j - 1]
  <2>1. i \in Int /\ Len(s) \in Int /\ \A j \in i..Len(s) : s[j] \in S
    BY <1>1
  <2> QED BY <1>1, <2>1, SubSeqProperties
<1> HIDE DEF before, after
<1>4. <<e>> \in Seq(S) /\ Len(<<e>>) = 1 /\ <<e>>[1] = e
  OBVIOUS
<1>5. /\ before \o <<e>> \in Seq(S) /\ Len(before \o <<e>>) = i
      /\ \A j \in 1..i : (before \o <<e>>)[j] = IF j < i THEN s[j] ELSE e
  BY <1>1, <1>2, <1>4, ConcatProperties
<1> DEFINE t == (before \o <<e>>) \o after
<1>6. /\ t \in Seq(S) /\ Len(t) = Len(s) + 1
      /\ \A j \in 1..(Len(s) + 1) :
           t[j] = IF j <= i THEN (before \o <<e>>)[j] ELSE after[j - i]
  BY <1>1, <1>3, <1>5, ConcatProperties
<1>7. InsertAt(s, i, e) = t
  BY DEF InsertAt, before, after
<1> HIDE DEF t
<1>8. \A j \in 1..(Len(s) + 1) : t[j] = IF j < i THEN s[j] ELSE IF j = i THEN e ELSE s[j - 1]
  <2> SUFFICES ASSUME NEW j \in 1..(Len(s) + 1)
               PROVE  t[j] = IF j < i THEN s[j] ELSE IF j = i THEN e ELSE s[j - 1]
    OBVIOUS
  <2>1. CASE j <= i
    <3>1. j \in 1..i
      BY <1>1, <2>1
    <3> QED BY <1>1, <2>1, <3>1, <1>5, <1>6
  <2>2. CASE ~(j <= i)
    <3>1. j - i \in 1..(Len(s) - i + 1) /\ i + (j - i) - 1 = j - 1 /\ ~(j < i) /\ j # i
      BY <1>1, <2>2
    <3> QED BY <2>2, <3>1, <1>3, <1>6
  <2> QED BY <2>1, <2>2
<1> QED BY <1>6, <1>7, <1>8

(* A call is incomplete after an argument is filled in only if it was.     *)
LEMMA FillCompletes ==
  ASSUME NEW s, WellFormed(s), NEW i \in 1..Len(s), NEW k \in DOMAIN s[i].args,
         NEW arg \in Args, arg # Missing,
         NEW t, t = Filled(s, i, k, arg), NEW j \in 1..Len(s), Incomplete(t[j])
  PROVE  Incomplete(s[j])
<1>1. /\ DOMAIN t[j].args = DOMAIN s[j].args
      /\ \A l \in DOMAIN s[j].args :
           t[j].args[l] = IF j = i /\ l = k THEN arg ELSE s[j].args[l]
  BY FillFacts
<1>2. arg[1] # "Missing"
  BY ArgCases
<1> QED BY <1>1, <1>2 DEF Incomplete, Slots

(* Inserting a call that produces the argument that is filled in.          *)
LEMMA InsertKeeps ==
  ASSUME NEW s, Sound(s), NEW h \in 1..Len(s), NEW k \in DOMAIN s[h].args,
         NEW id \in Ids, id \notin IdsOf(s), NEW api \in Makes[Sig[s[h].api][k]],
         NEW t, t = InsertAt(Filled(s, h, k, Output(id)), h, NewCall(id, api))
  PROVE  /\ Sound(t) /\ Len(t) = Len(s) + 1
         /\ IdsOf(s) \subseteq IdsOf(t) /\ id \in IdsOf(t)
         /\ \A j \in 1..Len(t) : Incomplete(t[j]) =>
              \/ t[j].id = id
              \/ \E i \in 1..Len(s) : Incomplete(s[i]) /\ t[j].id = s[i].id
<1> DEFINE new == NewCall(id, api)
           u   == Filled(s, h, k, Output(id))
           At(j) == IF j < h THEN j ELSE j + 1
<1>1. /\ WellFormed(s) /\ Len(s) \in Nat /\ h \in Nat
      /\ \A i \in 1..Len(s) : s[i].id \in Ids /\ s[i].api \in Apis
      /\ \A i \in 1..Len(s) : DOMAIN s[i].args = 1..Len(Sig[s[i].api])
      /\ Sig[s[h].api][k] \in Types
  <2>1. WellFormed(s)
    BY DEF Sound
  <2> QED BY <2>1, CallFacts
<1>2. api \in Apis
  BY <1>1
<1>3. /\ new \in Calls /\ new.id = id /\ new.api = api /\ Len(new.args) = Len(Sig[api])
      /\ \A l \in 1..Len(Sig[api]) : new.args[l] = Missing
  BY <1>2, NewCallFacts
<1>4. Output(id) \in Args /\ Output(id) # Missing
  BY ArgTypes DEF Missing, Output
<1>5. /\ WellFormed(u) /\ u \in Seq(Calls) /\ Len(u) = Len(s)
      /\ \A j \in 1..Len(s) :
           /\ u[j].id = s[j].id /\ u[j].api = s[j].api
           /\ \A l \in DOMAIN s[j].args :
                u[j].args[l] = IF j = h /\ l = k THEN Output(id) ELSE s[j].args[l]
  <2>1. /\ WellFormed(u) /\ Len(u) = Len(s)
        /\ \A j \in 1..Len(s) :
             /\ u[j].id = s[j].id /\ u[j].api = s[j].api
             /\ \A l \in DOMAIN s[j].args :
                  u[j].args[l] = IF j = h /\ l = k THEN Output(id) ELSE s[j].args[l]
    BY <1>1, <1>4, FillFacts
  <2> QED BY <2>1 DEF WellFormed
<1>6. ASSUME NEW j \in 1..Len(s), Incomplete(u[j]) PROVE Incomplete(s[j])
  <2>1. WellFormed(s) /\ k \in DOMAIN s[h].args /\ Output(id) \in Args /\ Output(id) # Missing
    BY <1>1, <1>4
  <2>2. Incomplete(Filled(s, h, k, Output(id))[j])
    BY <1>6
  <2> HIDE DEF u
  <2> QED BY <2>1, <2>2, FillCompletes
<1>7. \A i \in 1..Len(s) : Len(u[i].args) = Len(Sig[u[i].api])
  BY <1>5 DEF WellFormed
<1> HIDE DEF new, u
<1>8. /\ t \in Seq(Calls) /\ Len(t) = Len(s) + 1
      /\ \A j \in 1..(Len(s) + 1) : t[j] = IF j < h THEN u[j] ELSE IF j = h THEN new ELSE u[j - 1]
  <2>1. t = InsertAt(u, h, new) /\ h \in 1..Len(u)
    BY <1>5 DEF u, new
  <2>2. u \in Seq(Calls) /\ new \in Calls
    BY <1>3, <1>5
  <2>3. /\ InsertAt(u, h, new) \in Seq(Calls) /\ Len(InsertAt(u, h, new)) = Len(u) + 1
        /\ \A j \in 1..(Len(u) + 1) :
             InsertAt(u, h, new)[j] = IF j < h THEN u[j] ELSE IF j = h THEN new ELSE u[j - 1]
    BY <2>1, <2>2, InsertFacts
  <2>4. Len(u) = Len(s)
    BY <1>5
  <2> QED BY <2>1, <2>3, <2>4
<1>9. /\ \A j \in 1..Len(s) : At(j) \in 1..Len(t) /\ t[At(j)] = u[j]
      /\ t[h] = new /\ h \in 1..Len(t)
      /\ \A j \in 1..Len(t) : j = h \/ \E i \in 1..Len(s) : j = At(i)
  <2>1. \A j \in 1..Len(s) : At(j) \in 1..Len(t) /\ t[At(j)] = u[j]
    BY <1>1, <1>8
  <2>2. t[h] = new /\ h \in 1..Len(t)
    BY <1>1, <1>8
  <2>3. ASSUME NEW j \in 1..Len(t), j # h
        PROVE  \E i \in 1..Len(s) : j = At(i)
    <3>1. CASE j < h
      <4>1. j \in 1..Len(s) /\ At(j) = j
        BY <1>1, <1>8, <3>1
      <4> HIDE DEF At
      <4> QED BY <4>1
    <3>2. CASE ~(j < h)
      <4>1. j - 1 \in 1..Len(s) /\ At(j - 1) = j
        BY <1>1, <1>8, <2>3, <3>2
      <4> HIDE DEF At
      <4> QED BY <4>1
    <3> QED BY <3>1, <3>2
  <2> HIDE DEF At
  <2> QED BY <2>1, <2>2, <2>3
<1>10. \A i, j \in 1..Len(s) : i < j => At(i) < At(j)
  BY <1>1
<1>11. /\ \A j \in 1..Len(s) : j <= h - 1 => At(j) = j
       /\ At(h) = h + 1 /\ \A j \in 1..Len(s) : At(j) \in Nat
  BY <1>1
<1> HIDE DEF At
<1>12. WellFormed(t)
  <2>1. ASSUME NEW j \in 1..Len(t)
        PROVE  Len(t[j].args) = Len(Sig[t[j].api])
    <3>1. CASE j = h
      BY <1>3, <1>9, <3>1
    <3>2. ASSUME NEW i \in 1..Len(s), j = At(i)
          PROVE  Len(t[j].args) = Len(Sig[t[j].api])
      <4>1. t[j] = u[i]
        BY <1>9, <3>2
      <4> QED BY <1>7, <4>1
    <3> QED BY <1>9, <3>1, <3>2
  <2> QED BY <1>8, <2>1 DEF WellFormed
<1>13. IdsDiffer(t)
  <2>1. \A j \in 1..Len(s) : u[j].id # id
    BY <1>5 DEF IdsOf
  <2>2. \A i, j \in 1..Len(s) : u[i].id = u[j].id => i = j
    BY <1>5 DEF Sound, IdsDiffer
  <2> SUFFICES ASSUME NEW i \in 1..Len(t), NEW j \in 1..Len(t), t[i].id = t[j].id
               PROVE  i = j
    BY DEF IdsDiffer
  <2>3. CASE i = h
    <3>1. t[j].id = id
      BY <1>3, <1>9, <2>3
    <3>2. ASSUME NEW a \in 1..Len(s), j = At(a) PROVE FALSE
      <4>1. t[j] = u[a]
        BY <1>9, <3>2
      <4> QED BY <2>1, <3>1, <4>1
    <3> QED BY <1>9, <2>3, <3>2
  <2>4. CASE j = h
    <3>1. t[i].id = id
      BY <1>3, <1>9, <2>4
    <3>2. ASSUME NEW a \in 1..Len(s), i = At(a) PROVE FALSE
      <4>1. t[i] = u[a]
        BY <1>9, <3>2
      <4> QED BY <2>1, <3>1, <4>1
    <3> QED BY <1>9, <2>4, <3>2
  <2>5. ASSUME NEW a \in 1..Len(s), NEW b \in 1..Len(s), i = At(a), j = At(b)
        PROVE  i = j
    <3>1. u[a].id = u[b].id
      BY <1>9, <2>5
    <3> QED BY <2>2, <2>5, <3>1
  <2> QED BY <1>9, <2>3, <2>4, <2>5
<1>14. ASSUME NEW i \in 1..Len(s), NEW j \in 1..(i - 1)
       PROVE  \E l \in 1..(At(i) - 1) : t[l].id = s[j].id /\ t[l].api = s[j].api
  <2>1. j \in 1..Len(s) /\ j < i
    BY <1>1
  <2>2. At(j) \in 1..(At(i) - 1)
    BY <2>1, <1>9, <1>10, <1>11
  <2>3. t[At(j)].id = s[j].id /\ t[At(j)].api = s[j].api
    BY <2>1, <1>5, <1>9
  <2> QED BY <2>2, <2>3
<1>15. ASSUME NEW i \in 1..Len(s)
       PROVE  CallFits(t, At(i), u[i])
  <2>1. ASSUME NEW l \in 1..Len(Sig[u[i].api])
        PROVE  Fits(t, At(i), Sig[u[i].api][l], u[i].args[l])
    <3> DEFINE need == Sig[s[i].api][l]
               old  == s[i].args[l]
    <3>1. u[i].api = s[i].api /\ l \in DOMAIN s[i].args
      BY <1>1, <1>5
    <3>2. Fits(s, i, need, old)
      BY <1>1, <3>1 DEF Sound, CallFits
    <3>3. u[i].args[l] = IF i = h /\ l = k THEN Output(id) ELSE old
      BY <1>5, <3>1
    <3>4. CASE i = h /\ l = k
      <4>1. h \in 1..(At(i) - 1) /\ t[h].id = id /\ t[h].api \in Makes[Sig[u[i].api][l]]
        BY <1>1, <1>3, <1>9, <1>11, <3>1, <3>4
      <4> QED BY <3>3, <3>4, <4>1 DEF Fits
    <3>5. CASE ~(i = h /\ l = k)
      <4> HIDE DEF need, old
      <4>1. Fits(t, At(i), need, old)
        BY <1>14, <3>2 DEF Fits
      <4> QED BY <3>1, <3>3, <3>5, <4>1 DEF need
    <3> QED BY <3>4, <3>5
  <2> QED BY <2>1 DEF CallFits
<1>16. CallFits(t, h, new)
  BY <1>3 DEF CallFits, Fits
<1>17. Sound(t)
  <2>1. \A j \in 1..Len(t) : CallFits(t, j, t[j])
    BY <1>9, <1>15, <1>16
  <2> QED BY <1>12, <1>13, <2>1 DEF Sound
<1>18. IdsOf(s) \subseteq IdsOf(t) /\ id \in IdsOf(t)
  <2>1. \A j \in 1..Len(s) : At(j) \in 1..Len(t) /\ t[At(j)].id = s[j].id
    BY <1>5, <1>9
  <2>2. h \in 1..Len(t) /\ t[h].id = id
    BY <1>3, <1>9
  <2> QED BY <2>1, <2>2 DEF IdsOf
<1>19. ASSUME NEW j \in 1..Len(t), Incomplete(t[j]), t[j].id # id
       PROVE  \E i \in 1..Len(s) : Incomplete(s[i]) /\ t[j].id = s[i].id
  <2>1. PICK i \in 1..Len(s) : t[j] = u[i]
    BY <1>3, <1>9, <1>19
  <2> QED BY <1>5, <1>6, <1>19, <2>1
<1> QED BY <1>8, <1>17, <1>18, <1>19

LEMMA PrefixKeeps ==
  ASSUME NEW s, Sound(s), NEW n \in 0..Len(s)
  PROVE  /\ Sound(SubSeq(s, 1, n)) /\ Len(SubSeq(s, 1, n)) = n
         /\ \A j \in 1..n : SubSeq(s, 1, n)[j] = s[j]
         /\ IdsOf(SubSeq(s, 1, n)) \subseteq IdsOf(s)
<1> DEFINE t == SubSeq(s, 1, n)
<1>1. /\ Len(s) \in Nat /\ \A i \in 1..Len(s) : s[i] \in Calls
      /\ \A i \in 1..Len(s) : Len(s[i].args) = Len(Sig[s[i].api])
  BY CallFacts DEF Sound
<1>2. t \in Seq(Calls) /\ Len(t) = n /\ \A j \in 1..n : t[j] = s[j]
  <2>1. \A i \in 1..n : s[i] \in Calls
    BY <1>1
  <2>2. /\ t \in Seq(Calls) /\ Len(t) = IF 1 <= n THEN n - 1 + 1 ELSE 0
        /\ \A j \in 1..(n - 1 + 1) : t[j] = s[1 + j - 1]
    BY <1>1, <2>1, SubSeqProperties
  <2> QED BY <1>1, <2>2
<1> HIDE DEF t
<1>3. \A j \in 1..n : j \in 1..Len(s)
  BY <1>1
<1>4. WellFormed(t) /\ IdsDiffer(t)
  BY <1>1, <1>2, <1>3 DEF WellFormed, Sound, IdsDiffer
<1>5. ASSUME NEW j \in 1..n PROVE CallFits(t, j, t[j])
  <2>1. CallFits(s, j, t[j])
    BY <1>2, <1>3 DEF Sound
  <2>2. \A h \in 1..(j - 1) : t[h] = s[h]
    <3>1. \A h \in 1..(j - 1) : h \in 1..n
      OBVIOUS
    <3> QED BY <1>2, <3>1
  <2>3. \A h \in 1..(j - 1) : \E l \in 1..(j - 1) : t[l].id = s[h].id /\ t[l].api = s[h].api
    BY <2>2
  <2> QED BY <2>1, <2>3, CallMoved
<1>6. Sound(t)
  BY <1>2, <1>4, <1>5 DEF Sound
<1>7. IdsOf(t) \subseteq IdsOf(s)
  BY <1>2, <1>3 DEF IdsOf
<1> QED BY <1>2, <1>6, <1>7 DEF t

LEMMA WithoutKeeps ==
  ASSUME NEW s, Sound(s), NEW i \in 1..Len(s)
  PROVE  Sound(Without(s, i))
<1> DEFINE t == Without(s, i)
           gone == {s[i].id}
<1>1. /\ Len(s) \in Nat /\ i \in Nat /\ \A j \in 1..Len(s) : s[j] \in Calls
      /\ \A j \in 1..Len(s) : Len(s[j].args) = Len(Sig[s[j].api])
  BY CallFacts DEF Sound
<1>2. \A j \in 1..Len(s) :
        /\ Forget(s[j], gone) \in Calls
        /\ Forget(s[j], gone).id = s[j].id /\ Forget(s[j], gone).api = s[j].api
        /\ Len(Forget(s[j], gone).args) = Len(s[j].args)
  BY <1>1, ForgetFacts
<1>3. t = [j \in 1..(Len(s) - 1) |-> IF j < i THEN s[j] ELSE Forget(s[j + 1], gone)]
  BY DEF Without
<1> HIDE DEF t, gone
<1>4. \A j \in 1..(Len(s) - 1) : j \in 1..Len(s) /\ j + 1 \in 1..Len(s)
  BY <1>1
<1>5. /\ t \in Seq(Calls) /\ Len(t) = Len(s) - 1
      /\ \A j \in 1..Len(t) : t[j] = IF j < i THEN s[j] ELSE Forget(s[j + 1], gone)
  <2>3. \A j \in 1..(Len(s) - 1) : s[j] \in Calls /\ Forget(s[j + 1], gone) \in Calls
    BY <1>1, <1>2, <1>4
  <2>1. t \in [1..(Len(s) - 1) -> Calls] /\ Len(s) - 1 \in Nat
    BY <1>1, <1>3, <2>3
  <2>2. t \in Seq(Calls) /\ Len(t) = Len(s) - 1
    BY <2>1, FunctionIsSeq
  <2> QED BY <1>3, <2>2
<1> DEFINE From(j) == IF j < i THEN j ELSE j + 1
<1>6. \A j \in 1..Len(t) :
        /\ From(j) \in 1..Len(s) /\ From(j) # i
        /\ t[j].id = s[From(j)].id /\ t[j].api = s[From(j)].api
        /\ Len(t[j].args) = Len(Sig[t[j].api])
  <2> TAKE j \in 1..Len(t)
  <2>1. j \in 1..(Len(s) - 1) /\ j \in Nat
    BY <1>5
  <2>2. CASE j < i
    BY <1>1, <1>4, <1>5, <2>1, <2>2
  <2>3. CASE ~(j < i)
    BY <1>1, <1>2, <1>4, <1>5, <2>1, <2>3
  <2> QED BY <2>2, <2>3
<1>7. \A j, l \in 1..Len(t) : From(j) = From(l) => j = l
  BY <1>1, <1>5
<1>8. \A j \in 1..Len(t) : \A h \in 1..(From(j) - 1) :
        h = i \/ \E l \in 1..(j - 1) : h = From(l)
  <2> TAKE j \in 1..Len(t)
  <2> TAKE h \in 1..(From(j) - 1)
  <2>1. h \in Nat /\ j \in Nat /\ i \in Nat
    BY <1>1, <1>5
  <2>2. CASE h < i
    <3>1. h \in 1..(j - 1) /\ From(h) = h
      BY <2>1, <2>2
    <3> HIDE DEF From
    <3> QED BY <3>1
  <2>3. CASE h > i
    <3>1. h - 1 \in 1..(j - 1) /\ From(h - 1) = h
      BY <2>1, <2>3
    <3> HIDE DEF From
    <3> QED BY <3>1
  <2> QED BY <2>1, <2>2, <2>3
<1>9. \A j \in 1..Len(t) : (t[j] = s[From(j)] /\ From(j) <= i - 1) \/ t[j] = Forget(s[From(j)], gone)
  BY <1>1, <1>5
<1> HIDE DEF From
<1>10. WellFormed(t)
  BY <1>5, <1>6 DEF WellFormed
<1>11. IdsDiffer(t)
  <2>1. \A j, l \in 1..Len(s) : s[j].id = s[l].id => j = l
    BY DEF Sound, IdsDiffer
  <2> SUFFICES ASSUME NEW j \in 1..Len(t), NEW l \in 1..Len(t), t[j].id = t[l].id
               PROVE  j = l
    BY DEF IdsDiffer
  <2>2. From(j) \in 1..Len(s) /\ From(l) \in 1..Len(s) /\ s[From(j)].id = s[From(l)].id
    BY <1>6
  <2> QED BY <1>7, <2>1, <2>2
<1>12. ASSUME NEW j \in 1..Len(t) PROVE CallFits(t, j, t[j])
  <2> DEFINE call == s[From(j)]
  <2>1. /\ call \in Calls /\ Len(call.args) = Len(Sig[call.api])
        /\ CallFits(s, From(j), call)
    BY <1>1, <1>6 DEF Sound
  <2>2. \A h \in 1..(From(j) - 1) :
          \/ s[h].id \in gone
          \/ \E l \in 1..(j - 1) : t[l].id = s[h].id /\ t[l].api = s[h].api
    <3> TAKE h \in 1..(From(j) - 1)
    <3>1. CASE h = i
      BY <3>1 DEF gone
    <3>2. ASSUME NEW l \in 1..(j - 1), h = From(l)
          PROVE  t[l].id = s[h].id /\ t[l].api = s[h].api
      <4>1. l \in 1..Len(t)
        BY <1>1, <1>5
      <4> QED BY <1>6, <3>2, <4>1
    <3> QED BY <1>8, <3>1, <3>2
  <2>3. CASE t[j] = Forget(call, gone)
    <3>1. CallFits(t, j, Forget(call, gone))
      BY <2>1, <2>2, ForgetMoved
    <3> QED BY <2>3, <3>1
  <2>4. CASE t[j] = call /\ From(j) <= i - 1
    <3>1. \A h \in 1..(From(j) - 1) :
            \E l \in 1..(j - 1) : t[l].id = s[h].id /\ t[l].api = s[h].api
      <4> TAKE h \in 1..(From(j) - 1)
      <4>1. h # i
        BY <1>1, <1>6, <2>4
      <4>2. PICK l \in 1..(j - 1) : h = From(l)
        BY <1>8, <4>1
      <4>3. l \in 1..Len(t)
        BY <1>1, <1>5
      <4> QED BY <1>6, <4>2, <4>3
    <3>2. CallFits(t, j, call)
      BY <2>1, <3>1, CallMoved
    <3> QED BY <2>4, <3>2
  <2> QED BY <1>9, <2>3, <2>4
<1>13. Sound(t)
  BY <1>10, <1>11, <1>12 DEF Sound
<1> QED BY <1>13 DEF t

LEMMA JoinKeeps ==
  ASSUME NEW s, Sound(s), NEW u, Sound(u), IdsOf(s) \cap IdsOf(u) = {}
  PROVE  Sound(s \o u)
<1> DEFINE t == s \o u
<1>1. /\ s \in Seq(Calls) /\ u \in Seq(Calls) /\ Len(s) \in Nat /\ Len(u) \in Nat
      /\ \A i \in 1..Len(s) : Len(s[i].args) = Len(Sig[s[i].api])
      /\ \A i \in 1..Len(u) : Len(u[i].args) = Len(Sig[u[i].api])
  <2>1. WellFormed(s) /\ WellFormed(u)
    BY DEF Sound
  <2> QED BY <2>1, CallFacts DEF WellFormed
<1>2. /\ t \in Seq(Calls) /\ Len(t) = Len(s) + Len(u)
      /\ \A i \in 1..(Len(s) + Len(u)) : t[i] = IF i <= Len(s) THEN s[i] ELSE u[i - Len(s)]
  BY <1>1, ConcatProperties
<1> HIDE DEF t
<1> DEFINE At(j) == Len(s) + j
<1>3. /\ \A j \in 1..Len(s) : j \in 1..Len(t) /\ t[j] = s[j]
      /\ \A j \in 1..Len(u) : At(j) \in 1..Len(t) /\ t[At(j)] = u[j]
      /\ \A i \in 1..Len(t) : i \in 1..Len(s) \/ \E j \in 1..Len(u) : i = At(j)
  <2>1. \A j \in 1..Len(s) : j \in 1..Len(t) /\ t[j] = s[j]
    BY <1>1, <1>2
  <2>2. ASSUME NEW j \in 1..Len(u)
        PROVE  At(j) \in 1..Len(t) /\ t[At(j)] = u[j]
    <3>1. At(j) \in 1..(Len(s) + Len(u)) /\ ~(At(j) <= Len(s)) /\ At(j) - Len(s) = j
      BY <1>1
    <3> QED BY <1>2, <3>1
  <2>3. ASSUME NEW i \in 1..Len(t), i \notin 1..Len(s)
        PROVE  \E j \in 1..Len(u) : i = At(j)
    <3>1. i - Len(s) \in 1..Len(u) /\ i = At(i - Len(s))
      BY <1>1, <1>2, <2>3
    <3> HIDE DEF At
    <3> QED BY <3>1
  <2> QED BY <2>1, <2>2, <2>3
<1>4. WellFormed(t)
  <2>1. ASSUME NEW i \in 1..Len(t) PROVE Len(t[i].args) = Len(Sig[t[i].api])
    <3>1. CASE i \in 1..Len(s)
      BY <1>1, <1>3, <3>1
    <3>2. ASSUME NEW j \in 1..Len(u), i = At(j) PROVE Len(t[i].args) = Len(Sig[t[i].api])
      <4>1. t[i] = u[j]
        BY <1>3, <3>2
      <4> QED BY <1>1, <4>1
    <3> QED BY <1>3, <3>1, <3>2
  <2> QED BY <1>2, <2>1 DEF WellFormed
<1>5. IdsDiffer(t)
  <2>1. /\ \A i, j \in 1..Len(s) : s[i].id = s[j].id => i = j
        /\ \A i, j \in 1..Len(u) : u[i].id = u[j].id => i = j
        /\ \A i \in 1..Len(s), j \in 1..Len(u) : s[i].id # u[j].id
    <3>1. /\ \A i, j \in 1..Len(s) : s[i].id = s[j].id => i = j
          /\ \A i, j \in 1..Len(u) : u[i].id = u[j].id => i = j
      BY DEF Sound, IdsDiffer
    <3>2. \A i \in 1..Len(s), j \in 1..Len(u) : s[i].id \in IdsOf(s) /\ u[j].id \in IdsOf(u)
      BY DEF IdsOf
    <3>3. \A i \in 1..Len(s), j \in 1..Len(u) : s[i].id # u[j].id
      BY <3>2
    <3> QED BY <3>1, <3>3
  <2> SUFFICES ASSUME NEW i \in 1..Len(t), NEW j \in 1..Len(t), t[i].id = t[j].id
               PROVE  i = j
    BY DEF IdsDiffer
  <2> HIDE DEF At
  <2>2. CASE i \in 1..Len(s)
    <3>1. t[i] = s[i]
      BY <1>3, <2>2
    <3>2. CASE j \in 1..Len(s)
      <4>1. t[j] = s[j]
        BY <1>3, <3>2
      <4> QED BY <2>1, <2>2, <3>1, <3>2, <4>1
    <3>3. ASSUME NEW b \in 1..Len(u), j = At(b) PROVE FALSE
      <4>1. t[j] = u[b]
        BY <1>3, <3>3
      <4> QED BY <2>1, <2>2, <3>1, <4>1
    <3> QED BY <1>3, <3>2, <3>3
  <2>3. ASSUME NEW a \in 1..Len(u), i = At(a) PROVE i = j
    <3>1. t[i] = u[a]
      BY <1>3, <2>3
    <3>2. CASE j \in 1..Len(s)
      <4>1. t[j] = s[j]
        BY <1>3, <3>2
      <4> QED BY <2>1, <3>1, <3>2, <4>1
    <3>3. ASSUME NEW b \in 1..Len(u), j = At(b) PROVE i = j
      <4>1. t[j] = u[b]
        BY <1>3, <3>3
      <4> QED BY <2>1, <2>3, <3>1, <3>3, <4>1
    <3> QED BY <1>3, <3>2, <3>3
  <2> QED BY <1>3, <2>2, <2>3
<1>6. ASSUME NEW i \in 1..Len(t) PROVE CallFits(t, i, t[i])
  <2>1. CASE i \in 1..Len(s)
    <3>1. CallFits(s, i, s[i]) /\ t[i] = s[i]
      BY <1>3, <2>1 DEF Sound
    <3>2. \A h \in 1..(i - 1) : \E l \in 1..(i - 1) : t[l].id = s[h].id /\ t[l].api = s[h].api
      <4>1. \A h \in 1..(i - 1) : h \in 1..Len(s)
        BY <1>1, <2>1
      <4> QED BY <1>3, <4>1
    <3>3. CallFits(t, i, s[i])
      BY <3>1, <3>2, CallMoved
    <3> QED BY <3>1, <3>3
  <2>2. ASSUME NEW j \in 1..Len(u), i = At(j) PROVE CallFits(t, i, t[i])
    <3>1. CallFits(u, j, u[j]) /\ t[i] = u[j]
      BY <1>3, <2>2 DEF Sound
    <3>2. ASSUME NEW h \in 1..(j - 1)
          PROVE  \E l \in 1..(i - 1) : t[l].id = u[h].id /\ t[l].api = u[h].api
      <4>1. h \in 1..Len(u) /\ At(h) \in 1..(i - 1)
        BY <1>1, <2>2
      <4>2. t[At(h)] = u[h]
        BY <1>3, <4>1
      <4> QED BY <4>1, <4>2
    <3>3. CallFits(t, i, u[j])
      BY <3>1, <3>2, CallMoved
    <3> QED BY <3>1, <3>3
  <2> QED BY <1>3, <2>1, <2>2
<1>7. Sound(t)
  BY <1>4, <1>5, <1>6 DEF Sound
<1> QED BY <1>7 DEF t

LEMMA SingleSound ==
  ASSUME NEW call \in Calls, Len(call.args) = Len(Sig[call.api]),
         \A k \in 1..Len(Sig[call.api]) :
           \/ call.args[k] = Missing
           \/ \E c \in Samples[Sig[call.api][k]] :
                call.args[k] = Constant(c) /\ Sig[call.api][k] \in ConstAble
  PROVE  Sound(<<call>>) /\ IdsOf(<<call>>) = {call.id}
<1>1. <<call>> \in Seq(Calls) /\ Len(<<call>>) = 1 /\ <<call>>[1] = call
  OBVIOUS
<1>2. WellFormed(<<call>>) /\ IdsDiffer(<<call>>)
  BY <1>1 DEF WellFormed, IdsDiffer
<1>3. CallFits(<<call>>, 1, call)
  BY DEF CallFits, Fits
<1>4. IdsOf(<<call>>) = {call.id}
  BY <1>1 DEF IdsOf
<1> QED BY <1>1, <1>2, <1>3, <1>4 DEF Sound

LEMMA NewCallSound ==
  ASSUME NEW id \in Ids, NEW api \in Apis
  PROVE  Sound(<<NewCall(id, api)>>) /\ IdsOf(<<NewCall(id, api)>>) = {id}
<1> DEFINE call == NewCall(id, api)
<1>1. /\ call \in Calls /\ call.id = id /\ call.api = api /\ Len(call.args) = Len(Sig[api])
      /\ \A k \in 1..Len(Sig[api]) : call.args[k] = Missing
  BY NewCallFacts
<1> HIDE DEF call
<1>2. Sound(<<call>>) /\ IdsOf(<<call>>) = {call.id}
  BY <1>1, SingleSound
<1> QED BY <1>1, <1>2 DEF call

LEMMA AppendKeeps ==
  ASSUME NEW s, Sound(s), NEW id \in Ids, id \notin IdsOf(s), NEW api \in Apis
  PROVE  Sound(Append(s, NewCall(id, api)))
<1>1. Append(s, NewCall(id, api)) = s \o <<NewCall(id, api)>>
  <2>1. s \in Seq(Calls) /\ NewCall(id, api) \in Calls
    BY NewCallFacts DEF Sound, WellFormed
  <2> QED BY <2>1, AppendIsConcat
<1>2. Sound(<<NewCall(id, api)>>) /\ IdsOf(s) \cap IdsOf(<<NewCall(id, api)>>) = {}
  BY NewCallSound
<1> QED BY <1>1, <1>2, JoinKeeps

LEMMA EmptySound == Sound(<<>>) /\ IdsOf(<<>>) = {}
<1>1. <<>> \in Seq(Calls) /\ Len(<<>>) = 0
  BY EmptySeq
<1> QED BY <1>1 DEF Sound, WellFormed, IdsDiffer, IdsOf

(* Taking a suffix, and forgetting the references out of it.               *)
LEMMA SuffixKeeps ==
  ASSUME NEW s, Sound(s), NEW from \in 1..(Len(s) + 1)
  PROVE  Sound(SuffixOf(s, from)) /\ IdsOf(SuffixOf(s, from)) \subseteq IdsOf(s)
<1> DEFINE u == SubSeq(s, from, Len(s))
           gone == RefsOf(u) \ IdsOf(u)
           t == SuffixOf(s, from)
           n == Len(s) - from + 1
           From(j) == from + j - 1
<1>1. /\ Len(s) \in Nat /\ from \in Nat /\ n \in Nat /\ \A i \in 1..Len(s) : s[i] \in Calls
      /\ \A i \in 1..Len(s) : Len(s[i].args) = Len(Sig[s[i].api])
  BY CallFacts DEF Sound
<1>2. Len(u) = n /\ \A j \in 1..n : u[j] = s[From(j)]
  <2>1. \A i \in from..Len(s) : s[i] \in Calls
    BY <1>1
  <2>2. /\ u \in Seq(Calls) /\ Len(u) = IF from <= Len(s) THEN Len(s) - from + 1 ELSE 0
        /\ \A j \in 1..(Len(s) - from + 1) : u[j] = s[from + j - 1]
    BY <1>1, <2>1, SubSeqProperties
  <2> QED BY <1>1, <2>2
<1>3. t = [j \in 1..n |-> Forget(u[j], gone)]
  BY <1>2 DEF SuffixOf
<1>4. \A j \in 1..n : From(j) \in 1..Len(s)
  BY <1>1
<1>5. \A j \in 1..n : u[j] \in Calls /\ Len(u[j].args) = Len(Sig[u[j].api])
  BY <1>1, <1>2, <1>4
<1>6. /\ \A j, l \in 1..n : From(j) = From(l) => j = l
      /\ \A j \in 1..n : \A h \in 1..(From(j) - 1) : h < from \/ \E l \in 1..(j - 1) : h = From(l)
  <2>1. \A j, l \in 1..n : From(j) = From(l) => j = l
    BY <1>1
  <2>2. ASSUME NEW j \in 1..n, NEW h \in 1..(From(j) - 1), ~(h < from)
        PROVE  \E l \in 1..(j - 1) : h = From(l)
    <3>1. h - from + 1 \in 1..(j - 1) /\ h = From(h - from + 1)
      BY <1>1, <2>2
    <3> HIDE DEF From
    <3> QED BY <3>1
  <2> QED BY <2>1, <2>2
<1>7. \A j \in 1..n : \A h \in 1..(From(j) - 1) : h \in 1..Len(s)
  BY <1>1
<1> HIDE DEF u, gone, t, n, From
<1>8. \A j \in 1..n :
        /\ Forget(u[j], gone) \in Calls
        /\ Forget(u[j], gone).id = u[j].id /\ Forget(u[j], gone).api = u[j].api
        /\ Len(Forget(u[j], gone).args) = Len(u[j].args)
  BY <1>5, ForgetFacts
<1>9. /\ t \in Seq(Calls) /\ Len(t) = n
      /\ \A j \in 1..n : t[j] = Forget(u[j], gone)
  <2>1. t \in [1..n -> Calls]
    BY <1>3, <1>8
  <2> QED BY <1>1, <1>3, <2>1, FunctionIsSeq
<1>10. \A j \in 1..n :
         /\ t[j].id = s[From(j)].id /\ t[j].api = s[From(j)].api
         /\ Len(t[j].args) = Len(Sig[t[j].api])
  BY <1>2, <1>5, <1>8, <1>9
<1>11. WellFormed(t)
  BY <1>9, <1>10 DEF WellFormed
<1>12. IdsDiffer(t)
  <2>1. \A j, l \in 1..Len(s) : s[j].id = s[l].id => j = l
    BY DEF Sound, IdsDiffer
  <2> SUFFICES ASSUME NEW j \in 1..n, NEW l \in 1..n, t[j].id = t[l].id
               PROVE  j = l
    BY <1>9 DEF IdsDiffer
  <2>2. From(j) \in 1..Len(s) /\ From(l) \in 1..Len(s) /\ s[From(j)].id = s[From(l)].id
    BY <1>4, <1>10
  <2> QED BY <1>6, <2>1, <2>2
<1>13. ASSUME NEW j \in 1..n PROVE CallFits(t, j, t[j])
  <2> DEFINE call == u[j]
  <2>1. call = s[From(j)] /\ From(j) \in 1..Len(s) /\ CallFits(s, From(j), call)
    BY <1>2, <1>4 DEF Sound
  <2>2. ASSUME NEW k \in 1..Len(Sig[call.api])
        PROVE  Fits(t, j, Sig[call.api][k], t[j].args[k])
    <3> DEFINE need == Sig[call.api][k]
               old  == call.args[k]
               new  == t[j].args[k]
    <3>1. Fits(s, From(j), need, old)
      BY <2>1 DEF CallFits
    <3>2. new = IF old[1] = "Output" /\ old[2] \in gone THEN Missing ELSE old
      <4>1. t[j] = Forget(call, gone) /\ call \in Calls /\ Len(call.args) = Len(Sig[call.api])
        BY <1>5, <1>9
      <4>2. Forget(call, gone).args[k] = IF old[1] = "Output" /\ old[2] \in gone THEN Missing ELSE old
        <5> HIDE DEF call
        <5> QED BY <4>1, ForgetFacts
      <4> QED BY <4>1, <4>2
    <3>3. old[1] = "Output" => old[2] \in gone \/ old[2] \in IdsOf(u)
      <4>1. SUFFICES ASSUME old[1] = "Output" PROVE old[2] \in RefsOf(u)
        BY DEF gone
      <4>2. k \in DOMAIN call.args
        <5>1. call.args \in Seq(Args) /\ Len(call.args) = Len(Sig[call.api])
          BY <1>5 DEF Calls
        <5> QED BY <5>1, LenProperties
      <4>3. old[2] \in Refs(u[j])
        BY <4>1, <4>2 DEF Refs, Slots
      <4> QED BY <1>2, <4>3 DEF RefsOf
    <3>4. ASSUME NEW h \in 1..(From(j) - 1), s[h].id \in IdsOf(u)
          PROVE  \E l \in 1..(j - 1) : t[l].id = s[h].id /\ t[l].api = s[h].api
      <4>1. PICK m \in 1..n : s[h].id = s[From(m)].id
        BY <1>2, <3>4 DEF IdsOf
      <4>2. h = From(m)
        BY <1>4, <1>7, <4>1 DEF Sound, IdsDiffer
      <4>3. ~(h < from)
        BY <1>1, <4>2 DEF From
      <4>4. PICK l \in 1..(j - 1) : h = From(l)
        BY <1>6, <4>3
      <4>5. l \in 1..n
        BY <1>1
      <4> QED BY <1>10, <4>4, <4>5
    <3> HIDE DEF need, old, new
    <3>5. Fits(t, j, need, new)
      <4>1. CASE old[1] = "Output" /\ old[2] \in gone
        BY <3>2, <4>1 DEF Fits
      <4>2. CASE ~(old[1] = "Output" /\ old[2] \in gone)
        <5>1. new = old
          BY <3>2, <4>2
        <5>2. ASSUME NEW h \in 1..(From(j) - 1), old = Output(s[h].id)
              PROVE  s[h].id \in IdsOf(u)
          BY <3>3, <4>2, <5>2, ArgTags
        <5> QED BY <3>1, <3>4, <5>1, <5>2 DEF Fits
      <4> QED BY <4>1, <4>2
    <3> QED BY <3>5 DEF need, new
  <2>3. t[j].api = call.api
    BY <1>8, <1>9
  <2> QED BY <2>2, <2>3 DEF CallFits
<1>14. Sound(t)
  BY <1>9, <1>11, <1>12, <1>13 DEF Sound
<1>15. IdsOf(t) \subseteq IdsOf(s)
  BY <1>4, <1>9, <1>10 DEF IdsOf
<1> QED BY <1>14, <1>15 DEF t

-----------------------------------------------------------------------------
(* Fresh IDs.                                                              *)

LEMMA FreshIdFacts ==
  ASSUME UnusedIds # {}
  PROVE  /\ FreshId \in Ids /\ FreshId \notin IdsOf(seq)
         /\ \A s \in corpus : FreshId \notin IdsOf(s)
BY DEF FreshId, UnusedIds

(* With as many unused IDs as calls there is a renaming.                   *)
LEMMA RenamingExists ==
  ASSUME NEW s, Sound(s), Cardinality(UnusedIds) >= Len(s)
  PROVE  Injection(IdsOf(s), UnusedIds) # {}
<1> DEFINE n == Cardinality(UnusedIds)
           At(x) == CHOOSE i \in 1..Len(s) : s[i].id = x
<1>1. IsFiniteSet(UnusedIds)
  <2>1. UnusedIds \subseteq Ids
    BY DEF UnusedIds
  <2> QED BY <2>1, FS_Subset
<1>2. n \in Nat /\ ExistsBijection(1..n, UnusedIds)
  BY <1>1, FS_CardinalityType
<1>3. PICK b : b \in [1..n -> UnusedIds] /\ \A i, j \in 1..n : b[i] = b[j] => i = j
  BY <1>2 DEF ExistsBijection, Bijection, Injection, IsInjective
<1>4. \A x \in IdsOf(s) : At(x) \in 1..Len(s) /\ s[At(x)].id = x
  BY DEF IdsOf
<1>5. Len(s) \in Nat /\ \A i \in 1..Len(s) : i \in 1..n
  <2>1. Len(s) \in Nat
    BY CallFacts DEF Sound
  <2> QED BY <1>2, <2>1
<1> HIDE DEF n, At
<1> DEFINE f == [x \in IdsOf(s) |-> b[At(x)]]
<1>6. f \in [IdsOf(s) -> UnusedIds]
  BY <1>3, <1>4, <1>5
<1>7. ASSUME NEW x \in IdsOf(s), NEW y \in IdsOf(s), f[x] = f[y]
      PROVE  x = y
  <2>1. b[At(x)] = b[At(y)] /\ At(x) \in 1..n /\ At(y) \in 1..n
    BY <1>4, <1>5, <1>7
  <2>2. At(x) = At(y)
    BY <1>3, <2>1
  <2> QED BY <1>4, <2>2
<1>8. f \in Injection(IdsOf(s), UnusedIds)
  <2>1. DOMAIN f = IdsOf(s)
    OBVIOUS
  <2> HIDE DEF f
  <2>2. IsInjective(f)
    BY <1>7, <2>1 DEF IsInjective
  <2> QED BY <1>6, <2>2 DEF Injection
<1> QED BY <1>8

(* The sequence with other IDs: calls and references change together.      *)
LEMMA RenamedKeeps ==
  ASSUME NEW s, Sound(s), Cardinality(UnusedIds) >= Len(s)
  PROVE  /\ Sound(Renamed(s)) /\ Len(Renamed(s)) = Len(s)
         /\ IdsOf(Renamed(s)) \subseteq UnusedIds
<1> DEFINE new == CHOOSE f \in Injection(IdsOf(s), UnusedIds) : TRUE
           Id(x) == IF x \in IdsOf(s) THEN new[x] ELSE x
           args(i) == [k \in DOMAIN s[i].args |->
                        IF k \in Slots(s[i], "Output") THEN Output(Id(s[i].args[k][2]))
                                                       ELSE s[i].args[k]]
           t == Renamed(s)
<1>1. /\ Len(s) \in Nat
      /\ \A i \in 1..Len(s) :
           /\ s[i].id \in IdsOf(s) /\ s[i].api \in Apis
           /\ DOMAIN s[i].args = 1..Len(Sig[s[i].api])
           /\ \A k \in 1..Len(Sig[s[i].api]) : s[i].args[k] \in Args
  <2>1. WellFormed(s)
    BY DEF Sound
  <2> QED BY <2>1, CallFacts DEF IdsOf
<1>2. new \in [IdsOf(s) -> UnusedIds] /\ \A x, y \in IdsOf(s) : new[x] = new[y] => x = y
  <2>1. new \in Injection(IdsOf(s), UnusedIds)
    BY RenamingExists
  <2> HIDE DEF new
  <2> QED BY <2>1 DEF Injection, IsInjective
<1>3. t = [i \in 1..Len(s) |-> Call(Id(s[i].id), s[i].api, args(i))]
  BY DEF Renamed
<1>4. UnusedIds \subseteq Ids
  BY DEF UnusedIds
<1> HIDE DEF new, t
<1>5. ASSUME NEW i \in 1..Len(s), NEW k \in 1..Len(Sig[s[i].api])
      PROVE  LET old == s[i].args[k]
             IN  /\ args(i)[k] = IF old[1] = "Output" THEN Output(Id(old[2])) ELSE old
                 /\ args(i)[k] \in Args
                 /\ \/ old = Missing /\ args(i)[k] = Missing
                    \/ \E c \in Samples[Sig[s[i].api][k]] :
                         /\ old = Constant(c) /\ args(i)[k] = Constant(c)
                         /\ Sig[s[i].api][k] \in ConstAble \/ Makes[Sig[s[i].api][k]] = {}
                    \/ \E j \in 1..(i - 1) :
                         /\ args(i)[k] = Output(new[s[j].id])
                         /\ s[j].api \in Makes[Sig[s[i].api][k]]
  <2> DEFINE old == s[i].args[k]
             need == Sig[s[i].api][k]
  <2>1. args(i)[k] = IF old[1] = "Output" THEN Output(Id(old[2])) ELSE old
    BY <1>1 DEF Slots
  <2>2. Fits(s, i, need, old) /\ old \in Args /\ \A j \in 1..(i - 1) : s[j].id \in IdsOf(s)
    BY <1>1 DEF Sound, CallFits
  <2>3. \A j \in 1..(i - 1) : new[s[j].id] \in Ids
    BY <1>2, <1>4, <2>2
  <2> DEFINE a == args(i)[k]
  <2> HIDE DEF old, need, a
  <2>4. a = IF old[1] = "Output" THEN Output(Id(old[2])) ELSE old
    BY <2>1 DEF a
  <2>5. \/ old = Missing /\ a = Missing
        \/ \E c \in Samples[need] :
             old = Constant(c) /\ a = Constant(c) /\ (need \in ConstAble \/ Makes[need] = {})
        \/ \E j \in 1..(i - 1) : a = Output(new[s[j].id]) /\ s[j].api \in Makes[need]
    BY <2>2, <2>4, ArgTags DEF Fits
  <2>6. a \in Args
    BY <2>2, <2>3, <2>5, ArgTypes
  <2> QED BY <2>1, <2>5, <2>6 DEF old, need, a
<1>6. \A i \in 1..Len(s) :
        /\ args(i) \in Seq(Args) /\ Len(args(i)) = Len(Sig[s[i].api])
  <2> TAKE i \in 1..Len(s)
  <2>1. Len(Sig[s[i].api]) \in Nat
    BY <1>1, SigFacts
  <2>2. args(i) \in [1..Len(Sig[s[i].api]) -> Args]
    <3>1. DOMAIN args(i) = 1..Len(Sig[s[i].api]) /\ args(i) = [k \in DOMAIN args(i) |-> args(i)[k]]
      BY <1>1
    <3>2. \A k \in 1..Len(Sig[s[i].api]) : args(i)[k] \in Args
      BY <1>5
    <3> HIDE DEF args
    <3> QED BY <3>1, <3>2
  <2> HIDE DEF args
  <2> QED BY <2>1, <2>2, FunctionIsSeq
<1> HIDE DEF args
<1>7. /\ t \in Seq(Calls) /\ Len(t) = Len(s)
      /\ \A i \in 1..Len(s) :
           t[i].id = new[s[i].id] /\ t[i].api = s[i].api /\ t[i].args = args(i)
  <2>1. \A i \in 1..Len(s) :
          /\ Call(Id(s[i].id), s[i].api, args(i)) \in Calls
          /\ Call(Id(s[i].id), s[i].api, args(i)).id = new[s[i].id]
          /\ Call(Id(s[i].id), s[i].api, args(i)).api = s[i].api
          /\ Call(Id(s[i].id), s[i].api, args(i)).args = args(i)
    BY <1>1, <1>2, <1>4, <1>6 DEF Call, Calls
  <2>2. t \in [1..Len(s) -> Calls]
    BY <1>3, <2>1
  <2>3. t \in Seq(Calls) /\ Len(t) = Len(s)
    BY <1>1, <2>2, FunctionIsSeq
  <2> QED BY <1>3, <2>1, <2>3
<1>8. WellFormed(t)
  BY <1>6, <1>7 DEF WellFormed
<1>9. IdsDiffer(t)
  BY <1>1, <1>2, <1>7 DEF Sound, IdsDiffer
<1>10. ASSUME NEW i \in 1..Len(s) PROVE CallFits(t, i, t[i])
  <2> SUFFICES ASSUME NEW k \in 1..Len(Sig[s[i].api])
               PROVE  Fits(t, i, Sig[s[i].api][k], args(i)[k])
    BY <1>7 DEF CallFits
  <2>1. \A j \in 1..(i - 1) : t[j].id = new[s[j].id] /\ t[j].api = s[j].api
    BY <1>1, <1>7
  <2> DEFINE need == Sig[s[i].api][k]
             a == args(i)[k]
  <2>2. \/ a = Missing
        \/ \E c \in Samples[need] : a = Constant(c) /\ (need \in ConstAble \/ Makes[need] = {})
        \/ \E j \in 1..(i - 1) : a = Output(new[s[j].id]) /\ s[j].api \in Makes[need]
    BY <1>5
  <2> HIDE DEF need, a
  <2>3. Fits(t, i, need, a)
    BY <2>1, <2>2 DEF Fits
  <2> QED BY <2>3 DEF need, a
<1>11. Sound(t)
  BY <1>7, <1>8, <1>9, <1>10 DEF Sound
<1>12. IdsOf(t) \subseteq UnusedIds
  <2>1. \A i \in 1..Len(s) : t[i].id \in UnusedIds
    BY <1>1, <1>2, <1>7
  <2> QED BY <1>7, <2>1 DEF IdsOf
<1> QED BY <1>7, <1>11, <1>12 DEF t

(* Sampling constants again.                                               *)
Resampled(s, f) ==
  [i \in 1..Len(s) |-> [s[i] EXCEPT !.args =
     [k \in DOMAIN @ |-> IF <<i, k>> \in DOMAIN f THEN Constant(f[<<i, k>>]) ELSE @[k]]]]

LEMMA ResampleKeeps ==
  ASSUME NEW s, Sound(s), NEW f \in [ConstSlots(s) -> AllSamples],
         \A p \in DOMAIN f : f[p] \in Samples[Sig[s[p[1]].api][p[2]]]
  PROVE  /\ Sound(Resampled(s, f)) /\ Len(Resampled(s, f)) = Len(s)
         /\ \A i \in 1..Len(s) : Incomplete(Resampled(s, f)[i]) => Incomplete(s[i])
<1> DEFINE args(i) == [k \in DOMAIN s[i].args |->
                        IF <<i, k>> \in DOMAIN f THEN Constant(f[<<i, k>>]) ELSE s[i].args[k]]
           t == Resampled(s, f)
<1>1. /\ Len(s) \in Nat
      /\ \A i \in 1..Len(s) :
           /\ s[i] \in Calls /\ s[i].api \in Apis
           /\ DOMAIN s[i].args = 1..Len(Sig[s[i].api])
           /\ \A k \in 1..Len(Sig[s[i].api]) :
                s[i].args[k] \in Args /\ Sig[s[i].api][k] \in Types
  <2>1. WellFormed(s)
    BY DEF Sound
  <2> QED BY <2>1, CallFacts
<1>2. \A i \in 1..Len(s) : \A k \in DOMAIN s[i].args :
        <<i, k>> \in DOMAIN f <=> s[i].args[k][1] = "Constant"
  <2>1. DOMAIN f = ConstSlots(s)
    OBVIOUS
  <2> HIDE DEF t
  <2> QED BY <2>1 DEF ConstSlots, Slots
<1>3. t = [i \in 1..Len(s) |-> [s[i] EXCEPT !.args = args(i)]]
  BY <1>1 DEF Resampled
<1> HIDE DEF t
<1>4. ASSUME NEW i \in 1..Len(s), NEW k \in 1..Len(Sig[s[i].api])
      PROVE  /\ Fits(s, i, Sig[s[i].api][k], args(i)[k])
             /\ args(i)[k] \in Args
             /\ args(i)[k][1] = "Missing" => s[i].args[k][1] = "Missing"
  <2> DEFINE old == s[i].args[k]
             need == Sig[s[i].api][k]
             new == args(i)[k]
  <2>1. Fits(s, i, need, old) /\ old \in Args
    BY <1>1 DEF Sound, CallFits
  <2>2. CASE <<i, k>> \in DOMAIN f
    <3>1. PICK c \in Samples[need] : new = Constant(c)
      <4>1. f[<<i, k>>] \in Samples[need]
        BY <2>2
      <4> QED BY <1>1, <2>2, <4>1
    <3>2. old[1] = "Constant"
      BY <1>1, <1>2, <2>2
    <3>3. need \in ConstAble \/ Makes[need] = {}
      <4> HIDE DEF old, need, new
      <4> QED BY <2>1, <3>2, ArgTags DEF Fits
    <3>4. need \in Types
      BY <1>1
    <3> HIDE DEF old, need, new
    <3>5. Fits(s, i, need, new) /\ new \in Args /\ new[1] # "Missing"
      BY <3>1, <3>3, <3>4, ArgTypes, ArgTags DEF Fits
    <3> QED BY <3>5 DEF need, new
  <2>3. CASE <<i, k>> \notin DOMAIN f
    <3>1. new = old
      BY <1>1, <2>3
    <3> HIDE DEF old, need, new
    <3>2. Fits(s, i, need, new) /\ new \in Args /\ (new[1] = "Missing" => old[1] = "Missing")
      BY <2>1, <3>1
    <3> QED BY <3>2 DEF need, new, old
  <2> QED BY <2>2, <2>3
<1>5. \A i \in 1..Len(s) :
        /\ args(i) \in Seq(Args) /\ Len(args(i)) = Len(Sig[s[i].api])
        /\ DOMAIN args(i) = 1..Len(Sig[s[i].api])
  <2> TAKE i \in 1..Len(s)
  <2>1. Len(Sig[s[i].api]) \in Nat
    BY <1>1, SigFacts
  <2>2. args(i) \in [1..Len(Sig[s[i].api]) -> Args]
    <3>1. DOMAIN args(i) = 1..Len(Sig[s[i].api]) /\ args(i) = [k \in DOMAIN args(i) |-> args(i)[k]]
      BY <1>1
    <3>2. \A k \in 1..Len(Sig[s[i].api]) : args(i)[k] \in Args
      BY <1>4
    <3> HIDE DEF args
    <3> QED BY <3>1, <3>2
  <2> HIDE DEF args
  <2> QED BY <2>1, <2>2, FunctionIsSeq
<1> HIDE DEF args
<1>6. /\ t \in Seq(Calls) /\ Len(t) = Len(s)
      /\ \A i \in 1..Len(s) : t[i].id = s[i].id /\ t[i].api = s[i].api /\ t[i].args = args(i)
  <2>1. \A i \in 1..Len(s) :
          /\ [s[i] EXCEPT !.args = args(i)] \in Calls
          /\ [s[i] EXCEPT !.args = args(i)].id = s[i].id
          /\ [s[i] EXCEPT !.args = args(i)].api = s[i].api
          /\ [s[i] EXCEPT !.args = args(i)].args = args(i)
    BY <1>1, <1>5 DEF Calls
  <2>2. t \in [1..Len(s) -> Calls]
    BY <1>3, <2>1
  <2>3. t \in Seq(Calls) /\ Len(t) = Len(s)
    BY <1>1, <2>2, FunctionIsSeq
  <2> QED BY <1>3, <2>1, <2>3
<1>7. WellFormed(t)
  BY <1>5, <1>6 DEF WellFormed
<1>8. IdsDiffer(t)
  BY <1>6 DEF Sound, IdsDiffer
<1>9. ASSUME NEW i \in 1..Len(s) PROVE CallFits(t, i, t[i])
  <2>1. CallFits(s, i, t[i])
    BY <1>4, <1>6 DEF CallFits
  <2>2. \A j \in 1..(i - 1) : \E l \in 1..(i - 1) : t[l].id = s[j].id /\ t[l].api = s[j].api
    <3>1. \A j \in 1..(i - 1) : j \in 1..Len(s)
      BY <1>1
    <3> QED BY <1>6, <3>1
  <2> QED BY <2>1, <2>2, CallMoved
<1>10. Sound(t)
  BY <1>6, <1>7, <1>8, <1>9 DEF Sound
<1>11. \A i \in 1..Len(s) : Incomplete(t[i]) => Incomplete(s[i])
  BY <1>1, <1>4, <1>5, <1>6 DEF Incomplete, Slots
<1> QED BY <1>6, <1>10, <1>11 DEF t

-----------------------------------------------------------------------------
(* The inductive invariant: what is in the corpus is sound and complete;   *)
(* what is being made is sound, and its incomplete calls are on the        *)
(* worklist, at every moment and not only during a completion.             *)

Whole(s) == \A i \in 1..Len(s) : ~Incomplete(s[i])

CorpusInv == \A s \in corpus : Sound(s) /\ Whole(s)

WorkInv ==
  /\ worklist \in Seq(Ids) /\ ToSet(worklist) \subseteq IdsOf(seq)
  /\ \A i \in 1..Len(seq) : Incomplete(seq[i]) => seq[i].id \in ToSet(worklist)

PhaseInv ==
  /\ pc \in {"idle", "filling", "made"} /\ limit \in Nat
  /\ pc # "filling" => worklist = <<>>
  /\ pc = "idle" => seq = <<>>

IInv == CorpusInv /\ Sound(seq) /\ WorkInv /\ PhaseInv

(* The invariant says all that the runs check.                             *)
LEMMA InvImplies == IInv => ValidInputs /\ PanicFree /\ ArgumentsFit /\ WorklistCovers
<1> SUFFICES ASSUME IInv PROVE ValidInputs /\ PanicFree /\ ArgumentsFit /\ WorklistCovers
  OBVIOUS
<1>1. \A s \in corpus \cup {seq} :
        WellFormed(s) /\ IdsDiffer(s) /\ OutputsComeFirst(s) /\ ArgsFit(s)
  BY SoundMeans DEF IInv, CorpusInv
<1>2. ValidInputs
  <2>1. pc = "made" => Whole(seq)
    <3>1. worklist = <<>> => ToSet(worklist) = {}
      BY DEF ToSet
    <3> QED BY <3>1 DEF IInv, WorkInv, PhaseInv, Whole
  <2> QED BY <1>1, <2>1 DEF ValidInputs, IsValid, Whole, IInv, CorpusInv
<1>3. ASSUME NEW s \in corpus PROVE RefsOf(s) \subseteq IdsOf(s)
  <2>1. \A i \in 1..Len(s) : Refs(s[i]) \subseteq {s[j].id : j \in 1..(i - 1)} /\ i \in Nat /\ Len(s) \in Nat
    <3>1. WellFormed(s) /\ OutputsComeFirst(s) /\ Len(s) \in Nat
      BY <1>1, CallFacts
    <3> TAKE i \in 1..Len(s)
    <3> DEFINE before == {s[j].id : j \in 1..(i - 1)}
    <3>2. IdsOf(SubSeq(s, 1, i - 1)) = before
      BY <3>1, PrefixIds
    <3> HIDE DEF before
    <3>3. Refs(s[i]) \subseteq before
      BY <3>1, <3>2 DEF OutputsComeFirst
    <3> QED BY <3>1, <3>3 DEF before
  <2>2. \A i \in 1..Len(s) : \A j \in 1..(i - 1) : j \in 1..Len(s)
    BY <2>1
  <2>3. \A i \in 1..Len(s) : {s[j].id : j \in 1..(i - 1)} \subseteq IdsOf(s)
    BY <2>2 DEF IdsOf
  <2> QED BY <2>1, <2>3 DEF RefsOf
<1>4. PanicFree
  BY <1>1, <1>3 DEF PanicFree, IInv, WorkInv
<1>5. ArgumentsFit
  BY <1>1 DEF ArgumentsFit
<1>6. WorklistCovers
  BY <1>1 DEF WorklistCovers, IInv, WorkInv
<1> QED BY <1>2, <1>4, <1>5, <1>6

LEMMA InitInv == Init => IInv
<1> SUFFICES ASSUME Init PROVE IInv
  OBVIOUS
<1>1. Sound(seq) /\ CorpusInv /\ PhaseInv
  BY EmptySound DEF Init, CorpusInv, PhaseInv
<1>2. WorkInv
  BY EmptySeq DEF Init, WorkInv, ToSet, IdsOf
<1> QED BY <1>1, <1>2 DEF IInv

-----------------------------------------------------------------------------
(* Steps of a completion.                                                  *)

LEMMA HereFacts ==
  ASSUME IInv, pc = "filling", worklist # <<>>
  PROVE  Here \in 1..Len(seq) /\ seq[Here].id = Head(worklist)
<1>1. Head(worklist) \in ToSet(worklist)
  <2>1. Len(worklist) \in Nat \ {0} /\ DOMAIN worklist = 1..Len(worklist)
    BY EmptySeq, LenProperties DEF IInv, WorkInv
  <2>2. 1 \in DOMAIN worklist /\ Head(worklist) = worklist[1]
    BY <2>1
  <2> QED BY <2>2 DEF ToSet
<1>2. \E i \in 1..Len(seq) : seq[i].id = Head(worklist)
  BY <1>1 DEF IInv, WorkInv, IdsOf
<1> QED BY <1>2 DEF Here, IndexOf

LEMMA SlotFacts ==
  ASSUME IInv, Filling
  PROVE  /\ Here \in 1..Len(seq)
         /\ Slot \in DOMAIN seq[Here].args /\ Need \in Types
         /\ \A arg : Fill(arg) = Filled(seq, Here, Slot, arg)
<1>1. Here \in 1..Len(seq)
  BY HereFacts DEF Filling
<1>2. DOMAIN seq[Here].args = 1..Len(Sig[seq[Here].api])
      /\ \A k \in DOMAIN seq[Here].args : Sig[seq[Here].api][k] \in Types
  BY <1>1, CallFacts DEF IInv, Sound
<1>3. Slots(seq[Here], "Missing") # {} /\ Slots(seq[Here], "Missing") \in SUBSET Nat
  BY <1>2 DEF Filling, Incomplete, Slots
<1>4. \E k \in Slots(seq[Here], "Missing") : \A l \in Slots(seq[Here], "Missing") : k <= l
  BY <1>3, LeastNatural
<1>5. Slot \in Slots(seq[Here], "Missing")
  BY <1>4 DEF Slot
<1>6. Slot \in DOMAIN seq[Here].args
  BY <1>5 DEF Slots
<1>7. Need \in Types
  BY <1>2, <1>6 DEF Need
<1> QED BY <1>1, <1>6, <1>7 DEF Fill, Filled

(* Filling in an argument that fits keeps the invariant.                   *)
LEMMA FillStep ==
  ASSUME IInv, Filling, NEW arg \in Args, arg # Missing, Fits(seq, Here, Need, arg),
         seq' = Fill(arg), UNCHANGED <<mode, pc, fuzzing, worklist, limit, corpus>>
  PROVE  IInv'
<1>1. /\ Here \in 1..Len(seq) /\ Slot \in DOMAIN seq[Here].args
      /\ seq' = Filled(seq, Here, Slot, arg)
      /\ Sound(seq) /\ WellFormed(seq) /\ Need = Sig[seq[Here].api][Slot]
  BY SlotFacts DEF IInv, Sound, Need
<1>2. Sound(seq')
  BY <1>1, FillKeeps
<1>3. Len(seq') = Len(seq) /\ \A j \in 1..Len(seq) : seq'[j].id = seq[j].id
  BY <1>1, FillFacts
<1>4. \A j \in 1..Len(seq) : Incomplete(seq'[j]) => Incomplete(seq[j])
  BY <1>1, FillCompletes
<1>5. IdsOf(seq') = IdsOf(seq)
  BY <1>3 DEF IdsOf
<1>6. WorkInv'
  BY <1>3, <1>4, <1>5 DEF IInv, WorkInv
<1>7. CorpusInv' /\ PhaseInv'
  BY DEF IInv, CorpusInv, PhaseInv, Filling
<1> QED BY <1>2, <1>6, <1>7 DEF IInv

LEMMA ReuseStep == IInv /\ Reuse => IInv'
<1> SUFFICES ASSUME IInv, Reuse PROVE IInv'
  OBVIOUS
<1>1. PICK j \in 1..(Here - 1) : seq[j].api \in Makes[Need] /\ seq' = Fill(Output(seq[j].id))
  BY DEF Reuse, Suppliers
<1>2. Filling /\ Here \in 1..Len(seq)
  BY SlotFacts DEF Reuse
<1>3. seq[j].id \in Ids
  <2>1. /\ Len(seq) \in Nat /\ \A i \in 1..Len(seq) : seq[i].id \in Ids
    BY CallFacts DEF IInv, Sound
  <2> QED BY <1>2, <2>1
<1>4. Output(seq[j].id) \in Args /\ Output(seq[j].id) # Missing
  BY <1>3, ArgTypes DEF Output, Missing
<1>5. Fits(seq, Here, Need, Output(seq[j].id))
  BY <1>1 DEF Fits
<1> QED BY <1>1, <1>2, <1>4, <1>5, FillStep DEF Reuse

LEMMA UseConstantStep == IInv /\ UseConstant => IInv'
<1> SUFFICES ASSUME IInv, UseConstant PROVE IInv'
  OBVIOUS
<1>1. PICK c \in Samples[Need] : seq' = Fill(Constant(c))
  BY DEF UseConstant
<1>2. Filling /\ Need \in Types
  BY SlotFacts DEF UseConstant
<1>3. Constant(c) \in Args /\ Constant(c) # Missing
  BY <1>2, ArgTypes DEF Constant, Missing
<1>4. Need \in ConstAble \/ Makes[Need] = {}
  BY DEF UseConstant, Strategies
<1>5. Fits(seq, Here, Need, Constant(c))
  BY <1>4 DEF Fits
<1> QED BY <1>1, <1>2, <1>3, <1>5, FillStep DEF UseConstant

LEMMA InsertCallStep == IInv /\ InsertCall => IInv'
<1> SUFFICES ASSUME IInv, InsertCall PROVE IInv'
  OBVIOUS
<1>1. PICK api \in Makes[Need] :
        seq' = InsertAt(Fill(Output(FreshId)), Here, NewCall(FreshId, api))
  BY DEF InsertCall
<1>2. /\ Here \in 1..Len(seq) /\ Slot \in DOMAIN seq[Here].args /\ Sound(seq)
      /\ Fill(Output(FreshId)) = Filled(seq, Here, Slot, Output(FreshId))
      /\ Need = Sig[seq[Here].api][Slot]
  BY SlotFacts DEF IInv, Need, InsertCall
<1>3. FreshId \in Ids /\ FreshId \notin IdsOf(seq)
  BY FreshIdFacts DEF InsertCall
<1>4. /\ Sound(seq') /\ Len(seq') = Len(seq) + 1
      /\ IdsOf(seq) \subseteq IdsOf(seq') /\ FreshId \in IdsOf(seq')
      /\ \A j \in 1..Len(seq') : Incomplete(seq'[j]) =>
           \/ seq'[j].id = FreshId
           \/ \E i \in 1..Len(seq) : Incomplete(seq[i]) /\ seq'[j].id = seq[i].id
  <2>1. /\ seq' = InsertAt(Filled(seq, Here, Slot, Output(FreshId)), Here, NewCall(FreshId, api))
        /\ api \in Makes[Sig[seq[Here].api][Slot]]
    BY <1>1, <1>2
  <2> DEFINE h == Here
             k == Slot
             id == FreshId
  <2>2. /\ seq' = InsertAt(Filled(seq, h, k, Output(id)), h, NewCall(id, api))
        /\ api \in Makes[Sig[seq[h].api][k]] /\ Sound(seq)
        /\ h \in 1..Len(seq) /\ k \in DOMAIN seq[h].args /\ id \in Ids /\ id \notin IdsOf(seq)
    BY <1>2, <1>3, <2>1
  <2> HIDE DEF h, k, id
  <2>3. /\ Sound(seq') /\ Len(seq') = Len(seq) + 1
        /\ IdsOf(seq) \subseteq IdsOf(seq') /\ id \in IdsOf(seq')
        /\ \A j \in 1..Len(seq') : Incomplete(seq'[j]) =>
             \/ seq'[j].id = id
             \/ \E i \in 1..Len(seq) : Incomplete(seq[i]) /\ seq'[j].id = seq[i].id
    BY <2>2, InsertKeeps
  <2> QED BY <2>3 DEF id
<1>5. worklist' \in Seq(Ids) /\ ToSet(worklist') = ToSet(worklist) \cup {FreshId}
  BY <1>3, AppendSet DEF InsertCall, IInv, WorkInv
<1>6. WorkInv'
  BY <1>4, <1>5 DEF IInv, WorkInv
<1>7. CorpusInv' /\ PhaseInv'
  BY DEF IInv, CorpusInv, PhaseInv, Filling, InsertCall
<1> QED BY <1>4, <1>6, <1>7 DEF IInv

LEMMA CallDoneStep == IInv /\ CallDone => IInv'
<1> SUFFICES ASSUME IInv, CallDone PROVE IInv'
  OBVIOUS
<1>1. Here \in 1..Len(seq) /\ seq[Here].id = Head(worklist) /\ ~Incomplete(seq[Here])
  BY HereFacts DEF CallDone
<1>2. worklist \in Seq(Ids) /\ worklist # <<>> /\ worklist' = Tail(worklist)
  BY DEF CallDone, IInv, WorkInv
<1>3. worklist' \in Seq(Ids) /\ ToSet(worklist) = ToSet(worklist') \cup {Head(worklist)}
  <2>1. /\ worklist' \in Seq(Ids) /\ Len(worklist') = Len(worklist) - 1
        /\ \A i \in 1..Len(worklist') : worklist'[i] = worklist[i + 1]
        /\ Len(worklist) \in Nat \ {0} /\ Head(worklist) = worklist[1]
    BY <1>2, HeadTailProperties, EmptySeq
  <2>2. DOMAIN worklist = 1..Len(worklist) /\ DOMAIN worklist' = 1..(Len(worklist) - 1)
    BY <1>2, <2>1, LenProperties
  <2>3. \A i \in DOMAIN worklist : i = 1 \/ (i - 1 \in DOMAIN worklist' /\ worklist'[i - 1] = worklist[i])
    BY <2>1, <2>2
  <2>4. \A i \in DOMAIN worklist' : i + 1 \in DOMAIN worklist /\ worklist'[i] = worklist[i + 1]
    BY <2>1, <2>2
  <2>5. 1 \in DOMAIN worklist
    BY <2>1, <2>2
  <2>6. ToSet(worklist) \subseteq ToSet(worklist') \cup {Head(worklist)}
    BY <2>1, <2>3 DEF ToSet
  <2>7. ToSet(worklist') \cup {Head(worklist)} \subseteq ToSet(worklist)
    BY <2>1, <2>4, <2>5 DEF ToSet
  <2> QED BY <2>1, <2>6, <2>7
<1>4. ASSUME NEW i \in 1..Len(seq), Incomplete(seq[i])
      PROVE  seq[i].id \in ToSet(worklist')
  <2>1. seq[i].id \in ToSet(worklist) /\ i # Here
    BY <1>1, <1>4 DEF IInv, WorkInv
  <2>2. seq[i].id # Head(worklist)
    BY <1>1, <2>1 DEF IInv, Sound, IdsDiffer
  <2> QED BY <1>3, <2>1, <2>2
<1>5. WorkInv'
  BY <1>3, <1>4 DEF CallDone, IInv, WorkInv
<1>6. CorpusInv' /\ PhaseInv' /\ Sound(seq')
  BY DEF IInv, CorpusInv, PhaseInv, CallDone
<1> QED BY <1>5, <1>6 DEF IInv

LEMMA CompletionStep == IInv /\ Completion => IInv'
<1>1. IInv /\ Completed => IInv'
  BY DEF IInv, CorpusInv, WorkInv, PhaseInv, Completed
<1> QED BY <1>1, ReuseStep, InsertCallStep, UseConstantStep, CallDoneStep DEF Completion

-----------------------------------------------------------------------------
(* Steps that start a sequence.                                            *)

LEMMA CompleteStep ==
  ASSUME IInv, NEW s, Sound(s), Complete(s), UNCHANGED <<mode, fuzzing, corpus>>
  PROVE  IInv'
<1>1. /\ Todo(s) \in Seq(Ids) /\ ToSet(Todo(s)) \subseteq IdsOf(s)
      /\ \A i \in 1..Len(s) : Incomplete(s[i]) => s[i].id \in ToSet(Todo(s))
  BY TodoFacts DEF Sound
<1>2. seq' = s /\ worklist' = Todo(s) /\ limit' = MaxSeqLen /\ pc' = "filling"
  BY DEF Complete
<1>3. WorkInv'
  BY <1>1, <1>2 DEF WorkInv
<1>4. CorpusInv' /\ PhaseInv'
  BY <1>2 DEF IInv, CorpusInv, PhaseInv
<1> QED BY <1>2, <1>3, <1>4 DEF IInv

LEMMA MadeStep ==
  ASSUME IInv, pc = "idle", NEW s, Sound(s), Whole(s), Made(s)
  PROVE  IInv'
<1>1. seq' = s /\ pc' = "made" /\ UNCHANGED <<worklist, limit, corpus>> /\ worklist = <<>>
  BY DEF Made, IInv, PhaseInv
<1>2. WorkInv'
  BY <1>1, EmptySeq DEF WorkInv, Whole, ToSet
<1>3. CorpusInv' /\ PhaseInv'
  BY <1>1 DEF IInv, CorpusInv, PhaseInv
<1> QED BY <1>1, <1>2, <1>3 DEF IInv

LEMMA CreateStep == IInv /\ Create => IInv'
<1> SUFFICES ASSUME IInv, Create PROVE IInv'
  OBVIOUS
<1>1. PICK api \in Apis : seq' = <<NewCall(FreshId, api)>>
  BY DEF Create
<1>2. FreshId \in Ids
  BY FreshIdFacts DEF Create
<1>3. Sound(seq') /\ IdsOf(seq') = {FreshId}
  BY <1>1, <1>2, NewCallSound
<1>4. WorkInv'
  <2>1. worklist' = <<FreshId>> /\ ToSet(<<FreshId>>) = {FreshId}
    BY DEF Create, ToSet
  <2>2. worklist' \in Seq(Ids)
    BY <1>2, <2>1
  <2>3. \A i \in 1..Len(seq') : seq'[i].id = FreshId
    BY <1>3 DEF IdsOf
  <2> QED BY <1>3, <2>1, <2>2, <2>3 DEF WorkInv
<1>5. CorpusInv' /\ PhaseInv'
  BY DEF IInv, CorpusInv, PhaseInv, Create
<1> QED BY <1>3, <1>4, <1>5 DEF IInv

LEMMA CreateSingleStep == IInv /\ CreateSingle => IInv'
<1> SUFFICES ASSUME IInv, CreateSingle PROVE IInv'
  OBVIOUS
<1>0. PICK api \in Apis :
        /\ \A k \in 1..Len(Sig[api]) : Sig[api][k] \in ConstAble
        /\ \E f \in [1..Len(Sig[api]) -> AllSamples] :
             /\ \A k \in DOMAIN f : f[k] \in Samples[Sig[api][k]]
             /\ Made(<<Call(FreshId, api, [k \in DOMAIN f |-> Constant(f[k])])>>)
  BY DEF CreateSingle
<1>1. PICK f \in [1..Len(Sig[api]) -> AllSamples] :
        /\ \A k \in DOMAIN f : f[k] \in Samples[Sig[api][k]]
        /\ Made(<<Call(FreshId, api, [k \in DOMAIN f |-> Constant(f[k])])>>)
  BY <1>0
<1> DEFINE args == [k \in DOMAIN f |-> Constant(f[k])]
           call == Call(FreshId, api, args)
<1>2. FreshId \in Ids /\ Len(Sig[api]) \in Nat /\ \A k \in 1..Len(Sig[api]) : Sig[api][k] \in Types
  BY FreshIdFacts, SigFacts DEF CreateSingle
<1>3. \A k \in 1..Len(Sig[api]) :
        /\ args[k] = Constant(f[k]) /\ f[k] \in Samples[Sig[api][k]]
        /\ Sig[api][k] \in ConstAble /\ args[k] \in Args
  BY <1>0, <1>1, <1>2, ArgTypes
<1>4. args \in Seq(Args) /\ Len(args) = Len(Sig[api]) /\ DOMAIN args = 1..Len(Sig[api])
  <2>1. args \in [1..Len(Sig[api]) -> Args]
    BY <1>3
  <2> HIDE DEF args
  <2> QED BY <1>2, <2>1, FunctionIsSeq
<1> HIDE DEF args
<1>5. call \in Calls /\ call.api = api /\ call.args = args
  BY <1>2, <1>4 DEF Call, Calls
<1>6. Made(<<call>>)
  BY <1>1 DEF args
<1> HIDE DEF call
<1>7. Sound(<<call>>)
  BY <1>3, <1>4, <1>5, SingleSound
<1>8. Whole(<<call>>)
  <2>1. Len(<<call>>) = 1 /\ <<call>>[1] = call
    OBVIOUS
  <2> QED BY <1>3, <1>4, <1>5, <2>1, ArgTags DEF Whole, Incomplete, Slots
<1>9. pc = "idle"
  BY DEF CreateSingle, Ready
<1> QED BY <1>6, <1>7, <1>8, <1>9, MadeStep

LEMMA EvaluateStep == IInv /\ Evaluate => IInv'
<1> SUFFICES ASSUME IInv, Evaluate PROVE IInv'
  OBVIOUS
<1>1. worklist' = <<>> /\ seq' = <<>> /\ pc' = "idle" /\ limit' = limit
  BY DEF Evaluate, IInv, PhaseInv
<1>2. Whole(seq)
  <2>1. worklist = <<>> /\ ToSet(<<>>) = {}
    BY DEF Evaluate, IInv, PhaseInv, ToSet
  <2> QED BY <2>1 DEF IInv, WorkInv, Whole
<1>3. corpus' \subseteq corpus \cup {seq}
  BY DEF Evaluate
<1>4. CorpusInv'
  BY <1>2, <1>3 DEF IInv, CorpusInv
<1>5. Sound(seq') /\ WorkInv' /\ PhaseInv'
  BY <1>1, EmptySound, EmptySeq DEF WorkInv, PhaseInv, IInv, ToSet
<1> QED BY <1>4, <1>5 DEF IInv

-----------------------------------------------------------------------------
(* Mutations.                                                              *)

LEMMA SpliceSeqStep == IInv /\ SpliceSeq => IInv'
<1> SUFFICES ASSUME IInv, SpliceSeq PROVE IInv'
  OBVIOUS
<1>1. PICK s \in corpus : \E i \in 1..Len(s) : Complete(Without(s, i))
  BY DEF SpliceSeq
<1>2. PICK i \in 1..Len(s) : Complete(Without(s, i))
  BY <1>1
<1>3. Sound(Without(s, i))
  BY WithoutKeeps DEF IInv, CorpusInv
<1> QED BY <1>2, <1>3, CompleteStep DEF SpliceSeq

LEMMA RemovePrefixSeqStep == IInv /\ RemovePrefixSeq => IInv'
<1> SUFFICES ASSUME IInv, RemovePrefixSeq PROVE IInv'
  OBVIOUS
<1>1. PICK s \in corpus : Len(s) >= 2 /\ Complete(Without(s, 1))
  BY DEF RemovePrefixSeq
<1>2. Sound(s) /\ 1 \in 1..Len(s)
  BY <1>1, CallFacts DEF IInv, CorpusInv, Sound
<1>3. Sound(Without(s, 1))
  BY <1>2, WithoutKeeps
<1> QED BY <1>1, <1>3, CompleteStep DEF RemovePrefixSeq

LEMMA ExtendSeqStep == IInv /\ ExtendSeq => IInv'
<1> SUFFICES ASSUME IInv, ExtendSeq PROVE IInv'
  OBVIOUS
<1>1. PICK s \in corpus, api \in Apis : Complete(Append(s, NewCall(FreshId, api)))
  BY DEF ExtendSeq
<1>2. FreshId \in Ids /\ FreshId \notin IdsOf(s) /\ Sound(s)
  BY FreshIdFacts DEF ExtendSeq, IInv, CorpusInv
<1>3. Sound(Append(s, NewCall(FreshId, api)))
  BY <1>2, AppendKeeps
<1> QED BY <1>1, <1>3, CompleteStep DEF ExtendSeq

LEMMA RemoveSuffixSeqStep == IInv /\ RemoveSuffixSeq => IInv'
<1> SUFFICES ASSUME IInv, RemoveSuffixSeq PROVE IInv'
  OBVIOUS
<1>1. PICK s \in corpus : Len(s) >= 2 /\ Made(Front(s))
  BY DEF RemoveSuffixSeq
<1>2. Sound(s) /\ Whole(s) /\ Len(s) \in Nat /\ Len(s) - 1 \in 0..Len(s)
  BY <1>1, CallFacts DEF IInv, CorpusInv, Sound
<1>3. /\ Sound(Front(s)) /\ Len(Front(s)) = Len(s) - 1
      /\ \A j \in 1..(Len(s) - 1) : Front(s)[j] = s[j]
  BY <1>2, PrefixKeeps DEF Front
<1>4. Whole(Front(s))
  BY <1>2, <1>3 DEF Whole
<1>5. pc = "idle"
  BY DEF RemoveSuffixSeq, Mutating, Ready
<1> QED BY <1>1, <1>3, <1>4, <1>5, MadeStep

LEMMA CrossoverStep == IInv /\ Crossover => IInv'
<1> SUFFICES ASSUME IInv, Crossover PROVE IInv'
  OBVIOUS
<1>1. PICK s \in corpus, other \in corpus :
        /\ Cardinality(UnusedIds) >= Len(other)
        /\ \E n \in 0..Len(s), from \in 1..(Len(other) + 1) :
             Complete(SubSeq(s, 1, n) \o SuffixOf(Renamed(other), from))
  BY DEF Crossover
<1>2. PICK n \in 0..Len(s), from \in 1..(Len(other) + 1) :
        Complete(SubSeq(s, 1, n) \o SuffixOf(Renamed(other), from))
  BY <1>1
<1> DEFINE r == Renamed(other)
           head == SubSeq(s, 1, n)
           tail == SuffixOf(r, from)
<1>3. Sound(s) /\ Sound(other)
  BY DEF IInv, CorpusInv
<1>4. Sound(r) /\ Len(r) = Len(other) /\ IdsOf(r) \subseteq UnusedIds
  BY <1>1, <1>3, RenamedKeeps
<1>5. Sound(head) /\ IdsOf(head) \subseteq IdsOf(s)
  BY <1>3, PrefixKeeps
<1> HIDE DEF r, head
<1>6. Sound(tail) /\ IdsOf(tail) \subseteq UnusedIds
  BY <1>4, SuffixKeeps
<1>7. IdsOf(s) \cap UnusedIds = {}
  BY DEF UnusedIds
<1> HIDE DEF tail
<1>8. Sound(head \o tail)
  BY <1>5, <1>6, <1>7, JoinKeeps
<1>9. Complete(head \o tail)
  BY <1>2 DEF r, head, tail
<1> QED BY <1>8, <1>9, CompleteStep DEF Crossover

LEMMA ConstTypesStep == IInv /\ ConstTypes => IInv'
<1> SUFFICES ASSUME IInv, ConstTypes PROVE IInv'
  OBVIOUS
<1>1. PICK s \in corpus : \E f \in [ConstSlots(s) -> AllSamples] :
        /\ \A p \in DOMAIN f : f[p] \in Samples[Sig[s[p[1]].api][p[2]]]
        /\ Made(Resampled(s, f))
  BY DEF ConstTypes, Resampled
<1>2. PICK f \in [ConstSlots(s) -> AllSamples] :
        /\ \A p \in DOMAIN f : f[p] \in Samples[Sig[s[p[1]].api][p[2]]]
        /\ Made(Resampled(s, f))
  BY <1>1
<1>3. Sound(s) /\ Whole(s)
  BY DEF IInv, CorpusInv
<1>4. /\ Sound(Resampled(s, f)) /\ Len(Resampled(s, f)) = Len(s)
      /\ \A i \in 1..Len(s) : Incomplete(Resampled(s, f)[i]) => Incomplete(s[i])
  BY <1>2, <1>3, ResampleKeeps
<1>5. Whole(Resampled(s, f))
  BY <1>3, <1>4 DEF Whole
<1>6. pc = "idle"
  BY DEF ConstTypes, Ready
<1> QED BY <1>2, <1>4, <1>5, <1>6, MadeStep

LEMMA FuzzSeqConstsStep == IInv /\ FuzzSeqConsts => IInv'
<1> SUFFICES ASSUME IInv, FuzzSeqConsts PROVE IInv'
  OBVIOUS
<1>1. PICK s \in corpus : Made(s)
  BY DEF FuzzSeqConsts
<1>2. Sound(s) /\ Whole(s) /\ pc = "idle"
  BY DEF IInv, CorpusInv, FuzzSeqConsts, Ready
<1> QED BY <1>1, <1>2, MadeStep

LEMMA NextInv == IInv /\ [Next]_vars => IInv'
<1>1. IInv /\ UNCHANGED vars => IInv'
  BY DEF IInv, CorpusInv, WorkInv, PhaseInv, vars
<1>2. IInv /\ StartFuzzing => IInv'
  BY DEF IInv, CorpusInv, WorkInv, PhaseInv, StartFuzzing
<1> QED BY <1>1, <1>2, CompletionStep, CreateStep, CreateSingleStep, EvaluateStep, SpliceSeqStep,
           ExtendSeqStep, RemoveSuffixSeqStep, RemovePrefixSeqStep, CrossoverStep,
           ConstTypesStep, FuzzSeqConstsStep DEF Next

-----------------------------------------------------------------------------
(* The results.                                                            *)

LEMMA Invariance == Spec => []IInv
BY InitInv, NextInv, PTL DEF Spec

(* Whatever is generated, removed, spliced and filled in, what is executed *)
(* and what is kept is valid: the debug assertions of mutations.rs and     *)
(* seq.rs would hold in release builds as well.                            *)
THEOREM InputsAreValid == Spec => []ValidInputs
BY Invariance, InvImplies, PTL

(* No unwrap, index or assertion of the completion and the mutators fails. *)
THEOREM NeverPanics == Spec => []PanicFree
BY Invariance, InvImplies, PTL

(* Every argument is one that its place in the signature takes.            *)
THEOREM ArgumentsAreTyped == Spec => []ArgumentsFit
BY Invariance, InvImplies, PTL

(* A completion loses no incomplete call and keeps the order of outputs.   *)
THEOREM WorklistIsComplete == Spec => []WorklistCovers
BY Invariance, InvImplies, PTL

(* A completion grows a sequence beyond the limit only where it must.      *)
LEMMA GrowthStep ==
  ASSUME IInv, [Next]_vars, pc = "filling", Len(seq') > Len(seq), Len(seq) >= limit
  PROVE  Need \notin ConstAble /\ Suppliers = {}
<1>1. Len(seq) \in Nat
  BY CallFacts DEF IInv, Sound
<1>2. ASSUME Filling, NEW arg \in Args, seq' = Fill(arg) PROVE FALSE
  <2>1. seq' = Filled(seq, Here, Slot, arg) /\ Here \in 1..Len(seq) /\ Slot \in DOMAIN seq[Here].args
    BY <1>2, SlotFacts
  <2>2. Len(seq') = Len(seq)
    BY <2>1, FillFacts DEF IInv, Sound
  <2> QED BY <1>1, <2>2
<1>3. CASE Reuse
  <2>1. PICK j \in 1..(Here - 1) : seq' = Fill(Output(seq[j].id))
    BY <1>3 DEF Reuse, Suppliers
  <2>2. Filling /\ Here \in 1..Len(seq)
    BY <1>3, SlotFacts DEF Reuse
  <2>3. seq[j].id \in Ids
    <3>1. \A i \in 1..Len(seq) : seq[i].id \in Ids
      BY CallFacts DEF IInv, Sound
    <3> QED BY <1>1, <2>2, <3>1
  <2> QED BY <1>2, <2>1, <2>2, <2>3, ArgTypes
<1>4. CASE UseConstant
  <2>1. PICK c \in Samples[Need] : seq' = Fill(Constant(c))
    BY <1>4 DEF UseConstant
  <2>2. Filling /\ Need \in Types
    BY <1>4, SlotFacts DEF UseConstant
  <2> QED BY <1>2, <2>1, <2>2, ArgTypes
<1>5. CASE InsertCall
  BY <1>5 DEF InsertCall, WantsCall, Strategies
<1>6. CASE seq' = seq
  BY <1>1, <1>6
<1> QED BY <1>3, <1>4, <1>5, <1>6
        DEF Next, Completion, CallDone, Completed, Create, CreateSingle, StartFuzzing, Evaluate,
            SpliceSeq, ExtendSeq, RemoveSuffixSeq, RemovePrefixSeq, Crossover, ConstTypes,
            FuzzSeqConsts, Mutating, Ready, vars

THEOREM GrowthForced == Spec => GrowthIsForced
<1>1. IInv /\ [Next]_vars =>
        [pc = "filling" /\ Len(seq') > Len(seq) /\ Len(seq) >= limit
           => Need \notin ConstAble /\ Suppliers = {}]_vars
  BY GrowthStep
<1> QED BY <1>1, Invariance, PTL DEF Spec, GrowthIsForced

=============================================================================
