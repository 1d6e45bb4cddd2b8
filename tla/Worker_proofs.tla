---------------------------- MODULE Worker_proofs ---------------------------
(***************************************************************************)
(* Machine-checked proofs about the worker: about the schema it loads when *)
(* it starts (Loading), for all libraries, modes and configurations, and   *)
(* about how it serves its client (Worker), for any number of processes    *)
(* and invocations and any behaviour of the target.  The two share no      *)
(* variable.                                                               *)
(***************************************************************************)
EXTENDS Worker, Loading, Inductions

-----------------------------------------------------------------------------
(* Loading.                                                                *)

(* What importing the libraries, or their rewritten texts, gives.          *)
Images == {l.original : l \in Libraries} \cup {l.rewritten : l \in Libraries}

(* The references of an image, and an item the i-th of the first n of      *)
(* them may add to a schema S: neither hidden nor to be skipped.           *)
Refs(l) == References(l.values, l.main)
ItemsAt(l, S, i) == Items(l.values, S, Refs(l)[i][1], Refs(l)[i][2])
Open(item, x) == ~item.hidden /\ item.id \notin x
Handled(l, x, S, n, i) == i \in 1..n /\ Refs(l)[i][1] \notin x /\ Refs(l)[i][1] \in DOMAIN S
Adds(l, x, S, n, i, j) ==
  /\ Handled(l, x, S, n, i) /\ j \in DOMAIN ItemsAt(l, S, i) /\ Open(ItemsAt(l, S, i)[j], x)

(* The signatures of the built-ins keep their conventions.                 *)
StdKept(S) == \A id \in DOMAIN S \cap StdNames : S[id].callconv = StdSchema[id].callconv

(* The items whose names the schema has are what they must be.             *)
Agrees(l, x, S) ==
  \A i, j \in Nat : Adds(l, x, S, Len(Refs(l)), i, j) =>
    LET item == ItemsAt(l, S, i)[j]
    IN item.id \in DOMAIN S => S[item.id].callconv \in item.expected

(* An entry is a built-in or comes from a reference.                       *)
Reached(l, x, S, n) ==
  \A id \in DOMAIN S \ StdNames :
    \E i, j \in Nat : Adds(l, x, S, n, i, j) /\ ItemsAt(l, S, i)[j].id = id

(* All items have an entry.                                                *)
Complete(l, x, S, n) ==
  /\ \A i \in 1..n : Refs(l)[i][1] \notin x => Refs(l)[i][1] \in DOMAIN S
  /\ \A i, j \in Nat : Adds(l, x, S, n, i, j) => ItemsAt(l, S, i)[j].id \in DOMAIN S

KnowsNothing(S) == \A id \in DOMAIN S \ StdNames : IsNoInfoSignature(S[id])

(* A schema that has been joined with the endpoints.                       *)
Joined(l, x, m, S) ==
  /\ IsSchema(S) /\ StdKept(S)
  /\ Agrees(l, x, AddStd(S)) /\ Reached(l, x, S, Len(Refs(l)))
  /\ m = "dynamic" =>
       StdNames \subseteq DOMAIN S /\ KnowsNothing(S) /\ Complete(l, x, S, Len(Refs(l)))

-----------------------------------------------------------------------------
(* The invariant.  While the references are mapped, h of them have been,   *)
(* which has made the state s.                                             *)
IsState(s) ==
  /\ s = [schema |-> s.schema, endpoints |-> s.endpoints, failed |-> s.failed]
  /\ s.schema = [id \in DOMAIN s.schema |-> s.schema[id]]
Partly(l, x, onlyKnown, s, h) ==
  LET S == s.schema  E == s.endpoints
  IN /\ IsState(s) /\ ~s.failed /\ Conventional(S) /\ StdKept(S)
     /\ StdNames \subseteq DOMAIN S /\ StdNames \subseteq DOMAIN E
     /\ \A id \in DOMAIN E \ StdNames :
          \E i, j \in Nat : Adds(l, x, S, h, i, j) /\ ItemsAt(l, S, i)[j].id = id
     /\ \A i, j \in Nat : Adds(l, x, S, h, i, j) =>
          LET item == ItemsAt(l, S, i)[j]
          IN /\ item.id \in DOMAIN S => item.id \in DOMAIN E /\ S[item.id].callconv \in item.expected
             /\ ~onlyKnown => item.id \in DOMAIN S
     /\ ~onlyKnown => \A i \in 1..h : Refs(l)[i][1] \notin x => Refs(l)[i][1] \in DOMAIN S
MapsTo(h) ==
  /\ h \in 0..Len(Refs(Image)) /\ todo = SubSeq(Refs(Image), h + 1, Len(Refs(Image)))
  /\ Partly(Image, skip, Options.onlyKnown, st, h)
  /\ mode = "dynamic" /\ round = "infer" => KnowsNothing(st.schema)
  /\ round = "load" => st.schema = AddStd(saved)

Stages == {"derive", "transform", "reflect", "map", "static", "validate", "written", "loaded", "failed"}
LoadingInv ==
  /\ lib \in Libraries /\ round \in {"infer", "load"} /\ stage \in Stages
  /\ IsSchema(st.schema)
  /\ \A m \in DOMAIN files : Joined(ImageFor(m), skip, m, files[m])
  /\ stage = "derive" => round = "infer" /\ mode = "decl"
  /\ stage = "transform" => round = "infer" /\ mode = "syntest" /\ st.schema = NoField
  /\ stage = "reflect" /\ round = "infer" /\ mode # "decl" => st.schema = NoField
  /\ stage = "map" => \E h \in Nat : MapsTo(h)
  /\ stage = "static" => mode = "syntest"
  /\ stage \in {"static", "validate", "written"} => round = "infer" /\ Joined(ImageFor(mode), skip, mode, st.schema)
  /\ stage = "written" => saved = st.schema
  /\ round = "load" => Joined(ImageFor(mode), skip, mode, saved) /\ stage \in {"reflect", "map", "loaded", "failed"}
  /\ stage = "reflect" /\ round = "load" => st.schema = saved
  /\ LoadKeeps

-----------------------------------------------------------------------------
(* The references.                                                         *)

Keys1 == Seq(STRING)
Fns(values) == {v \in DOMAIN values : IsFn(values, v)}
Ref(values) == Keys1 \X Fns(values)

LEMMA Flattened ==
  ASSUME NEW S, NEW s \in Seq(Seq(S))
  PROVE  FlattenSeq(s) \in Seq(S)
<1>1. Len(s) \in Nat /\ \A i \in 1..Len(s) : s[i] \in Seq(S)
  BY LenProperties, ElementOfSeq
<1>2. CASE Len(s) = 0
  <2>1. s = <<>>
    BY <1>2, EmptySeq
  <2>2. FlattenSeq(s) = s
    BY <1>2 DEF FlattenSeq
  <2>3. <<>> \in Seq(S)
    OBVIOUS
  <2> QED BY <2>1, <2>2, <2>3, Zenon
<1>3. CASE Len(s) # 0
  <2>1. PICK f : /\ FlattenSeq(s) = f[Len(s)] /\ f[1] = s[1]
                 /\ \A i \in 2..Len(s) : f[i] = f[i - 1] \o s[i]
    BY <1>1, <1>3, FlattenDefined
  <2> DEFINE Good == {n \in Nat : n + 1 \in 1..Len(s) => f[n + 1] \in Seq(S)}
  <2>2. 0 \in Good
    BY <1>1, <2>1
  <2>3. ASSUME NEW n \in Nat, n \in Good PROVE n + 1 \in Good
    <3> SUFFICES ASSUME (n + 1) + 1 \in 1..Len(s) PROVE f[(n + 1) + 1] \in Seq(S)
      OBVIOUS
    <3>1. n + 1 \in 1..Len(s) /\ (n + 1) + 1 \in 2..Len(s) /\ ((n + 1) + 1) - 1 = n + 1
      BY <1>1
    <3>2. f[n + 1] \in Seq(S) /\ s[(n + 1) + 1] \in Seq(S)
      BY <1>1, <2>3, <3>1
    <3>3. f[(n + 1) + 1] = f[n + 1] \o s[(n + 1) + 1]
      BY <2>1, <3>1
    <3> QED BY <3>2, <3>3, Concatenated
  <2>4. Len(s) - 1 \in Good
    <3>1. Nat \subseteq Good
      <4> HIDE DEF Good
      <4> QED BY <2>2, <2>3, Induction
    <3>2. Len(s) - 1 \in Nat
      BY <1>1, <1>3
    <3> HIDE DEF Good
    <3> QED BY <3>1, <3>2
  <2>5. Len(s) - 1 \in Nat /\ (Len(s) - 1) + 1 = Len(s) /\ Len(s) \in 1..Len(s)
    BY <1>1, <1>3
  <2> QED BY <2>1, <2>4, <2>5
<1> QED BY <1>2, <1>3

LEMMA PropsAreProperties ==
  ASSUME NEW values, NEW main, ImageOK(values, main), NEW o \in DOMAIN values
  PROVE  Props(values, o) \in Seq(PropertiesTo(DOMAIN values))
<1>1. CASE values[o].tag \in {"function", "object"}
  <2>1. Props(values, o) = values[o].props
    BY <1>1 DEF Props
  <2> QED BY <1>1, <2>1 DEF ImageOK
<1>2. CASE values[o].tag \notin {"function", "object"}
  <2>1. Props(values, o) = <<>>
    BY <1>2 DEF Props
  <2> QED BY <2>1
<1> QED BY <1>1, <1>2

LEMMA OneIsSeq == ASSUME NEW S, NEW x \in S PROVE <<x>> \in Seq(S)
OBVIOUS

(* What is found below a property is found under the property's name.      *)
LEMMA InsideIsFound ==
  ASSUME NEW values, NEW name \in STRING, NEW found \in Seq(Ref(values))
  PROVE  Inside(name, found) \in Seq(Ref(values))
<1>1. \A e \in Ref(values) : <<<<name>> \o e[1], e[2]>> \in Ref(values)
  <2>1. ASSUME NEW e \in Ref(values) PROVE <<<<name>> \o e[1], e[2]>> \in Ref(values)
    <3>1. e[1] \in Seq(STRING) /\ e[2] \in Fns(values)
      BY DEF Ref, Keys1
    <3>0. <<name>> \in Seq(STRING)
      BY OneIsSeq
    <3>2. <<name>> \o e[1] \in Seq(STRING)
      BY <3>0, <3>1, Concatenated
    <3> QED BY <3>1, <3>2 DEF Ref, Keys1
  <2> QED BY <2>1
<1> DEFINE f == [e \in Ref(values) |-> <<<<name>> \o e[1], e[2]>>]
           each == [k \in DOMAIN found |-> f[found[k]]]
<1>2. \A e \in Ref(values) : f[e] \in Ref(values) /\ f[e] = <<<<name>> \o e[1], e[2]>>
  BY <1>1
<1>3. each \in Seq(Ref(values))
  <2> HIDE DEF f
  <2> QED BY <1>2, EachIsSeq
<1>4. \A k \in DOMAIN found : found[k] \in Ref(values)
  BY LenProperties, ElementOfSeq
<1>5. Inside(name, found) = each
  <2> HIDE DEF Ref
  <2>1. \A k \in DOMAIN found : f[found[k]] = <<<<name>> \o found[k][1], found[k][2]>>
    BY <1>2, <1>4
  <2> HIDE DEF f
  <2> QED BY <2>1 DEF Inside, Mapped
<1> QED BY <1>3, <1>5

(* What is found on the values, one level further.                         *)
LEMMA FurtherIsFound ==
  ASSUME NEW values, NEW main, ImageOK(values, main), NEW y \in [DOMAIN values -> Seq(Ref(values))]
  PROVE  Further(values, y) \in [DOMAIN values -> Seq(Ref(values))]
<1> SUFFICES ASSUME NEW o \in DOMAIN values
             PROVE  FlattenSeq([i \in DOMAIN Props(values, o) |-> FoundAt(values, y, Props(values, o)[i])])
                      \in Seq(Ref(values))
  BY DEF Further, Mapped
<1> DEFINE P == PropertiesTo(DOMAIN values)
           ps == Props(values, o)
           f == [p \in P |-> FoundAt(values, y, p)]
<1>1. ps \in Seq(P)
  BY PropsAreProperties
<1>2. \A p \in P : FoundAt(values, y, p) \in Seq(Ref(values))
  <2>1. ASSUME NEW p \in P PROVE FoundAt(values, y, p) \in Seq(Ref(values))
    <3>1. p.name \in STRING /\ p.value \in DOMAIN values
      BY DEF PropertiesTo
    <3>2. CASE values[p.value].tag = "function"
      <4>1. <<p.name>> \in Seq(STRING) /\ p.value \in Fns(values)
        BY <3>1, <3>2, OneIsSeq DEF Fns, IsFn
      <4>2. <<<<p.name>>, p.value>> \in Ref(values)
        BY <4>1 DEF Ref, Keys1
      <4>3. FoundAt(values, y, p) = <<<<<<p.name>>, p.value>>>>
        BY <3>2 DEF FoundAt
      <4> HIDE DEF P
      <4> QED BY <4>2, <4>3
    <3>3. CASE values[p.value].tag = "object"
      <4>1. FoundAt(values, y, p) = Inside(p.name, y[p.value])
        BY <3>3 DEF FoundAt
      <4>2. y[p.value] \in Seq(Ref(values))
        BY <3>1
      <4> QED BY <3>1, <4>1, <4>2, InsideIsFound
    <3>4. CASE values[p.value].tag \notin {"function", "object"}
      <4>1. FoundAt(values, y, p) = <<>>
        BY <3>4 DEF FoundAt
      <4> QED BY <4>1
    <3> QED BY <3>2, <3>3, <3>4
  <2> QED BY <2>1
<1>3. \A p \in P : f[p] = FoundAt(values, y, p)
  OBVIOUS
<1>4. \A i \in DOMAIN ps : ps[i] \in P
  BY <1>1, LenProperties, ElementOfSeq
<1> HIDE DEF P, f, ps
<1>5. [i \in DOMAIN ps |-> f[ps[i]]] \in Seq(Seq(Ref(values)))
  <2>1. \A p \in P : f[p] \in Seq(Ref(values))
    BY <1>2, <1>3
  <2> QED BY <1>1, <2>1, EachIsSeq
<1>6. [i \in DOMAIN ps |-> f[ps[i]]] = [i \in DOMAIN ps |-> FoundAt(values, y, ps[i])]
  BY <1>3, <1>4
<1> QED BY <1>5, <1>6, Flattened DEF ps

LEMMA FunctionsAreRefs ==
  ASSUME NEW values, NEW main, ImageOK(values, main)
  PROVE  FunctionsOn(values) \in [DOMAIN values -> Seq(Ref(values))]
<1> DEFINE S == [DOMAIN values -> Seq(Ref(values))]
           x == [o \in DOMAIN values |-> <<>>]
           Body(g, n) == IF n = 0 THEN x ELSE Further(values, g[n - 1])
           on == CHOOSE g : g = [n \in 0..MaxMappingDepth |-> Body(g, n)]
           step == [n \in 1..MaxMappingDepth |-> [y \in S |-> Further(values, y)]]
<1>1. FunctionsOn(values) = on[MaxMappingDepth]
  BY DEF FunctionsOn
<1>2. MaxMappingDepth \in Nat /\ x \in S
  BY ReflectionAssumption
<1>3. \A n \in 1..MaxMappingDepth : \A y \in S : step[n][y] = Further(values, y) /\ Further(values, y) \in S
  BY FurtherIsFound
<1>4. PICK f \in [0..MaxMappingDepth -> S] : Iterates(f, 0..MaxMappingDepth, x, step)
  <2>1. \A n \in 1..MaxMappingDepth : \A y \in S : step[n][y] \in S
    BY <1>3
  <2> HIDE DEF step, S, x
  <2> QED BY <1>2, <2>1, IterationTo
<1>5. f = [n \in 0..MaxMappingDepth |-> Body(f, n)]
  <2>1. \A n \in 0..MaxMappingDepth : n # 0 => n \in 1..MaxMappingDepth /\ n - 1 \in 0..MaxMappingDepth
    BY <1>2
  <2> HIDE DEF step, x, S
  <2>2. f = [n \in 0..MaxMappingDepth |-> IF n = 0 THEN x ELSE step[n][f[n - 1]]]
    BY <1>4 DEF Iterates
  <2>3. \A n \in 0..MaxMappingDepth : (IF n = 0 THEN x ELSE step[n][f[n - 1]]) = Body(f, n)
    BY <1>3, <1>4, <2>1
  <2> HIDE DEF Body
  <2> QED BY <2>2, <2>3
<1> HIDE DEF Body
<1>6. on = [n \in 0..MaxMappingDepth |-> Body(on, n)]
  BY <1>5
<1> HIDE DEF on
<1>7. \A n \in 0..MaxMappingDepth : on[n] = Body(on, n)
  BY <1>6, Zenon
<1> DEFINE Good == {n \in Nat : n \in 0..MaxMappingDepth => on[n] \in S}
<1>8. 0 \in Good
  BY <1>2, <1>7 DEF Body
<1>9. ASSUME NEW n \in Nat, n \in Good PROVE n + 1 \in Good
  <2> SUFFICES ASSUME n + 1 \in 0..MaxMappingDepth PROVE on[n + 1] \in S
    OBVIOUS
  <2>1. n \in 0..MaxMappingDepth /\ n + 1 # 0 /\ (n + 1) - 1 = n /\ n + 1 \in 1..MaxMappingDepth
    BY <1>2
  <2>2. on[n] \in S
    BY <1>9, <2>1
  <2>3. on[n + 1] = Further(values, on[n])
    BY <1>7, <2>1 DEF Body
  <2> QED BY <1>3, <2>1, <2>2, <2>3
<1>10. Nat \subseteq Good
  <2> HIDE DEF Good
  <2> QED BY <1>8, <1>9, Induction
<1> QED BY <1>1, <1>2, <1>10

LEMMA ImagesAreOK ==
  ASSUME NEW l \in Images
  PROVE  ImageOK(l.values, l.main)
<1>1. PICK k \in Libraries : l \in {k.original, k.rewritten}
  BY DEF Images
<1> QED BY <1>1, LoadingAssumption

LEMMA RefsAreTyped ==
  ASSUME NEW l \in Images
  PROVE  /\ Refs(l) \in Seq(Ref(l.values)) /\ Len(Refs(l)) \in Nat
         /\ \A i \in 1..Len(Refs(l)) : Refs(l)[i][1] \in Keys1 /\ Refs(l)[i][2] \in Fns(l.values)
<1> DEFINE values == l.values  main == l.main
           exports == Default(values, main)
           first == IF IsFn(values, exports) THEN <<<<<<values[exports].name>>, exports>>>> ELSE <<>>
<1>1. ImageOK(values, main)
  BY ImagesAreOK
<1> HIDE DEF values, main
<1>2. exports \in DOMAIN values
  <2> DEFINE ds == {p \in Range(Props(values, main)) : p.name = "default"}
  <2>1. main \in DOMAIN values
    BY <1>1 DEF ImageOK
  <2>2. Props(values, main) \in Seq(PropertiesTo(DOMAIN values))
    BY <1>1, <2>1, PropsAreProperties
  <2>3. \A p \in Range(Props(values, main)) : p \in PropertiesTo(DOMAIN values)
    BY <2>2, LenProperties, ElementOfSeq DEF Range
  <2>4. \A p \in ds : p.value \in DOMAIN values
    BY <2>3 DEF PropertiesTo
  <2>5. ds # {} => (CHOOSE p \in ds : TRUE) \in ds
    OBVIOUS
  <2> HIDE DEF ds
  <2>6. exports = IF values[main].tag = "object" /\ ds # {} THEN (CHOOSE p \in ds : TRUE).value ELSE main
    BY DEF Default, ds
  <2> QED BY <2>1, <2>4, <2>5, <2>6
<1> HIDE DEF exports
<1>3. FunctionsOn(values)[exports] \in Seq(Ref(values))
  BY <1>1, <1>2, FunctionsAreRefs
<1>4. first \in Seq(Ref(values))
  <2>1. CASE IsFn(values, exports)
    <3>1. exports \in Fns(values) /\ <<values[exports].name>> \in Seq(STRING)
      BY <1>1, <1>2, <2>1, OneIsSeq DEF ImageOK, Fns, IsFn
    <3>2. <<<<values[exports].name>>, exports>> \in Ref(values)
      BY <3>1 DEF Ref, Keys1
    <3> QED BY <2>1, <3>2
  <2>2. CASE ~IsFn(values, exports)
    BY <2>2
  <2> QED BY <2>1, <2>2
<1> HIDE DEF first
<1>5. Refs(l) = first \o FunctionsOn(values)[exports]
  BY DEF Refs, References, first, exports, values, main
<1>6. Refs(l) \in Seq(Ref(values)) /\ Len(Refs(l)) \in Nat
  BY <1>3, <1>4, <1>5, Concatenated, LenProperties
<1>7. \A i \in 1..Len(Refs(l)) : Refs(l)[i] \in Ref(values)
  BY <1>6, ElementOfSeq
<1> QED BY <1>6, <1>7 DEF Ref, values

-----------------------------------------------------------------------------
(* The items of a reference.                                               *)

LEMMA FrontOfAppend ==
  ASSUME NEW S, NEW key \in Seq(S), NEW name \in S
  PROVE  Front(Append(key, name)) = key /\ Append(key, name) # key
<1>1. /\ Append(key, name) \in Seq(S) /\ Len(Append(key, name)) = Len(key) + 1 /\ Len(key) \in Nat
      /\ \A i \in 1..Len(key) : Append(key, name)[i] = key[i]
  BY AppendProperties, LenProperties
<1> DEFINE s == Append(key, name)
<1>2. (Len(key) + 1) - 1 = Len(key)
  BY <1>1
<1>3. Front(s) = SubSeq(s, 1, Len(key))
  BY <1>1, <1>2 DEF Front
<1>4. \A i \in 1..Len(key) : s[i] \in S /\ i \in 1..Len(s)
  BY <1>1, ElementOfSeq
<1> HIDE DEF s
<1>5. SubSeq(s, 1, Len(key)) \in Seq(S) /\ Len(SubSeq(s, 1, Len(key))) = Len(key)
      /\ \A i \in 1..Len(key) : SubSeq(s, 1, Len(key))[i] = s[i]
  BY <1>1, <1>4, SubSeqProperties DEF s
<1>6. SubSeq(s, 1, Len(key)) = key
  BY <1>1, <1>5, SeqEqual DEF s
<1>7. s # key
  BY <1>1 DEF s
<1> QED BY <1>3, <1>6, <1>7 DEF s

LEMMA ClassIsCertain == ASSUME NEW c PROVE Certainly(ClassGuess(c), c)
<1>1. At(Certain("Class"), "Class") = One /\ At(Certain(c), c) = One
  BY DEF At, Certain
<1> QED BY <1>1 DEF Certainly, ClassGuess

LEMMA AnysAreAny ==
  ASSUME NEW n \in Nat
  PROVE  Anys(n) \in Seq({AnyGuess}) /\ AllAny(Anys(n)) /\ AnyGuess.isAny
<1>1. Anys(n) \in [1..n -> {AnyGuess}] /\ AnyGuess.isAny
  BY DEF Anys, AnyGuess
<1>2. Anys(n) \in Seq({AnyGuess})
  BY <1>1, FunctionIsSeq
<1> QED BY <1>1, <1>2 DEF AllAny

(* What an item of a reference's key is.                                   *)
ItemOK(item, key) ==
  /\ item.id = key \/ Front(item.id) = key
  /\ item.id = key => /\ item.signature.callconv = "Constructor" <=> IsConstructor(key)
                      /\ item.expected = Conventions
  /\ item.signature.callconv \in item.expected /\ item.hidden \in BOOLEAN
  /\ Keeps(item.id, item.signature) /\ IsNoInfoSignature(item.signature)

LEMMA OwnOK ==
  ASSUME NEW values, NEW key, NEW f, Argc(values, f) \in Nat
  PROVE  /\ ItemOK(Own(values, key, f), key) /\ Own(values, key, f).id = key
         /\ ~Own(values, key, f).hidden /\ Own(values, key, f).expected = Conventions
<1> DEFINE n == Argc(values, f)  item == Own(values, key, f)
<1> HIDE DEF n
<1>1. AllAny(Anys(n)) /\ AnyGuess.isAny /\ Certainly(ClassGuess(key), key)
  BY AnysAreAny, ClassIsCertain DEF n
<1>2. item.id = key /\ item.hidden = FALSE /\ item.expected = Conventions
  BY DEF Own, Item
<1>3. CASE IsConstructor(key)
  <2>1. item.signature = [args |-> Anys(n), ret |-> ClassGuess(key), callconv |-> "Constructor"]
    BY <1>3 DEF Own, Item, Guessed, n
  <2>2. Keeps(key, item.signature) /\ IsNoInfoSignature(item.signature) /\ item.signature.callconv \in Conventions
    BY <1>1, <2>1 DEF Keeps, IsNoInfoSignature, Conventions
  <2>3. item.signature.callconv = "Constructor"
    BY <2>1
  <2> QED BY <1>2, <1>3, <2>2, <2>3 DEF ItemOK
<1>4. CASE ~IsConstructor(key)
  <2>1. item.signature = [args |-> Anys(n), ret |-> AnyGuess, callconv |-> "Free"]
    BY <1>4 DEF Own, Item, Guessed, n
  <2>2. Keeps(key, item.signature) /\ IsNoInfoSignature(item.signature) /\ item.signature.callconv \in Conventions
    BY <1>1, <2>1 DEF Keeps, IsNoInfoSignature, Conventions
  <2>3. item.signature.callconv # "Constructor"
    BY <2>1
  <2> QED BY <1>2, <1>4, <2>2, <2>3 DEF ItemOK
<1> QED BY <1>3, <1>4

LEMMA MethodOK ==
  ASSUME NEW values, NEW key \in Keys1, NEW m, m.name \in STRING, Argc(values, m.value) \in Nat
  PROVE  ItemOK(Method(values, key, m), key)
<1> DEFINE n == Argc(values, m.value)  item == Method(values, key, m)  c == ClassGuess(key)
           S == {c, AnyGuess}  args == <<c>> \o Anys(n)
<1> HIDE DEF n
<1>1. Anys(n) \in Seq({AnyGuess}) /\ AllAny(Anys(n)) /\ AnyGuess.isAny /\ Certainly(c, key)
  BY AnysAreAny, ClassIsCertain DEF n
<1>2. /\ item.id = Append(key, m.name) /\ item.hidden = (m.name \in BuiltinMethods \cup Private)
      /\ item.expected = {"Method"}
      /\ item.signature = [args |-> args, ret |-> AnyGuess, callconv |-> "Method"]
  BY DEF Method, Item, Guessed, n
<1> HIDE DEF item, c
<1>3. args \in Seq(S) /\ Len(args) = 1 + Len(Anys(n)) /\ Len(Anys(n)) \in Nat /\ args[1] = c
      /\ \A i \in 1..Len(Anys(n)) : args[1 + i] = Anys(n)[i]
  <2>1. <<c>> \in Seq(S) /\ Len(<<c>>) = 1 /\ <<c>>[1] = c /\ 1 \in 1..1
    OBVIOUS
  <2>2. Anys(n) \in Seq(S)
    <3>1. \A i \in 1..Len(Anys(n)) : Anys(n)[i] \in S
      BY <1>1, ElementOfSeq
    <3>2. Anys(n) = [i \in 1..Len(Anys(n)) |-> Anys(n)[i]] /\ Len(Anys(n)) \in Nat
      BY <1>1, LenProperties
    <3>3. Anys(n) \in [1..Len(Anys(n)) -> S]
      BY <3>1, <3>2
    <3> HIDE DEF S
    <3> QED BY <3>2, <3>3, FunctionIsSeq
  <2> HIDE DEF S
  <2> QED BY <2>1, <2>2, Concatenated
<1> HIDE DEF args, S
<1>4. args # <<>>
  BY <1>3, EmptySeq
<1>5. AllAny(Tail(args))
  <2>1. Tail(args) \in Seq(S) /\ Len(Tail(args)) = Len(args) - 1 /\ \A i \in 1..Len(Tail(args)) : Tail(args)[i] = args[i + 1]
    BY <1>3, <1>4, HeadTailProperties
  <2>2. DOMAIN Tail(args) = 1..Len(Anys(n)) /\ DOMAIN Anys(n) = 1..Len(Anys(n))
    BY <1>1, <1>3, <2>1, LenProperties
  <2>3. \A i \in 1..Len(Anys(n)) : Tail(args)[i] = Anys(n)[i]
    BY <1>3, <2>1
  <2> QED BY <1>1, <2>2, <2>3 DEF AllAny
<1>6. Front(item.id) = key /\ item.id # key
  BY <1>2, FrontOfAppend DEF Keys1
<1>7. Keeps(item.id, item.signature)
  <2>1. item.signature.callconv = "Method" /\ item.signature.args = args
    BY <1>2
  <2> QED BY <1>1, <1>3, <1>4, <1>6, <2>1 DEF Keeps
<1>8. IsNoInfoSignature(item.signature)
  BY <1>1, <1>2, <1>5 DEF IsNoInfoSignature
<1>9. item.signature.callconv \in item.expected /\ item.hidden \in BOOLEAN
  BY <1>2
<1> QED BY <1>6, <1>7, <1>8, <1>9 DEF ItemOK, item

LEMMA StaticOK ==
  ASSUME NEW values, NEW key \in Keys1, NEW p, p.name \in STRING, Argc(values, p.value) \in Nat
  PROVE  ItemOK(Static(values, key, p), key)
<1> DEFINE n == Argc(values, p.value)  item == Static(values, key, p)
<1> HIDE DEF n
<1>1. AllAny(Anys(n)) /\ AnyGuess.isAny
  BY AnysAreAny DEF n
<1>2. /\ item.id = Append(key, p.name) /\ item.hidden \in BOOLEAN /\ item.expected = {"Method", "Free"}
      /\ item.signature = [args |-> Anys(n), ret |-> AnyGuess, callconv |-> "Free"]
  BY DEF Static, Item, Guessed, n
<1> HIDE DEF item
<1>3. Front(item.id) = key /\ item.id # key
  BY <1>2, FrontOfAppend DEF Keys1
<1>4. Keeps(item.id, item.signature) /\ IsNoInfoSignature(item.signature)
  BY <1>1, <1>2 DEF Keeps, IsNoInfoSignature
<1>5. item.signature.callconv \in item.expected
  BY <1>2
<1> QED BY <1>2, <1>3, <1>4, <1>5 DEF ItemOK, item

LEMMA ItemsOK ==
  ASSUME NEW values, NEW main, ImageOK(values, main), NEW S, NEW key \in Keys1, NEW f \in Fns(values)
  PROVE  LET items == Items(values, S, key, f)
         IN /\ Len(items) \in Nat \ {0} /\ DOMAIN items = 1..Len(items)
            /\ items[1] = Own(values, key, f)
            /\ \A i \in DOMAIN items : ItemOK(items[i], key)
            /\ ~IsConstr(S, key) => DOMAIN items = {1}
<1> DEFINE items == Items(values, S, key, f)
           D == DOMAIN values
           P == PropertiesTo(D)
           OKs == {i \in {Own(values, key, f)} \cup {Method(values, key, m) : m \in P}
                         \cup {Static(values, key, p) : p \in P} : ItemOK(i, key)}
           own == <<Own(values, key, f)>>
           ms == Mapped(values[f].methods, LAMBDA m : Method(values, key, m))
           ss == Mapped(values[f].props, LAMBDA p : Static(values, key, p))
<1>1. \A v \in D : Argc(values, v) \in Nat
  BY DEF ImageOK, Argc, IsFn
<1>2. f \in D /\ values[f].tag = "function"
  BY DEF Fns, IsFn
<1>3. values[f].props \in Seq(P) /\ values[f].methods \in Seq(PropertiesTo({w \in D : IsFn(values, w)}))
  BY <1>2 DEF ImageOK
<1>4. PropertiesTo({w \in D : IsFn(values, w)}) \subseteq P
  BY DEF PropertiesTo
<1>5. \A i \in DOMAIN values[f].props : values[f].props[i] \in P
  BY <1>3, LenProperties, ElementOfSeq
<1>6. \A i \in DOMAIN values[f].methods : values[f].methods[i] \in P
  BY <1>3, <1>4, LenProperties, ElementOfSeq
<1>7. \A p \in P : p.name \in STRING /\ p.value \in D
  BY DEF PropertiesTo
<1> HIDE DEF P, D
<1>8. own \in Seq(OKs) /\ Len(own) = 1 /\ own[1] = Own(values, key, f)
  <2>1. Own(values, key, f) \in OKs
    BY <1>1, <1>2, OwnOK
  <2> HIDE DEF OKs
  <2> QED BY <2>1
<1>9. ms \in Seq(OKs)
  <2>1. \A m \in P : Method(values, key, m) \in OKs
    BY <1>1, <1>7, MethodOK
  <2>2. DOMAIN values[f].methods = 1..Len(values[f].methods) /\ Len(values[f].methods) \in Nat
    BY <1>3, LenProperties
  <2> HIDE DEF OKs
  <2>3. ms \in [1..Len(values[f].methods) -> OKs]
    BY <1>6, <2>1, <2>2 DEF Mapped
  <2> HIDE DEF ms
  <2> QED BY <2>2, <2>3, FunctionIsSeq
<1>10. ss \in Seq(OKs)
  <2>1. \A p \in P : Static(values, key, p) \in OKs
    BY <1>1, <1>7, StaticOK
  <2>2. DOMAIN values[f].props = 1..Len(values[f].props) /\ Len(values[f].props) \in Nat
    BY <1>3, LenProperties
  <2> HIDE DEF OKs
  <2>3. ss \in [1..Len(values[f].props) -> OKs]
    BY <1>5, <2>1, <2>2 DEF Mapped
  <2> HIDE DEF ss
  <2> QED BY <2>2, <2>3, FunctionIsSeq
<1>11. \A i \in OKs : ItemOK(i, key)
  OBVIOUS
<1> DEFINE rest == IF IsConstr(S, key) THEN ms \o ss ELSE <<>>
<1>12. items = own \o rest
  BY DEF Items
<1> HIDE DEF OKs, own, ms, ss
<1>13. rest \in Seq(OKs) /\ (~IsConstr(S, key) => Len(rest) = 0)
  <2>1. CASE IsConstr(S, key)
    BY <1>9, <1>10, <2>1, Concatenated
  <2>2. CASE ~IsConstr(S, key)
    BY <2>2
  <2> QED BY <2>1, <2>2
<1> HIDE DEF items, rest
<1>14. items \in Seq(OKs) /\ Len(items) = 1 + Len(rest) /\ Len(rest) \in Nat /\ items[1] = own[1]
       /\ DOMAIN items = 1..(1 + Len(rest))
  <2>1. 1 \in 1..Len(own)
    BY <1>8
  <2>2. /\ own \o rest \in Seq(OKs) /\ Len(own \o rest) = Len(own) + Len(rest) /\ Len(rest) \in Nat
        /\ DOMAIN (own \o rest) = 1..(Len(own) + Len(rest))
        /\ \A i \in 1..Len(own) : (own \o rest)[i] = own[i]
    BY <1>8, <1>13, Concatenated
  <2> QED BY <1>8, <1>12, <2>1, <2>2
<1>15. \A i \in DOMAIN items : ItemOK(items[i], key)
  BY <1>11, <1>14, ElementOfSeq
<1>16. ~IsConstr(S, key) => DOMAIN items = {1}
  BY <1>13, <1>14
<1> QED BY <1>8, <1>14, <1>15, <1>16 DEF items

-----------------------------------------------------------------------------
(* One reference mapped.  After n of the items, t is what base has become. *)

After(base, opts, items, n, t) ==
  /\ IsState(t)
  /\ DOMAIN base.schema \subseteq DOMAIN t.schema
  /\ \A id \in DOMAIN base.schema : t.schema[id] = base.schema[id]
  /\ opts.onlyKnown => t.schema = base.schema
  /\ \A id \in DOMAIN t.schema \ DOMAIN base.schema :
       \E j \in 1..n : id = items[j].id /\ t.schema[id] = items[j].signature
  /\ DOMAIN base.endpoints \subseteq DOMAIN t.endpoints
  /\ \A id \in DOMAIN t.endpoints \ DOMAIN base.endpoints :
       \E j \in 1..n : Open(items[j], opts.skip) /\ id = items[j].id
  /\ \A j \in 1..n : Open(items[j], opts.skip) =>
       /\ ~opts.onlyKnown => items[j].id \in DOMAIN t.schema
       /\ items[j].id \in DOMAIN t.schema => items[j].id \in DOMAIN t.endpoints
       /\ items[j].id \in DOMAIN t.schema =>
            t.failed \/ t.schema[items[j].id].callconv \in items[j].expected
  /\ t.failed =>
       \/ base.failed
       \/ \E j \in 1..n : /\ Open(items[j], opts.skip) /\ items[j].id \in DOMAIN t.schema
                          /\ t.schema[items[j].id].callconv \notin items[j].expected

(* The item that is not taken, and the one that is.                        *)
LEMMA NotTaken ==
  ASSUME NEW s, NEW opts, NEW item, item.hidden \/ Filtered(s, opts, item.id)
  PROVE  /\ WithEndpoint(s, opts, item) = s
         /\ Open(item, opts.skip) => opts.onlyKnown /\ item.id \notin DOMAIN s.schema
BY DEF WithEndpoint, Filtered, Open

LEMMA Taken ==
  ASSUME NEW s, NEW opts, NEW item, ~(item.hidden \/ Filtered(s, opts, item.id)), IsState(s)
  PROVE  LET t == WithEndpoint(s, opts, item)
         IN /\ IsState(t) /\ Open(item, opts.skip)
            /\ DOMAIN t.schema = DOMAIN s.schema \cup {item.id}
            /\ \A id \in DOMAIN s.schema : t.schema[id] = s.schema[id]
            /\ item.id \notin DOMAIN s.schema => t.schema[item.id] = item.signature
            /\ opts.onlyKnown => item.id \in DOMAIN s.schema
            /\ item.id \in DOMAIN s.schema => t.schema = s.schema
            /\ DOMAIN t.endpoints = DOMAIN s.endpoints \cup {item.id}
            /\ t.failed <=> \/ s.failed
                            \/ item.id \in DOMAIN s.schema /\ s.schema[item.id].callconv \notin item.expected
<1> DEFINE t == WithEndpoint(s, opts, item)  one == [id \in {item.id} |-> item.signature]
           fn == [id \in {item.id} |-> item.fn]
<1>1. t = [schema |-> OrElse(s.schema, one), endpoints |-> OrElse(fn, s.endpoints),
           failed |-> \/ s.failed
                      \/ item.id \in DOMAIN s.schema /\ s.schema[item.id].callconv \notin item.expected]
  BY DEF WithEndpoint
<1> HIDE DEF t
<1>2. /\ t.schema = OrElse(s.schema, one) /\ t.endpoints = OrElse(fn, s.endpoints)
      /\ t = [schema |-> t.schema, endpoints |-> t.endpoints, failed |-> t.failed]
  BY <1>1, Zenon
<1>3. t.failed <=> \/ s.failed
                   \/ item.id \in DOMAIN s.schema /\ s.schema[item.id].callconv \notin item.expected
  BY <1>1
<1>4. Open(item, opts.skip) /\ (opts.onlyKnown => item.id \in DOMAIN s.schema)
  BY DEF Open, Filtered
<1>5. /\ DOMAIN t.schema = DOMAIN s.schema \cup {item.id}
      /\ \A id \in DOMAIN s.schema : t.schema[id] = s.schema[id]
      /\ item.id \notin DOMAIN s.schema => t.schema[item.id] = item.signature
      /\ t.schema = [id \in DOMAIN t.schema |-> t.schema[id]]
  BY <1>2 DEF OrElse
<1>6. ASSUME item.id \in DOMAIN s.schema PROVE t.schema = s.schema
  <2>1. DOMAIN t.schema = DOMAIN s.schema
    BY <1>5, <1>6
  <2>2. s.schema = [id \in DOMAIN s.schema |-> s.schema[id]]
    BY DEF IsState
  <2>3. [id \in DOMAIN t.schema |-> t.schema[id]] = [id \in DOMAIN s.schema |-> s.schema[id]]
    BY <1>5, <2>1
  <2> QED BY <1>5, <2>2, <2>3
<1>7. DOMAIN t.endpoints = DOMAIN s.endpoints \cup {item.id}
  BY <1>2 DEF OrElse
<1>8. IsState(t)
  BY <1>2, <1>5 DEF IsState
<1> QED BY <1>3, <1>4, <1>5, <1>6, <1>7, <1>8 DEF t

LEMMA AfterOneMore ==
  ASSUME NEW base, NEW opts, NEW items, NEW n \in Nat, NEW s, After(base, opts, items, n, s),
         items[n + 1].signature.callconv \in items[n + 1].expected
  PROVE  After(base, opts, items, n + 1, WithEndpoint(s, opts, items[n + 1]))
<1> DEFINE item == items[n + 1]  t == WithEndpoint(s, opts, item)
<1>0. \A j \in 1..(n + 1) : j \in 1..n \/ j = n + 1
  OBVIOUS
<1>1. \A j \in 1..n : j \in 1..(n + 1)
  OBVIOUS
<1>2. n + 1 \in 1..(n + 1)
  OBVIOUS
<1> HIDE DEF item
<1>3. CASE item.hidden \/ Filtered(s, opts, item.id)
  <2>1. t = s /\ (Open(item, opts.skip) => opts.onlyKnown /\ item.id \notin DOMAIN s.schema)
    BY <1>3, NotTaken
  <2> QED BY <1>0, <1>1, <2>1 DEF After, item
<1>4. CASE ~(item.hidden \/ Filtered(s, opts, item.id))
  <2>0. IsState(s)
    BY DEF After
  <2>1. /\ IsState(t) /\ Open(item, opts.skip)
        /\ DOMAIN t.schema = DOMAIN s.schema \cup {item.id}
        /\ \A id \in DOMAIN s.schema : t.schema[id] = s.schema[id]
        /\ item.id \notin DOMAIN s.schema => t.schema[item.id] = item.signature
        /\ opts.onlyKnown => item.id \in DOMAIN s.schema
        /\ item.id \in DOMAIN s.schema => t.schema = s.schema
        /\ DOMAIN t.endpoints = DOMAIN s.endpoints \cup {item.id}
        /\ t.failed <=> \/ s.failed
                        \/ item.id \in DOMAIN s.schema /\ s.schema[item.id].callconv \notin item.expected
    BY <1>4, <2>0, Taken
  <2> HIDE DEF t
  <2>2. /\ DOMAIN base.schema \subseteq DOMAIN t.schema
        /\ \A id \in DOMAIN base.schema : t.schema[id] = base.schema[id]
        /\ opts.onlyKnown => t.schema = base.schema
        /\ DOMAIN base.endpoints \subseteq DOMAIN t.endpoints
    BY <2>1 DEF After
  <2>3. ASSUME NEW id \in DOMAIN t.schema \ DOMAIN base.schema
        PROVE  \E j \in 1..(n + 1) : id = items[j].id /\ t.schema[id] = items[j].signature
    <3>1. CASE id \in DOMAIN s.schema
      <4>1. PICK j \in 1..n : id = items[j].id /\ s.schema[id] = items[j].signature
        BY <3>1 DEF After
      <4> QED BY <1>1, <2>1, <3>1, <4>1
    <3>2. CASE id \notin DOMAIN s.schema
      <4>1. id = item.id /\ t.schema[id] = item.signature
        BY <2>1, <3>2
      <4> QED BY <1>2, <4>1 DEF item
    <3> QED BY <3>1, <3>2
  <2>4. ASSUME NEW id \in DOMAIN t.endpoints \ DOMAIN base.endpoints
        PROVE  \E j \in 1..(n + 1) : Open(items[j], opts.skip) /\ id = items[j].id
    <3>1. CASE id \in DOMAIN s.endpoints
      <4>1. PICK j \in 1..n : Open(items[j], opts.skip) /\ id = items[j].id
        BY <3>1 DEF After
      <4> QED BY <1>1, <4>1
    <3>2. CASE id \notin DOMAIN s.endpoints
      BY <1>2, <2>1, <3>2 DEF item
    <3> QED BY <3>1, <3>2
  <2>5. ASSUME NEW j \in 1..(n + 1), Open(items[j], opts.skip)
        PROVE  /\ ~opts.onlyKnown => items[j].id \in DOMAIN t.schema
               /\ items[j].id \in DOMAIN t.schema => items[j].id \in DOMAIN t.endpoints
               /\ items[j].id \in DOMAIN t.schema =>
                    t.failed \/ t.schema[items[j].id].callconv \in items[j].expected
    <3>1. CASE j = n + 1
      <4>1. items[j] = item
        BY <3>1 DEF item
      <4>2. item.id \in DOMAIN s.schema =>
              t.failed \/ t.schema[item.id].callconv \in item.expected
        BY <2>1
      <4>3. item.id \notin DOMAIN s.schema => t.schema[item.id].callconv \in item.expected
        BY <2>1 DEF item
      <4> QED BY <2>1, <4>1, <4>2, <4>3
    <3>2. CASE j \in 1..n
      <4>1. /\ ~opts.onlyKnown => items[j].id \in DOMAIN s.schema
            /\ items[j].id \in DOMAIN s.schema => items[j].id \in DOMAIN s.endpoints
            /\ items[j].id \in DOMAIN s.schema =>
                 s.failed \/ s.schema[items[j].id].callconv \in items[j].expected
        BY <2>5, <3>2 DEF After
      <4>2. items[j].id \in DOMAIN t.schema => items[j].id \in DOMAIN s.schema
        BY <2>1, <4>1
      <4> QED BY <2>1, <4>1, <4>2
    <3> QED BY <1>0, <3>1, <3>2
  <2>6. ASSUME t.failed
        PROVE  \/ base.failed
               \/ \E j \in 1..(n + 1) :
                    /\ Open(items[j], opts.skip) /\ items[j].id \in DOMAIN t.schema
                    /\ t.schema[items[j].id].callconv \notin items[j].expected
    <3>1. CASE s.failed
      <4>1. CASE base.failed
        BY <4>1
      <4>2. CASE ~base.failed
        <5>1. PICK j \in 1..n : /\ Open(items[j], opts.skip) /\ items[j].id \in DOMAIN s.schema
                                /\ s.schema[items[j].id].callconv \notin items[j].expected
          BY <3>1, <4>2 DEF After
        <5> QED BY <1>1, <2>1, <5>1
      <4> QED BY <4>1, <4>2
    <3>2. CASE ~s.failed
      <4>1. item.id \in DOMAIN s.schema /\ s.schema[item.id].callconv \notin item.expected
        BY <2>1, <2>6, <3>2
      <4> QED BY <1>2, <2>1, <4>1 DEF item
    <3> QED BY <3>1, <3>2
  <2>7. IsState(t)
    BY <2>1
  <2> QED BY <2>2, <2>3, <2>4, <2>5, <2>6, <2>7 DEF After, t, item
<1> QED BY <1>3, <1>4 DEF item

LEMMA MapsItems ==
  ASSUME NEW values, NEW base, NEW opts, NEW key, NEW f, IsState(base), ~Filtered(base, opts, key),
         Len(Items(values, base.schema, key, f)) \in Nat,
         \A j \in 1..Len(Items(values, base.schema, key, f)) :
           Items(values, base.schema, key, f)[j].signature.callconv
             \in Items(values, base.schema, key, f)[j].expected
  PROVE  After(base, opts, Items(values, base.schema, key, f), Len(Items(values, base.schema, key, f)),
               MapFunctionReference(values, base, opts, key, f))
<1> DEFINE items == Items(values, base.schema, key, f)
           n == Len(items)
           Body(g, i) == IF i = 0 THEN base ELSE WithEndpoint(g[i - 1], opts, items[i])
           mapped == CHOOSE g : g = [i \in 0..n |-> Body(g, i)]
           Defined == {m \in Nat : \E g : g = [i \in 0..m |-> Body(g, i)]}
<1>1. MapFunctionReference(values, base, opts, key, f) = mapped[n]
  BY DEF MapFunctionReference
<1>2. n \in Nat /\ \A j \in 1..n : items[j].signature.callconv \in items[j].expected
  OBVIOUS
<1> HIDE DEF items, n
<1>3. 0 \in Defined
  <2> DEFINE g == [i \in 0..0 |-> base]
  <2>1. \A i \in 0..0 : Body(g, i) = base
    OBVIOUS
  <2> HIDE DEF Body
  <2>2. g = [i \in 0..0 |-> Body(g, i)]
    BY <2>1
  <2> QED BY <2>2
<1>4. ASSUME NEW m \in Nat, m \in Defined PROVE m + 1 \in Defined
  <2>1. PICK g : g = [i \in 0..m |-> Body(g, i)]
    BY <1>4
  <2> DEFINE h == [i \in 0..(m + 1) |-> IF i = m + 1 THEN Body(g, i) ELSE g[i]]
  <2>2. \A i \in 0..(m + 1) : h[i] = Body(h, i)
    <3>1. \A i \in 0..m : h[i] = g[i]
      OBVIOUS
    <3>2. \A i \in 1..(m + 1) : h[i - 1] = g[i - 1]
      BY <3>1
    <3>3. \A i \in 0..(m + 1) : Body(h, i) = Body(g, i)
      BY <3>2
    <3> HIDE DEF Body
    <3>4. \A i \in 0..m : g[i] = Body(g, i)
      BY <2>1, Zenon
    <3>5. \A i \in 0..(m + 1) : h[i] = Body(g, i)
      BY <3>4
    <3> QED BY <3>3, <3>5
  <2> HIDE DEF h, Body
  <2>3. h = [i \in 0..(m + 1) |-> h[i]]
    BY DEF h
  <2>4. h = [i \in 0..(m + 1) |-> Body(h, i)]
    BY <2>2, <2>3
  <2> QED BY <2>4
<1> HIDE DEF Body
<1>5. n \in Defined
  <2> HIDE DEF Defined
  <2> QED BY <1>2, <1>3, <1>4, Induction
<1>6. mapped = [i \in 0..n |-> Body(mapped, i)]
  BY <1>5
<1> HIDE DEF mapped
<1>7. \A i \in 0..n : mapped[i] = Body(mapped, i)
  BY <1>6, Zenon
<1> DEFINE Good == {i \in Nat : i \in 0..n => After(base, opts, items, i, mapped[i])}
<1>8. 0 \in Good
  <2>1. mapped[0] = base
    BY <1>2, <1>7 DEF Body
  <2>2. After(base, opts, items, 0, base)
    BY DEF After
  <2> QED BY <2>1, <2>2
<1>9. ASSUME NEW i \in Nat, i \in Good PROVE i + 1 \in Good
  <2> SUFFICES ASSUME i + 1 \in 0..n PROVE After(base, opts, items, i + 1, mapped[i + 1])
    OBVIOUS
  <2>1. i \in 0..n /\ i + 1 \in 1..n /\ (i + 1) - 1 = i /\ i + 1 # 0
    BY <1>2
  <2>2. mapped[i + 1] = WithEndpoint(mapped[i], opts, items[i + 1])
    BY <1>7, <2>1 DEF Body
  <2>3. After(base, opts, items, i, mapped[i])
    BY <1>9, <2>1
  <2> QED BY <1>2, <2>1, <2>2, <2>3, AfterOneMore
<1>10. n \in Good
  <2> HIDE DEF Good
  <2> QED BY <1>2, <1>8, <1>9, Induction
<1>11. After(base, opts, items, n, mapped[n])
  BY <1>2, <1>10
<1> QED BY <1>1, <1>11 DEF items, n

-----------------------------------------------------------------------------
(* Schemas that agree on the conventions of what they both have.           *)

(* The built-ins' signatures keep the conventions.                         *)
LEMMA StdIsSchema ==
  /\ StdSchema = [id \in StdNames |-> StdSchema[id]]
  /\ \A id \in StdNames : Keeps(id, StdSchema[id])
<1>1. StdSchema = [id \in StdNames |-> StdSchema[id]]
  BY DEF StdSchema, StdNames
<1>2. ASSUME NEW id \in StdNames PROVE Keeps(id, StdSchema[id])
  <2>1. StdSchema[id] = IF id = BufferFrom THEN BuiltIn(<<String>>, ClassGuess(<<"Buffer">>), "Free")
                        ELSE BuiltIn(StdArgs[id[1]], ClassGuess(id), "Constructor")
    BY DEF StdSchema, StdNames
  <2>2. CASE id = BufferFrom
    <3>1. StdSchema[id].callconv = "Free"
      BY <2>1, <2>2 DEF BuiltIn
    <3> QED BY <3>1 DEF Keeps
  <2>3. CASE id # BufferFrom
    <3>1. StdSchema[id].callconv = "Constructor" /\ StdSchema[id].ret = ClassGuess(id)
      BY <2>1, <2>3 DEF BuiltIn
    <3>2. Certainly(ClassGuess(id), id)
      BY ClassIsCertain
    <3> QED BY <3>1, <3>2 DEF Keeps
  <2> QED BY <2>2, <2>3
<1> QED BY <1>1, <1>2

LEMMA EmptyIsSchema == IsSchema(NoField) /\ DOMAIN NoField = {}
<1>1. DOMAIN NoField = {}
  BY DEF NoField
<1>2. NoField = [id \in {} |-> NoField[id]]
  BY DEF NoField
<1> QED BY <1>1, <1>2 DEF IsSchema, Conventional

LEMMA AddStdFacts ==
  ASSUME NEW S, IsSchema(S)
  PROVE  /\ IsSchema(AddStd(S)) /\ DOMAIN AddStd(S) = DOMAIN S \cup StdNames
         /\ \A id \in StdNames : AddStd(S)[id] = StdSchema[id]
         /\ \A id \in DOMAIN S \ StdNames : AddStd(S)[id] = S[id]
         /\ StdKept(AddStd(S))
<1> DEFINE T == AddStd(S)
<1>1. T = [id \in DOMAIN T |-> T[id]] /\ DOMAIN T = DOMAIN S \cup StdNames
  BY DEF AddStd, OrElse, StdNames
<1>2. \A id \in DOMAIN T : T[id] = IF id \in StdNames THEN StdSchema[id] ELSE S[id]
  BY DEF AddStd, OrElse, StdNames
<1> HIDE DEF T
<1>3. \A id \in DOMAIN T : Keeps(id, T[id])
  BY <1>1, <1>2, StdIsSchema DEF IsSchema, Conventional
<1>4. StdKept(T)
  BY <1>1, <1>2 DEF StdKept
<1> QED BY <1>1, <1>2, <1>3, <1>4 DEF IsSchema, Conventional, T

Sub(T, S) == DOMAIN T \subseteq DOMAIN S /\ \A id \in DOMAIN T : T[id].callconv = S[id].callconv

LEMMA SubOfStd ==
  ASSUME NEW S, IsSchema(S), StdKept(S)
  PROVE  Sub(S, AddStd(S))
<1>1. \A id \in DOMAIN S : S[id].callconv = AddStd(S)[id].callconv
  BY AddStdFacts DEF StdKept
<1> QED BY <1>1, AddStdFacts DEF Sub

LEMMA StdOfSub ==
  ASSUME NEW S, NEW T, IsSchema(S), IsSchema(T), StdKept(S), StdNames \subseteq DOMAIN S, Sub(T, S)
  PROVE  Sub(AddStd(T), S) /\ StdKept(T)
<1>1. DOMAIN AddStd(T) = DOMAIN T \cup StdNames
  BY AddStdFacts
<1>2. \A id \in DOMAIN AddStd(T) : AddStd(T)[id].callconv = S[id].callconv
  BY <1>1, AddStdFacts DEF StdKept, Sub
<1> QED BY <1>1, <1>2 DEF Sub, StdKept

(* What a schema adds another of the same conventions adds.                *)
LEMMA AddsUp ==
  ASSUME NEW l, NEW x, NEW S, NEW T, NEW n \in Nat, NEW i, NEW j, Sub(T, S), Adds(l, x, T, n, i, j)
  PROVE  Adds(l, x, S, n, i, j) /\ ItemsAt(l, S, i) = ItemsAt(l, T, i)
<1>1. Handled(l, x, T, n, i) /\ Handled(l, x, S, n, i)
  BY DEF Adds, Handled, Sub
<1>2. IsConstr(S, Refs(l)[i][1]) <=> IsConstr(T, Refs(l)[i][1])
  BY <1>1 DEF IsConstr, Handled, Sub
<1>3. ItemsAt(l, S, i) = ItemsAt(l, T, i)
  BY <1>2 DEF ItemsAt, Items
<1> QED BY <1>1, <1>3 DEF Adds

LEMMA AddsDown ==
  ASSUME NEW l, NEW x, NEW S, NEW T, NEW n \in Nat, NEW i, NEW j, Sub(T, S), Adds(l, x, S, n, i, j),
         Refs(l)[i][1] \in DOMAIN T
  PROVE  Adds(l, x, T, n, i, j) /\ ItemsAt(l, S, i) = ItemsAt(l, T, i)
<1>1. Handled(l, x, T, n, i) /\ Handled(l, x, S, n, i)
  BY DEF Adds, Handled, Sub
<1>2. IsConstr(S, Refs(l)[i][1]) <=> IsConstr(T, Refs(l)[i][1])
  BY <1>1 DEF IsConstr, Handled, Sub
<1>3. ItemsAt(l, S, i) = ItemsAt(l, T, i)
  BY <1>2 DEF ItemsAt, Items
<1> QED BY <1>1, <1>3 DEF Adds

LEMMA AgreesBelow ==
  ASSUME NEW l \in Images, NEW x, NEW S, NEW T, Sub(T, S), Agrees(l, x, S)
  PROVE  Agrees(l, x, T)
<1>1. Len(Refs(l)) \in Nat
  BY RefsAreTyped
<1>2. ASSUME NEW i \in Nat, NEW j \in Nat, Adds(l, x, T, Len(Refs(l)), i, j),
             ItemsAt(l, T, i)[j].id \in DOMAIN T
      PROVE  T[ItemsAt(l, T, i)[j].id].callconv \in ItemsAt(l, T, i)[j].expected
  <2>1. Adds(l, x, S, Len(Refs(l)), i, j) /\ ItemsAt(l, S, i) = ItemsAt(l, T, i)
    BY <1>1, <1>2, AddsUp
  <2>2. ItemsAt(l, S, i)[j].id \in DOMAIN S
    BY <1>2, <2>1 DEF Sub
  <2>3. S[ItemsAt(l, S, i)[j].id].callconv \in ItemsAt(l, S, i)[j].expected
    BY <2>1, <2>2 DEF Agrees
  <2> QED BY <1>2, <2>1, <2>3 DEF Sub
<1> QED BY <1>2 DEF Agrees

(* The items of the i-th reference.                                        *)
LEMMA ItemsAtOK ==
  ASSUME NEW l \in Images, NEW S, NEW i \in 1..Len(Refs(l))
  PROVE  LET items == ItemsAt(l, S, i)  key == Refs(l)[i][1]
         IN /\ Len(items) \in Nat \ {0} /\ DOMAIN items = 1..Len(items)
            /\ items[1].id = key /\ ~items[1].hidden
            /\ \A j \in DOMAIN items : ItemOK(items[j], key)
            /\ ~IsConstr(S, key) => DOMAIN items = {1}
<1> DEFINE values == l.values  key == Refs(l)[i][1]  f == Refs(l)[i][2]
<1>1. key \in Keys1 /\ f \in Fns(values) /\ ImageOK(values, l.main)
  BY RefsAreTyped, ImagesAreOK
<1>2. Argc(values, f) \in Nat
  BY <1>1 DEF ImageOK, Argc, IsFn, Fns
<1>3. Own(values, key, f).id = key /\ ~Own(values, key, f).hidden
  BY <1>2, OwnOK
<1> HIDE DEF values, key, f
<1>4. LET items == Items(values, S, key, f)
      IN /\ Len(items) \in Nat \ {0} /\ DOMAIN items = 1..Len(items)
         /\ items[1] = Own(values, key, f)
         /\ \A j \in DOMAIN items : ItemOK(items[j], key)
         /\ ~IsConstr(S, key) => DOMAIN items = {1}
  BY <1>1, ItemsOK
<1>5. ItemsAt(l, S, i) = Items(values, S, key, f)
  BY DEF ItemsAt, values, key, f
<1> QED BY <1>3, <1>4, <1>5 DEF key

(* A reference that is handled adds itself.                                *)
LEMMA AddsItself ==
  ASSUME NEW l \in Images, NEW x, NEW S, NEW n \in 0..Len(Refs(l)), NEW i, Handled(l, x, S, n, i)
  PROVE  i \in Nat /\ Adds(l, x, S, n, i, 1) /\ ItemsAt(l, S, i)[1].id = Refs(l)[i][1]
<1>1. i \in 1..Len(Refs(l)) /\ i \in Nat
  BY RefsAreTyped DEF Handled
<1>2. 1 \in DOMAIN ItemsAt(l, S, i) /\ ItemsAt(l, S, i)[1].id = Refs(l)[i][1] /\ ~ItemsAt(l, S, i)[1].hidden
  BY <1>1, ItemsAtOK
<1> QED BY <1>1, <1>2 DEF Adds, Open, Handled

(* Items of the same names, hidden and expected alike.                     *)
Same(a, b) == a.id = b.id /\ a.hidden = b.hidden /\ a.expected = b.expected
Twins(s, t) == DOMAIN s = DOMAIN t /\ \A j \in DOMAIN s : Same(s[j], t[j])

LEMMA SameInterval ==
  ASSUME NEW m \in Nat, NEW n \in Nat, 1..m = 1..n
  PROVE  m = n
<1>1. m \in 1..m \/ m = 0
  OBVIOUS
<1>2. n \in 1..n \/ n = 0
  OBVIOUS
<1>3. m <= n
  BY <1>1
<1>4. n <= m
  BY <1>2
<1> QED BY <1>3, <1>4

LEMMA TwinsJoin ==
  ASSUME NEW S, NEW s1 \in Seq(S), NEW s2 \in Seq(S), NEW t1 \in Seq(S), NEW t2 \in Seq(S),
         Twins(s1, t1), Twins(s2, t2)
  PROVE  Twins(s1 \o s2, t1 \o t2)
<1>1. /\ DOMAIN s1 = 1..Len(s1) /\ DOMAIN t1 = 1..Len(t1) /\ DOMAIN s2 = 1..Len(s2) /\ DOMAIN t2 = 1..Len(t2)
      /\ Len(s1) \in Nat /\ Len(s2) \in Nat /\ Len(t1) \in Nat /\ Len(t2) \in Nat
  BY LenProperties
<1> DEFINE n1 == Len(s1)  n2 == Len(s2)
<1>2. /\ Len(t1) = n1 /\ Len(t2) = n2 /\ n1 \in Nat /\ n2 \in Nat
  <2>1. 1..Len(s1) = 1..Len(t1) /\ 1..Len(s2) = 1..Len(t2)
    BY <1>1 DEF Twins
  <2> QED BY <1>1, <2>1, SameInterval
<1>3. /\ DOMAIN (s1 \o s2) = 1..(n1 + n2) /\ DOMAIN (t1 \o t2) = 1..(n1 + n2)
      /\ \A i \in 1..n1 : (s1 \o s2)[i] = s1[i] /\ (t1 \o t2)[i] = t1[i]
      /\ \A i \in 1..n2 : (s1 \o s2)[n1 + i] = s2[i] /\ (t1 \o t2)[n1 + i] = t2[i]
  <2>1. /\ DOMAIN (s1 \o s2) = 1..(Len(s1) + Len(s2))
        /\ \A i \in 1..Len(s1) : (s1 \o s2)[i] = s1[i]
        /\ \A i \in 1..Len(s2) : (s1 \o s2)[Len(s1) + i] = s2[i]
    BY Concatenated
  <2>2. /\ DOMAIN (t1 \o t2) = 1..(Len(t1) + Len(t2))
        /\ \A i \in 1..Len(t1) : (t1 \o t2)[i] = t1[i]
        /\ \A i \in 1..Len(t2) : (t1 \o t2)[Len(t1) + i] = t2[i]
    BY Concatenated
  <2>3. /\ DOMAIN (t1 \o t2) = 1..(n1 + n2)
        /\ \A i \in 1..n1 : (t1 \o t2)[i] = t1[i]
        /\ \A i \in 1..n2 : (t1 \o t2)[n1 + i] = t2[i]
    BY <1>2, <2>2, Zenon
  <2> HIDE DEF n1, n2
  <2>4. n1 = Len(s1) /\ n2 = Len(s2)
    BY DEF n1, n2
  <2> QED BY <2>1, <2>3, <2>4
<1> HIDE DEF n1, n2
<1>4. ASSUME NEW j \in 1..(n1 + n2) PROVE Same((s1 \o s2)[j], (t1 \o t2)[j])
  <2>1. CASE j \in 1..n1
    BY <1>1, <1>3, <2>1 DEF Twins, n1
  <2>2. CASE j \notin 1..n1
    <3>1. j - n1 \in 1..n2 /\ n1 + (j - n1) = j
      BY <1>2, <2>2
    <3>2. (s1 \o s2)[j] = s2[j - n1] /\ (t1 \o t2)[j] = t2[j - n1]
      BY <1>3, <3>1
    <3> QED BY <1>1, <3>1, <3>2 DEF Twins, n2
  <2> QED BY <2>1, <2>2
<1> QED BY <1>3, <1>4 DEF Twins

(* Images that are alike have the same references, with the same items.    *)
Shape(l, props) == Mapped(props, LAMBDA p : <<p.name, IsFn(l.values, p.value)>>)

LEMMA AlikeRefs ==
  ASSUME NEW a \in Images, NEW b \in Images, Alike(a, b)
  PROVE  /\ Len(Refs(a)) = Len(Refs(b))
         /\ \A i \in 1..Len(Refs(a)) :
              /\ Refs(a)[i][1] = Refs(b)[i][1]
              /\ Shape(a, a.values[Refs(a)[i][2]].methods) = Shape(b, b.values[Refs(b)[i][2]].methods)
              /\ Shape(a, a.values[Refs(a)[i][2]].props) = Shape(b, b.values[Refs(b)[i][2]].props)
<1> DEFINE Row(l, i) == <<Refs(l)[i][1], Shape(l, l.values[Refs(l)[i][2]].methods),
                          Shape(l, l.values[Refs(l)[i][2]].props)>>
<1>1. \A l \in {a, b} : Outline(l) = [i \in DOMAIN Refs(l) |-> Row(l, i)]
  BY DEF Outline, Mapped, Shape, Refs
<1>2. [i \in DOMAIN Refs(a) |-> Row(a, i)] = [i \in DOMAIN Refs(b) |-> Row(b, i)]
  BY <1>1 DEF Alike
<1>3. \A l \in {a, b} : DOMAIN Refs(l) = 1..Len(Refs(l)) /\ Len(Refs(l)) \in Nat
  BY RefsAreTyped, LenProperties
<1> HIDE DEF Row
<1>4. DOMAIN Refs(a) = DOMAIN Refs(b) /\ \A i \in DOMAIN Refs(a) : Row(a, i) = Row(b, i)
  <2> DEFINE f == [i \in DOMAIN Refs(a) |-> Row(a, i)]  g == [i \in DOMAIN Refs(b) |-> Row(b, i)]
  <2>1. DOMAIN f = DOMAIN Refs(a) /\ DOMAIN g = DOMAIN Refs(b)
    OBVIOUS
  <2>2. (\A i \in DOMAIN Refs(a) : f[i] = Row(a, i)) /\ (\A i \in DOMAIN Refs(b) : g[i] = Row(b, i))
    OBVIOUS
  <2>3. f = g
    BY <1>2
  <2> HIDE DEF f, g
  <2> QED BY <2>1, <2>2, <2>3
<1>5. Len(Refs(a)) = Len(Refs(b))
  <2>1. 1..Len(Refs(a)) = 1..Len(Refs(b)) /\ Len(Refs(a)) \in Nat /\ Len(Refs(b)) \in Nat
    BY <1>3, <1>4
  <2> QED BY <2>1, SameInterval
<1> QED BY <1>3, <1>4, <1>5 DEF Row

SameProps(a, p, b, q) ==
  /\ DOMAIN p = DOMAIN q
  /\ \A j \in DOMAIN p :
       p[j].name = q[j].name /\ (IsFn(a.values, p[j].value) <=> IsFn(b.values, q[j].value))

LEMMA SameShape ==
  ASSUME NEW a, NEW b, NEW p, NEW q, Shape(a, p) = Shape(b, q)
  PROVE  SameProps(a, p, b, q)
<1> DEFINE f == [j \in DOMAIN p |-> <<p[j].name, IsFn(a.values, p[j].value)>>]
           g == [j \in DOMAIN q |-> <<q[j].name, IsFn(b.values, q[j].value)>>]
<1>1. f = g
  BY DEF Shape, Mapped
<1>2. DOMAIN f = DOMAIN p /\ DOMAIN g = DOMAIN q
  OBVIOUS
<1>3. \A j \in DOMAIN p : f[j][1] = p[j].name /\ f[j][2] = IsFn(a.values, p[j].value)
  OBVIOUS
<1>4. \A j \in DOMAIN q : g[j][1] = q[j].name /\ g[j][2] = IsFn(b.values, q[j].value)
  OBVIOUS
<1> HIDE DEF f, g
<1>5. DOMAIN p = DOMAIN q
  BY <1>1, <1>2
<1>6. ASSUME NEW j \in DOMAIN p
      PROVE  p[j].name = q[j].name /\ (IsFn(a.values, p[j].value) <=> IsFn(b.values, q[j].value))
  BY <1>1, <1>3, <1>4, <1>5
<1> QED BY <1>5, <1>6 DEF SameProps

LEMMA AlikeItems ==
  ASSUME NEW a \in Images, NEW b \in Images, Alike(a, b), NEW S, NEW i \in 1..Len(Refs(a))
  PROVE  Twins(ItemsAt(a, S, i), ItemsAt(b, S, i))
<1> DEFINE key == Refs(a)[i][1]  f == Refs(a)[i][2]  g == Refs(b)[i][2]
           ma == a.values[f].methods  mb == b.values[g].methods
           pa == a.values[f].props  pb == b.values[g].props
           methodsA == [k \in DOMAIN ma |-> Method(a.values, key, ma[k])]
           methodsB == [k \in DOMAIN mb |-> Method(b.values, key, mb[k])]
           staticsA == [k \in DOMAIN pa |-> Static(a.values, key, pa[k])]
           staticsB == [k \in DOMAIN pb |-> Static(b.values, key, pb[k])]
           ownA == <<Own(a.values, key, f)>>  ownB == <<Own(b.values, key, g)>>
<1>1. key = Refs(b)[i][1] /\ Shape(a, ma) = Shape(b, mb) /\ Shape(a, pa) = Shape(b, pb)
      /\ i \in 1..Len(Refs(b))
  BY AlikeRefs
<1>2. /\ ma \in Seq(PropertiesTo({w \in DOMAIN a.values : IsFn(a.values, w)}))
      /\ pa \in Seq(PropertiesTo(DOMAIN a.values))
  <2>1. ImageOK(a.values, a.main) /\ f \in Fns(a.values)
    BY ImagesAreOK, RefsAreTyped
  <2> QED BY <2>1 DEF ImageOK, Fns, IsFn
<1>3. /\ mb \in Seq(PropertiesTo({w \in DOMAIN b.values : IsFn(b.values, w)}))
      /\ pb \in Seq(PropertiesTo(DOMAIN b.values))
  <2>1. ImageOK(b.values, b.main) /\ g \in Fns(b.values)
    BY <1>1, ImagesAreOK, RefsAreTyped
  <2> QED BY <2>1 DEF ImageOK, Fns, IsFn
<1>4. /\ ItemsAt(a, S, i) = ownA \o (IF IsConstr(S, key) THEN methodsA \o staticsA ELSE <<>>)
      /\ ItemsAt(b, S, i) = ownB \o (IF IsConstr(S, key) THEN methodsB \o staticsB ELSE <<>>)
  BY <1>1 DEF ItemsAt, Items, Mapped
<1>5. Twins(methodsA, methodsB)
  <2>1. DOMAIN ma = DOMAIN mb /\ \A k \in DOMAIN ma : ma[k].name = mb[k].name
    BY <1>1, SameShape DEF SameProps
  <2> HIDE DEF ma, mb
  <2>2. DOMAIN methodsA = DOMAIN ma /\ DOMAIN methodsB = DOMAIN mb
    OBVIOUS
  <2>3. ASSUME NEW k \in DOMAIN ma PROVE Same(methodsA[k], methodsB[k])
    <3>1. methodsA[k] = Method(a.values, key, ma[k]) /\ methodsB[k] = Method(b.values, key, mb[k])
      BY <2>1
    <3>2. Same(Method(a.values, key, ma[k]), Method(b.values, key, mb[k]))
      BY <2>1 DEF Same, Method, Item
    <3> QED BY <3>1, <3>2
  <2> QED BY <2>1, <2>2, <2>3 DEF Twins
<1>6. Twins(staticsA, staticsB)
  <2>1. /\ DOMAIN pa = DOMAIN pb
        /\ \A k \in DOMAIN pa :
             pa[k].name = pb[k].name /\ (IsFn(a.values, pa[k].value) <=> IsFn(b.values, pb[k].value))
    <3>1. Shape(a, pa) = Shape(b, pb)
      BY <1>1
    <3> HIDE DEF pa, pb
    <3>2. SameProps(a, pa, b, pb)
      BY <3>1, SameShape
    <3> QED BY <3>2 DEF SameProps
  <2> HIDE DEF pa, pb
  <2>2. DOMAIN staticsA = DOMAIN pa /\ DOMAIN staticsB = DOMAIN pb
    OBVIOUS
  <2>3. ASSUME NEW k \in DOMAIN pa PROVE Same(staticsA[k], staticsB[k])
    <3>1. staticsA[k] = Static(a.values, key, pa[k]) /\ staticsB[k] = Static(b.values, key, pb[k])
      BY <2>1
    <3>2. Same(Static(a.values, key, pa[k]), Static(b.values, key, pb[k]))
      <4>1. pa[k].name = pb[k].name /\ (IsFn(a.values, pa[k].value) <=> IsFn(b.values, pb[k].value))
        BY <2>1
      <4>2. (~IsFn(a.values, pa[k].value) \/ pa[k].name \in BuiltinMethods)
              = (~IsFn(b.values, pb[k].value) \/ pb[k].name \in BuiltinMethods)
        BY <4>1
      <4> QED BY <4>1, <4>2 DEF Same, Static, Item
    <3> QED BY <3>1, <3>2
  <2> QED BY <2>1, <2>2, <2>3 DEF Twins
<1>7. Twins(ownA, ownB)
  <2>1. Same(Own(a.values, key, f), Own(b.values, key, g))
    BY DEF Same, Own, Item
  <2> QED BY <2>1 DEF Twins
<1> DEFINE All == {methodsA[k] : k \in DOMAIN methodsA} \cup {methodsB[k] : k \in DOMAIN methodsB}
                    \cup {staticsA[k] : k \in DOMAIN staticsA} \cup {staticsB[k] : k \in DOMAIN staticsB}
                    \cup {Own(a.values, key, f), Own(b.values, key, g)}
<1>8. /\ methodsA \in Seq(All) /\ methodsB \in Seq(All) /\ staticsA \in Seq(All) /\ staticsB \in Seq(All)
      /\ ownA \in Seq(All) /\ ownB \in Seq(All) /\ <<>> \in Seq(All)
  <2>1. \A s \in {ma, mb, pa, pb} : DOMAIN s = 1..Len(s) /\ Len(s) \in Nat
    BY <1>2, <1>3, LenProperties
  <2> HIDE DEF ma, mb, pa, pb
  <2>2. DOMAIN methodsA = 1..Len(ma) /\ DOMAIN methodsB = 1..Len(mb)
        /\ DOMAIN staticsA = 1..Len(pa) /\ DOMAIN staticsB = 1..Len(pb)
    BY <2>1
  <2>3. methodsA = [k \in 1..Len(ma) |-> methodsA[k]] /\ methodsB = [k \in 1..Len(mb) |-> methodsB[k]]
        /\ staticsA = [k \in 1..Len(pa) |-> staticsA[k]] /\ staticsB = [k \in 1..Len(pb) |-> staticsB[k]]
    BY <2>1
  <2> HIDE DEF methodsA, methodsB, staticsA, staticsB
  <2>4. methodsA \in [1..Len(ma) -> All] /\ methodsB \in [1..Len(mb) -> All]
        /\ staticsA \in [1..Len(pa) -> All] /\ staticsB \in [1..Len(pb) -> All]
    BY <2>2, <2>3
  <2>5. Own(a.values, key, f) \in All /\ Own(b.values, key, g) \in All
    OBVIOUS
  <2> HIDE DEF All
  <2>6. ownA \in Seq(All) /\ ownB \in Seq(All) /\ <<>> \in Seq(All)
    BY <2>5
  <2> QED BY <2>1, <2>4, <2>6, FunctionIsSeq
<1> HIDE DEF methodsA, methodsB, staticsA, staticsB, ownA, ownB, All, key
<1>9. Twins(methodsA \o staticsA, methodsB \o staticsB)
  BY <1>5, <1>6, <1>8, TwinsJoin
<1>10. methodsA \o staticsA \in Seq(All) /\ methodsB \o staticsB \in Seq(All)
  BY <1>8, Concatenated
<1>11. Twins(<<>>, <<>>)
  BY DEF Twins
<1>12. CASE IsConstr(S, key)
  BY <1>4, <1>7, <1>8, <1>9, <1>10, <1>12, TwinsJoin
<1>13. CASE ~IsConstr(S, key)
  BY <1>4, <1>7, <1>8, <1>11, <1>13, TwinsJoin
<1> QED BY <1>12, <1>13

LEMMA AlikeAdds ==
  ASSUME NEW a \in Images, NEW b \in Images, Alike(a, b), NEW x, NEW S, NEW n \in 0..Len(Refs(a)),
         NEW i, NEW j
  PROVE  /\ Adds(a, x, S, n, i, j) <=> Adds(b, x, S, n, i, j)
         /\ Adds(a, x, S, n, i, j) => Same(ItemsAt(a, S, i)[j], ItemsAt(b, S, i)[j])
<1>1. Len(Refs(a)) \in Nat /\ Len(Refs(a)) = Len(Refs(b))
  BY AlikeRefs, RefsAreTyped
<1>2. CASE i \in 1..n
  <2>1. i \in 1..Len(Refs(a)) /\ Refs(a)[i][1] = Refs(b)[i][1]
    <3>1. i \in 1..Len(Refs(a))
      BY <1>1, <1>2
    <3> QED BY <3>1, AlikeRefs
  <2>2. Twins(ItemsAt(a, S, i), ItemsAt(b, S, i))
    BY <2>1, AlikeItems
  <2>3. Handled(a, x, S, n, i) <=> Handled(b, x, S, n, i)
    BY <2>1 DEF Handled
  <2>4. \A k \in DOMAIN ItemsAt(a, S, i) : Same(ItemsAt(a, S, i)[k], ItemsAt(b, S, i)[k])
    BY <2>2 DEF Twins
  <2>5. \A k \in DOMAIN ItemsAt(a, S, i) : Open(ItemsAt(a, S, i)[k], x) <=> Open(ItemsAt(b, S, i)[k], x)
    BY <2>4 DEF Same, Open
  <2>6. DOMAIN ItemsAt(a, S, i) = DOMAIN ItemsAt(b, S, i)
    BY <2>2 DEF Twins
  <2> QED BY <2>3, <2>4, <2>5, <2>6 DEF Adds
<1>3. CASE i \notin 1..n
  BY <1>3 DEF Adds, Handled
<1> QED BY <1>2, <1>3

LEMMA AlikeJoined ==
  ASSUME NEW a \in Images, NEW b \in Images, Alike(a, b), NEW x, NEW S, Joined(a, x, "syntest", S)
  PROVE  Joined(b, x, "syntest", S)
<1> DEFINE N == Len(Refs(a))
<1>1. N \in Nat /\ N \in 0..Len(Refs(a)) /\ Len(Refs(b)) = N
  BY RefsAreTyped, AlikeRefs
<1>2. IsSchema(S) /\ StdKept(S) /\ Agrees(a, x, AddStd(S)) /\ Reached(a, x, S, N)
  BY DEF Joined
<1> HIDE DEF N
<1>3. Agrees(b, x, AddStd(S))
  <2> DEFINE T == AddStd(S)
  <2> SUFFICES ASSUME NEW i \in Nat, NEW j \in Nat, Adds(b, x, T, N, i, j), ItemsAt(b, T, i)[j].id \in DOMAIN T
               PROVE  T[ItemsAt(b, T, i)[j].id].callconv \in ItemsAt(b, T, i)[j].expected
    BY <1>1 DEF Agrees
  <2> HIDE DEF T
  <2>1. Adds(a, x, T, N, i, j) /\ Same(ItemsAt(a, T, i)[j], ItemsAt(b, T, i)[j])
    BY <1>1, AlikeAdds
  <2>2. Agrees(a, x, T)
    BY <1>2 DEF T
  <2>3. ItemsAt(a, T, i)[j].id \in DOMAIN T
    BY <2>1 DEF Same
  <2>4. T[ItemsAt(a, T, i)[j].id].callconv \in ItemsAt(a, T, i)[j].expected
    BY <2>1, <2>2, <2>3 DEF Agrees, N
  <2> QED BY <2>1, <2>4 DEF Same
<1>4. Reached(b, x, S, Len(Refs(b)))
  <2> SUFFICES ASSUME NEW id \in DOMAIN S \ StdNames
               PROVE  \E i, j \in Nat : Adds(b, x, S, N, i, j) /\ ItemsAt(b, S, i)[j].id = id
    BY <1>1 DEF Reached
  <2>1. PICK i \in Nat, j \in Nat : Adds(a, x, S, N, i, j) /\ ItemsAt(a, S, i)[j].id = id
    BY <1>2 DEF Reached
  <2>2. Adds(b, x, S, N, i, j) /\ Same(ItemsAt(a, S, i)[j], ItemsAt(b, S, i)[j])
    BY <1>1, <2>1, AlikeAdds
  <2> QED BY <2>1, <2>2 DEF Same
<1> QED BY <1>2, <1>3, <1>4 DEF Joined

(* The schema of a rewritten text that cannot be read again says nothing,  *)
(* which any image agrees with: no built-in is named like what a reference *)
(* that is named like a built-in adds besides itself.                      *)
LEMMA StdFronts ==
  ASSUME NEW id \in StdNames
  PROVE  Front(id) \notin StdNames
<1>1. \A std \in StdNames : std = BufferFrom \/ \E c \in DOMAIN StdArgs : std = <<c>>
  BY DEF StdNames, StdSchema
<1>2. "Buffer" \notin DOMAIN StdArgs
  BY DEF StdArgs
<1>3. CASE id = BufferFrom
  <2>1. Front(id) = <<"Buffer">>
    <3> DEFINE buffer == "Buffer"  from == "from"
    <3>1. id = Append(<<buffer>>, from)
      BY <1>3 DEF BufferFrom
    <3> HIDE DEF buffer, from
    <3>2. <<buffer>> \in Seq({buffer, from}) /\ from \in {buffer, from}
      OBVIOUS
    <3>3. Front(id) = <<buffer>>
      BY <3>1, <3>2, FrontOfAppend
    <3> QED BY <3>3 DEF buffer
  <2>2. <<"Buffer">> # BufferFrom
    BY DEF BufferFrom
  <2>3. \A c : <<c>> = <<"Buffer">> => c = "Buffer"
    OBVIOUS
  <2> QED BY <1>1, <1>2, <2>1, <2>2, <2>3
<1>4. CASE id # BufferFrom
  <2>1. PICK c \in DOMAIN StdArgs : id = <<c>>
    BY <1>1, <1>4
  <2>2. Front(id) = <<>>
    <3>1. id = Append(<<>>, c) /\ <<>> \in Seq({c})
      BY <2>1, Singles
    <3> QED BY <3>1, FrontOfAppend
  <2>3. <<>> # BufferFrom /\ \A d : <<>> # <<d>>
    BY DEF BufferFrom
  <2> QED BY <1>1, <2>2, <2>3
<1> QED BY <1>3, <1>4

LEMMA NothingIsJoined ==
  ASSUME NEW l \in Images, NEW x
  PROVE  Joined(l, x, "syntest", NoField)
<1>1. IsSchema(NoField) /\ DOMAIN NoField = {}
  BY EmptyIsSchema
<1>2. StdKept(NoField) /\ Reached(l, x, NoField, Len(Refs(l)))
  BY <1>1 DEF StdKept, Reached
<1>3. Agrees(l, x, AddStd(NoField))
  <2> DEFINE T == AddStd(NoField)
  <2>1. IsSchema(T) /\ DOMAIN T = StdNames
    BY <1>1, AddStdFacts
  <2>2. \A id \in StdNames : T[id].callconv \in Conventions
    <3>1. ASSUME NEW id \in StdNames PROVE T[id].callconv \in Conventions
      <4>1. Keeps(id, T[id])
        BY <2>1 DEF IsSchema, Conventional
      <4> HIDE DEF T
      <4> QED BY <4>1 DEF Keeps, Conventions
    <3> QED BY <3>1
  <2> HIDE DEF T
  <2> SUFFICES ASSUME NEW i \in Nat, NEW j \in Nat, Adds(l, x, T, Len(Refs(l)), i, j),
                      ItemsAt(l, T, i)[j].id \in DOMAIN T
               PROVE  T[ItemsAt(l, T, i)[j].id].callconv \in ItemsAt(l, T, i)[j].expected
    BY DEF Agrees, T
  <2>3. /\ i \in 1..Len(Refs(l)) /\ Refs(l)[i][1] \in StdNames /\ j \in DOMAIN ItemsAt(l, T, i)
        /\ ItemsAt(l, T, i)[j].id \in StdNames
    BY <2>1 DEF Adds, Handled
  <2>4. ItemOK(ItemsAt(l, T, i)[j], Refs(l)[i][1])
    BY <2>3, ItemsAtOK
  <2>5. ItemsAt(l, T, i)[j].id = Refs(l)[i][1]
    BY <2>3, <2>4, StdFronts DEF ItemOK
  <2> QED BY <2>2, <2>3, <2>4, <2>5 DEF ItemOK
<1> QED BY <1>1, <1>2, <1>3 DEF Joined

(* A refinement of a joined schema is one.                                 *)
LEMMA RefinedIsSchema ==
  ASSUME NEW S, NEW T, IsSchema(S), Refines(T, S)
  PROVE  IsSchema(T) /\ Sub(T, S)
<1>1. ASSUME NEW id \in DOMAIN T PROVE Keeps(id, T[id])
  <2>1. /\ id \in DOMAIN S /\ T[id].callconv = S[id].callconv
        /\ S[id].callconv = "Method" => T[id].args # <<>> /\ T[id].args[1] = S[id].args[1]
        /\ S[id].callconv = "Constructor" => T[id].ret = S[id].ret
    BY DEF Refines
  <2>2. Keeps(id, S[id])
    BY <2>1 DEF IsSchema, Conventional
  <2> QED BY <2>1, <2>2 DEF Keeps
<1>2. Sub(T, S)
  BY DEF Refines, Sub
<1>3. T = [id \in DOMAIN T |-> T[id]]
  BY DEF Refines
<1> QED BY <1>1, <1>2, <1>3 DEF IsSchema, Conventional

LEMMA RefinedIsJoined ==
  ASSUME NEW l \in Images, NEW x, NEW S, NEW T, Joined(l, x, "syntest", S), Refines(T, S)
  PROVE  Joined(l, x, "syntest", T)
<1> DEFINE N == Len(Refs(l))
<1>1. N \in Nat /\ IsSchema(S) /\ StdKept(S) /\ Agrees(l, x, AddStd(S)) /\ Reached(l, x, S, N)
  BY RefsAreTyped DEF Joined
<1>2. IsSchema(T) /\ Sub(T, S)
  BY <1>1, RefinedIsSchema
<1>3. StdKept(T)
  BY <1>1, <1>2 DEF StdKept, Sub
<1>4. Agrees(l, x, AddStd(T))
  <2>1. Sub(AddStd(T), AddStd(S))
    <3>1. Sub(S, AddStd(S)) /\ IsSchema(AddStd(S)) /\ StdKept(AddStd(S)) /\ StdNames \subseteq DOMAIN AddStd(S)
      BY <1>1, SubOfStd, AddStdFacts
    <3>2. Sub(T, AddStd(S))
      BY <1>2, <3>1 DEF Sub
    <3> QED BY <1>2, <3>1, <3>2, StdOfSub
  <2> QED BY <1>1, <2>1, AgreesBelow
<1>5. Reached(l, x, T, N)
  <2> SUFFICES ASSUME NEW id \in DOMAIN T \ StdNames
               PROVE  \E i, j \in Nat : Adds(l, x, T, N, i, j) /\ ItemsAt(l, T, i)[j].id = id
    BY DEF Reached
  <2>1. id \in DOMAIN S \ StdNames
    BY <1>2 DEF Sub
  <2>2. PICK i \in Nat, j \in Nat : Adds(l, x, S, N, i, j) /\ ItemsAt(l, S, i)[j].id = id
    BY <1>1, <2>1 DEF Reached
  <2>3. i \in 1..N /\ Refs(l)[i][1] \in DOMAIN S /\ j \in DOMAIN ItemsAt(l, S, i)
    BY <2>2 DEF Adds, Handled
  <2>4. id = Refs(l)[i][1] \/ Front(id) = Refs(l)[i][1]
    BY <2>2, <2>3, ItemsAtOK DEF ItemOK
  <2>5. Refs(l)[i][1] \in DOMAIN T
    BY <2>3, <2>4 DEF Refines
  <2>6. Adds(l, x, T, N, i, j) /\ ItemsAt(l, S, i) = ItemsAt(l, T, i)
    BY <1>1, <1>2, <2>2, <2>5, AddsDown
  <2> QED BY <2>2, <2>6
<1> QED BY <1>2, <1>3, <1>4, <1>5 DEF Joined

-----------------------------------------------------------------------------
(* The mapping.                                                            *)

(* One reference more.                                                     *)
LEMMA PartlyStep ==
  ASSUME NEW l \in Images, NEW x, NEW only \in BOOLEAN, NEW s, NEW h \in Nat, h + 1 \in 1..Len(Refs(l)),
         Partly(l, x, only, s, h)
  PROVE  LET opts == [skip |-> x, onlyKnown |-> only]
             t == MapFunctionReference(l.values, s, opts, Refs(l)[h + 1][1], Refs(l)[h + 1][2])
         IN /\ IsState(t) /\ Conventional(t.schema)
            /\ only => t.schema = s.schema
            /\ KnowsNothing(s.schema) => KnowsNothing(t.schema)
            /\ ~t.failed => Partly(l, x, only, t, h + 1)
            /\ t.failed /\ only =>
                 \E j \in Nat : /\ Adds(l, x, s.schema, h + 1, h + 1, j)
                                /\ ItemsAt(l, s.schema, h + 1)[j].id \in DOMAIN s.schema
                                /\ s.schema[ItemsAt(l, s.schema, h + 1)[j].id].callconv
                                     \notin ItemsAt(l, s.schema, h + 1)[j].expected
<1> DEFINE opts == [skip |-> x, onlyKnown |-> only]
           key == Refs(l)[h + 1][1]
           S == s.schema
           t == MapFunctionReference(l.values, s, opts, key, Refs(l)[h + 1][2])
           T == t.schema
           items == ItemsAt(l, S, h + 1)
           n == Len(items)
<1>1. /\ IsState(s) /\ ~s.failed /\ Conventional(S) /\ StdKept(S)
      /\ StdNames \subseteq DOMAIN S /\ StdNames \subseteq DOMAIN s.endpoints
      /\ \A id \in DOMAIN s.endpoints \ StdNames :
           \E i, j \in Nat : Adds(l, x, S, h, i, j) /\ ItemsAt(l, S, i)[j].id = id
      /\ \A i, j \in Nat : Adds(l, x, S, h, i, j) =>
           /\ ItemsAt(l, S, i)[j].id \in DOMAIN S =>
                /\ ItemsAt(l, S, i)[j].id \in DOMAIN s.endpoints
                /\ S[ItemsAt(l, S, i)[j].id].callconv \in ItemsAt(l, S, i)[j].expected
           /\ ~only => ItemsAt(l, S, i)[j].id \in DOMAIN S
      /\ ~only => \A i \in 1..h : Refs(l)[i][1] \notin x => Refs(l)[i][1] \in DOMAIN S
  BY DEF Partly
<1>2. opts.skip = x /\ opts.onlyKnown = only
  OBVIOUS
<1>3. /\ n \in Nat \ {0} /\ DOMAIN items = 1..n /\ items[1].id = key /\ ~items[1].hidden
      /\ \A j \in 1..n : ItemOK(items[j], key)
  BY ItemsAtOK
<1>4. h + 1 \in Nat /\ \A i \in 1..(h + 1) : i \in 1..h \/ i = h + 1
  OBVIOUS
<1>5. \A i \in 1..h : i \in 1..(h + 1) /\ i \in Nat
  OBVIOUS
<1>6. items = Items(l.values, S, key, Refs(l)[h + 1][2])
  BY DEF ItemsAt
<1> HIDE DEF opts
<1>7. CASE Filtered(s, opts, key)
  <2>1. t = s
    BY <1>7 DEF MapFunctionReference
  <2>2. key \in x \/ (only /\ key \notin DOMAIN S)
    BY <1>2, <1>7 DEF Filtered
  <2> HIDE DEF t, items, n
  <2>3. \A i, j : Adds(l, x, S, h + 1, i, j) => i \in 1..h /\ Adds(l, x, S, h, i, j)
    BY <1>4, <2>2 DEF Adds, Handled, key
  <2>4. \A i, j : Adds(l, x, S, h, i, j) => Adds(l, x, S, h + 1, i, j)
    BY <1>5 DEF Adds, Handled
  <2>5. ~only => \A i \in 1..(h + 1) : Refs(l)[i][1] \notin x => Refs(l)[i][1] \in DOMAIN S
    BY <1>1, <1>4, <2>2 DEF key
  <2>6. Partly(l, x, only, s, h + 1)
    <3>1. \A id \in DOMAIN s.endpoints \ StdNames :
            \E i, j \in Nat : Adds(l, x, S, h + 1, i, j) /\ ItemsAt(l, S, i)[j].id = id
      BY <1>1, <2>4
    <3>2. \A i, j \in Nat : Adds(l, x, S, h + 1, i, j) =>
            /\ ItemsAt(l, S, i)[j].id \in DOMAIN S =>
                 /\ ItemsAt(l, S, i)[j].id \in DOMAIN s.endpoints
                 /\ S[ItemsAt(l, S, i)[j].id].callconv \in ItemsAt(l, S, i)[j].expected
            /\ ~only => ItemsAt(l, S, i)[j].id \in DOMAIN S
      BY <1>1, <2>3
    <3> QED BY <1>1, <2>5, <3>1, <3>2 DEF Partly
  <2> QED BY <1>1, <2>1, <2>6 DEF t, T, S, key, opts
<1>8. CASE ~Filtered(s, opts, key)
  <2>1. key \notin x /\ (only => key \in DOMAIN S)
    BY <1>2, <1>8 DEF Filtered
  <2>2. After(s, opts, items, n, t)
    <3>1. \A j \in 1..n : items[j].signature.callconv \in items[j].expected
      BY <1>3 DEF ItemOK
    <3> HIDE DEF items
    <3> QED BY <1>1, <1>3, <1>6, <1>8, <3>1, MapsItems
  <2> HIDE DEF t, items, n
  <2>3. /\ IsState(t) /\ DOMAIN S \subseteq DOMAIN T /\ \A id \in DOMAIN S : T[id] = S[id]
        /\ only => T = S
        /\ \A id \in DOMAIN T \ DOMAIN S : \E j \in 1..n : id = items[j].id /\ T[id] = items[j].signature
        /\ DOMAIN s.endpoints \subseteq DOMAIN t.endpoints
        /\ \A id \in DOMAIN t.endpoints \ DOMAIN s.endpoints :
             \E j \in 1..n : Open(items[j], x) /\ id = items[j].id
        /\ \A j \in 1..n : Open(items[j], x) =>
             /\ ~only => items[j].id \in DOMAIN T
             /\ items[j].id \in DOMAIN T => items[j].id \in DOMAIN t.endpoints
             /\ items[j].id \in DOMAIN T => t.failed \/ T[items[j].id].callconv \in items[j].expected
        /\ t.failed =>
             \E j \in 1..n : /\ Open(items[j], x) /\ items[j].id \in DOMAIN T
                             /\ T[items[j].id].callconv \notin items[j].expected
    BY <1>1, <1>2, <2>2 DEF After
  <2> HIDE DEF T, S
  <2>4. Sub(S, T)
    BY <2>3 DEF Sub
  <2>5. \A j \in 1..n : Keeps(items[j].id, items[j].signature) /\ IsNoInfoSignature(items[j].signature)
    BY <1>3 DEF ItemOK
  <2>6. Conventional(T)
    BY <1>1, <2>3, <2>5 DEF Conventional
  <2>7. KnowsNothing(S) => KnowsNothing(T)
    BY <2>3, <2>5 DEF KnowsNothing
  <2>8. StdKept(T) /\ StdNames \subseteq DOMAIN T /\ StdNames \subseteq DOMAIN t.endpoints
    BY <1>1, <2>3 DEF StdKept
  <2>9. key \in DOMAIN T
    <3>1. CASE only
      BY <2>1, <2>3, <3>1
    <3>2. CASE ~only
      <4>1. 1 \in 1..n /\ Open(items[1], x)
        BY <1>3, <2>1 DEF Open
      <4> QED BY <1>3, <2>3, <3>2, <4>1
    <3> QED BY <3>1, <3>2
  <2>10. IsConstr(T, key) <=> IsConstr(S, key)
    <3>1. CASE key \in DOMAIN S
      BY <2>3, <3>1 DEF IsConstr
    <3>2. CASE key \notin DOMAIN S
      <4>1. PICK j \in 1..n : key = items[j].id /\ T[key] = items[j].signature
        BY <2>3, <2>9, <3>2
      <4>2. T[key].callconv = "Constructor" <=> IsConstructor(key)
        BY <1>3, <4>1 DEF ItemOK
      <4> QED BY <3>2, <4>2 DEF IsConstr
    <3> QED BY <3>1, <3>2
  <2>11. ItemsAt(l, T, h + 1) = items
    BY <1>6, <2>10 DEF ItemsAt, Items, key
  <2>12. \A j : Adds(l, x, T, h + 1, h + 1, j) <=> j \in 1..n /\ Open(items[j], x)
    BY <1>3, <2>1, <2>9, <2>11 DEF Adds, Handled, key
  <2>13. ASSUME NEW i \in 1..h, NEW j, Adds(l, x, T, h + 1, i, j)
         PROVE  Adds(l, x, S, h, i, j) /\ ItemsAt(l, T, i) = ItemsAt(l, S, i)
    <3>1. Adds(l, x, T, h, i, j) /\ Refs(l)[i][1] \notin x /\ Refs(l)[i][1] \in DOMAIN T
      BY <2>13 DEF Adds, Handled
    <3>2. Refs(l)[i][1] \in DOMAIN S
      BY <1>1, <2>3, <3>1
    <3>3. Adds(l, x, S, h, i, j) /\ ItemsAt(l, T, i) = ItemsAt(l, S, i)
      <4> HIDE DEF key
      <4> QED BY <2>4, <3>1, <3>2, AddsDown, SMTT(30)
    <3> QED BY <3>3
  <2>14. ASSUME NEW i, NEW j, Adds(l, x, S, h, i, j)
         PROVE  Adds(l, x, T, h + 1, i, j) /\ ItemsAt(l, T, i) = ItemsAt(l, S, i)
    <3>1. Adds(l, x, T, h, i, j) /\ ItemsAt(l, T, i) = ItemsAt(l, S, i)
      BY <2>4, <2>14, AddsUp
    <3> QED BY <1>5, <3>1 DEF Adds, Handled
  <2>15. \A j \in 1..n : j \in Nat
    BY <1>3
  <2>16. ASSUME NEW id \in DOMAIN t.endpoints \ StdNames
         PROVE  \E i, j \in Nat : Adds(l, x, T, h + 1, i, j) /\ ItemsAt(l, T, i)[j].id = id
    <3>1. CASE id \in DOMAIN s.endpoints
      <4>1. PICK i \in Nat, j \in Nat : Adds(l, x, S, h, i, j) /\ ItemsAt(l, S, i)[j].id = id
        BY <1>1, <3>1
      <4> QED BY <2>14, <4>1
    <3>2. CASE id \notin DOMAIN s.endpoints
      <4>1. PICK j \in 1..n : Open(items[j], x) /\ id = items[j].id
        BY <2>3, <3>2
      <4> QED BY <1>4, <2>11, <2>12, <2>15, <4>1
    <3> QED BY <3>1, <3>2
  <2>17. ASSUME ~t.failed, NEW i \in Nat, NEW j \in Nat, Adds(l, x, T, h + 1, i, j)
         PROVE  LET item == ItemsAt(l, T, i)[j]
                IN /\ item.id \in DOMAIN T => item.id \in DOMAIN t.endpoints /\ T[item.id].callconv \in item.expected
                   /\ ~only => item.id \in DOMAIN T
    <3>0. i \in 1..(h + 1)
      BY <2>17 DEF Adds, Handled
    <3>1. CASE i = h + 1
      <4>1. j \in 1..n /\ Open(items[j], x)
        BY <2>12, <2>17, <3>1
      <4> QED BY <2>3, <2>11, <2>17, <3>1, <4>1
    <3>2. CASE i \in 1..h
      <4>1. Adds(l, x, S, h, i, j) /\ ItemsAt(l, T, i) = ItemsAt(l, S, i)
        BY <2>13, <2>17, <3>2
      <4> DEFINE item == ItemsAt(l, T, i)[j]
      <4>2. /\ item.id \in DOMAIN S => item.id \in DOMAIN s.endpoints /\ S[item.id].callconv \in item.expected
            /\ ~only => item.id \in DOMAIN S
        BY <1>1, <4>1
      <4> HIDE DEF item
      <4>3. item.id \in DOMAIN T => item.id \in DOMAIN S
        BY <2>3, <4>2
      <4> QED BY <2>3, <4>2, <4>3 DEF item
    <3> QED BY <1>4, <3>0, <3>1, <3>2
  <2>18. ~only => \A i \in 1..(h + 1) : Refs(l)[i][1] \notin x => Refs(l)[i][1] \in DOMAIN T
    BY <1>1, <1>4, <2>3, <2>9 DEF key
  <2>19. ~t.failed => Partly(l, x, only, t, h + 1)
    BY <2>3, <2>6, <2>8, <2>16, <2>17, <2>18 DEF Partly, T
  <2>20. ASSUME t.failed, only
         PROVE  \E j \in Nat : /\ Adds(l, x, S, h + 1, h + 1, j)
                               /\ ItemsAt(l, S, h + 1)[j].id \in DOMAIN S
                               /\ S[ItemsAt(l, S, h + 1)[j].id].callconv
                                    \notin ItemsAt(l, S, h + 1)[j].expected
    <3>1. T = S
      BY <2>3, <2>20
    <3>2. PICK j \in 1..n : /\ Open(items[j], x) /\ items[j].id \in DOMAIN T
                            /\ T[items[j].id].callconv \notin items[j].expected
      BY <2>3, <2>20
    <3> QED BY <2>11, <2>12, <2>15, <3>1, <3>2
  <2> QED BY <2>3, <2>6, <2>7, <2>19, <2>20 DEF t, T, S, key, opts
<1> QED BY <1>7, <1>8


(* Before the first.                                                       *)
LEMMA NoneYet ==
  ASSUME NEW l, NEW x, NEW only, NEW S, IsSchema(S)
  PROVE  Standard(S).schema = AddStd(S) /\ Partly(l, x, only, Standard(S), 0)
<1> DEFINE s == Standard(S)
<1>1. s = [schema |-> AddStd(S), endpoints |-> [id \in StdNames |-> id], failed |-> FALSE]
  BY DEF Standard
<1> HIDE DEF s
<1>2. s.schema = AddStd(S) /\ DOMAIN s.endpoints = StdNames /\ ~s.failed
  BY <1>1
<1>3. IsSchema(AddStd(S)) /\ StdKept(AddStd(S)) /\ StdNames \subseteq DOMAIN AddStd(S)
  BY AddStdFacts
<1>4. IsState(s)
  BY <1>1, <1>2, <1>3 DEF IsState, IsSchema
<1>5. 1..0 = {}
  OBVIOUS
<1>6. \A i, j : ~Adds(l, x, s.schema, 0, i, j)
  BY <1>5 DEF Adds, Handled
<1> QED BY <1>2, <1>3, <1>4, <1>5, <1>6 DEF Partly, IsSchema, s

(* What is left to be mapped.                                              *)
LEMMA LeftOver ==
  ASSUME NEW S, NEW s \in Seq(S), NEW h \in 0..Len(s)
  PROVE  /\ SubSeq(s, h + 1, Len(s)) = <<>> => h = Len(s)
         /\ SubSeq(s, h + 1, Len(s)) # <<>> =>
              /\ h + 1 \in 1..Len(s) /\ h + 1 \in 0..Len(s)
              /\ Head(SubSeq(s, h + 1, Len(s))) = s[h + 1]
              /\ Tail(SubSeq(s, h + 1, Len(s))) = SubSeq(s, (h + 1) + 1, Len(s))
<1>1. Len(s) \in Nat
  BY LenProperties
<1>2. CASE h = Len(s)
  <2>1. SubSeq(s, h + 1, Len(s)) = <<>>
    BY <1>1, <1>2, SubSeqEmpty
  <2> QED BY <1>2, <2>1
<1>3. CASE h # Len(s)
  <2>1. h + 1 \in 1..Len(s) /\ h + 1 \in 0..Len(s) /\ Len(s) \in (h + 1)..Len(s) /\ h + 1 <= Len(s)
    BY <1>1, <1>3
  <2>2. SubSeq(s, h + 1, Len(s)) # <<>>
    <3>1. \A i \in (h + 1)..Len(s) : s[i] \in S
      BY <1>1, <2>1, ElementOfSeq
    <3>2. Len(SubSeq(s, h + 1, Len(s))) = Len(s) - (h + 1) + 1
      BY <1>1, <2>1, <3>1, SubSeqProperties
    <3> DEFINE rest == SubSeq(s, h + 1, Len(s))  n == Len(s)
    <3>3. n \in Nat /\ h + 1 <= n /\ h \in Nat /\ Len(rest) = n - (h + 1) + 1
      BY <1>1, <2>1, <3>2
    <3> HIDE DEF rest, n
    <3>4. Len(rest) # 0
      BY <3>3
    <3> QED BY <3>4, EmptySeq DEF rest, n
  <2> QED BY <2>1, <2>2, HeadTailOfSubSeq
<1> QED BY <1>2, <1>3

(* After the last: what has no endpoint is dropped.                        *)
LEMMA BackedFacts ==
  ASSUME NEW s, IsState(s), Conventional(s.schema)
  PROVE  LET T == RemoveInvalidEndpoints(s.schema, s.endpoints)
         IN /\ IsSchema(T) /\ DOMAIN T = DOMAIN s.schema \cap DOMAIN s.endpoints
            /\ \A id \in DOMAIN T : T[id] = s.schema[id]
            /\ Sub(T, s.schema)
<1> DEFINE T == RemoveInvalidEndpoints(s.schema, s.endpoints)
<1>1. /\ T = [id \in DOMAIN T |-> T[id]] /\ DOMAIN T = DOMAIN s.schema \cap DOMAIN s.endpoints
      /\ \A id \in DOMAIN T : T[id] = s.schema[id]
  BY DEF RemoveInvalidEndpoints
<1> QED BY <1>1 DEF IsSchema, Conventional, Sub

LEMMA JoinedAtEnd ==
  ASSUME NEW l \in Images, NEW x, NEW only, NEW m, NEW s, Partly(l, x, only, s, Len(Refs(l))),
         m = "dynamic" => ~only /\ KnowsNothing(s.schema)
  PROVE  Joined(l, x, m, RemoveInvalidEndpoints(s.schema, s.endpoints))
<1> DEFINE S == s.schema  E == s.endpoints  N == Len(Refs(l))
           T == RemoveInvalidEndpoints(S, E)
<1>1. /\ IsState(s) /\ Conventional(S) /\ StdKept(S)
      /\ StdNames \subseteq DOMAIN S /\ StdNames \subseteq DOMAIN E
      /\ \A id \in DOMAIN E \ StdNames :
           \E i, j \in Nat : Adds(l, x, S, N, i, j) /\ ItemsAt(l, S, i)[j].id = id
      /\ \A i, j \in Nat : Adds(l, x, S, N, i, j) =>
           /\ ItemsAt(l, S, i)[j].id \in DOMAIN S =>
                /\ ItemsAt(l, S, i)[j].id \in DOMAIN E
                /\ S[ItemsAt(l, S, i)[j].id].callconv \in ItemsAt(l, S, i)[j].expected
           /\ ~only => ItemsAt(l, S, i)[j].id \in DOMAIN S
      /\ ~only => \A i \in 1..N : Refs(l)[i][1] \notin x => Refs(l)[i][1] \in DOMAIN S
  BY DEF Partly
<1>2. N \in Nat /\ N \in 0..Len(Refs(l)) /\ 1 \in Nat
  BY RefsAreTyped
<1>3. /\ IsSchema(T) /\ DOMAIN T = DOMAIN S \cap DOMAIN E
      /\ \A id \in DOMAIN T : T[id] = S[id]
      /\ Sub(T, S)
  BY <1>1, BackedFacts
<1>4. IsSchema(S)
  BY <1>1 DEF IsState, IsSchema
<1> HIDE DEF T, S, E, N
<1>5. StdNames \subseteq DOMAIN T /\ StdKept(T) /\ Sub(AddStd(T), S)
  BY <1>1, <1>3, <1>4, StdOfSub
<1>6. Agrees(l, x, S)
  BY <1>1 DEF Agrees, N
<1>7. Agrees(l, x, AddStd(T))
  BY <1>5, <1>6, AgreesBelow
<1>8. ASSUME NEW i, Handled(l, x, S, N, i) PROVE Refs(l)[i][1] \in DOMAIN T
  <2>1. i \in Nat /\ Adds(l, x, S, N, i, 1) /\ ItemsAt(l, S, i)[1].id = Refs(l)[i][1]
    BY <1>2, <1>8, AddsItself
  <2>2. Refs(l)[i][1] \in DOMAIN S
    BY <1>8 DEF Handled
  <2> QED BY <1>1, <1>2, <1>3, <2>1, <2>2
<1>9. Reached(l, x, T, N)
  <2> SUFFICES ASSUME NEW id \in DOMAIN T \ StdNames
               PROVE  \E i, j \in Nat : Adds(l, x, T, N, i, j) /\ ItemsAt(l, T, i)[j].id = id
    BY DEF Reached
  <2>1. PICK i \in Nat, j \in Nat : Adds(l, x, S, N, i, j) /\ ItemsAt(l, S, i)[j].id = id
    BY <1>1, <1>3
  <2>2. Refs(l)[i][1] \in DOMAIN T
    BY <1>8, <2>1 DEF Adds
  <2>3. Adds(l, x, T, N, i, j) /\ ItemsAt(l, S, i) = ItemsAt(l, T, i)
    BY <1>2, <1>3, <2>1, <2>2, AddsDown
  <2> QED BY <2>1, <2>3
<1>10. ASSUME m = "dynamic" PROVE KnowsNothing(T) /\ Complete(l, x, T, N)
  <2>1. ~only /\ KnowsNothing(S)
    BY <1>10 DEF S
  <2>2. KnowsNothing(T)
    BY <1>3, <2>1 DEF KnowsNothing
  <2>3. ASSUME NEW i \in 1..N, Refs(l)[i][1] \notin x PROVE Refs(l)[i][1] \in DOMAIN T
    <3>1. Handled(l, x, S, N, i)
      BY <1>1, <2>1, <2>3 DEF Handled
    <3> QED BY <1>8, <3>1
  <2>4. ASSUME NEW i \in Nat, NEW j \in Nat, Adds(l, x, T, N, i, j)
        PROVE  ItemsAt(l, T, i)[j].id \in DOMAIN T
    <3>1. Adds(l, x, S, N, i, j) /\ ItemsAt(l, S, i) = ItemsAt(l, T, i)
      BY <1>2, <1>3, <2>4, AddsUp
    <3> QED BY <1>1, <1>3, <2>1, <3>1
  <2> QED BY <2>2, <2>3, <2>4 DEF Complete
<1> QED BY <1>3, <1>5, <1>7, <1>9, <1>10 DEF Joined, T, S, E, N

Loads(V, x, T, E) ==
  /\ DOMAIN T \subseteq DOMAIN V \cup StdNames
  /\ DOMAIN T \subseteq DOMAIN E
  /\ \A id \in DOMAIN T \ StdNames : T[id] = V[id]
  /\ (DOMAIN T \cup DOMAIN E) \cap x \subseteq StdNames

LoadsAll(V, T) == DOMAIN T = DOMAIN V \cup StdNames

(* Whatever the schema, and with one joined with what is loaded.           *)
LEMMA LoadedAtEnd ==
  ASSUME NEW l \in Images, NEW x, NEW V, NEW only, NEW s,
         IsSchema(V), Partly(l, x, only, s, Len(Refs(l))), s.schema = AddStd(V)
  PROVE  Loads(V, x, RemoveInvalidEndpoints(s.schema, s.endpoints), s.endpoints)
<1> DEFINE S == s.schema  E == s.endpoints  N == Len(Refs(l))
           T == RemoveInvalidEndpoints(S, E)
<1>1. /\ IsState(s) /\ Conventional(S)
      /\ \A id \in DOMAIN E \ StdNames :
           \E i, j \in Nat : Adds(l, x, S, N, i, j) /\ ItemsAt(l, S, i)[j].id = id
  BY DEF Partly
<1>2. DOMAIN T = DOMAIN S \cap DOMAIN E /\ \A id \in DOMAIN T : T[id] = S[id]
  BY <1>1, BackedFacts
<1>3. DOMAIN S = DOMAIN V \cup StdNames /\ \A id \in DOMAIN V \ StdNames : S[id] = V[id]
  BY AddStdFacts
<1> HIDE DEF T, S, E, N
<1>4. ASSUME NEW id \in DOMAIN E \ StdNames PROVE id \notin x
  <2>1. PICK i \in Nat, j \in Nat : Adds(l, x, S, N, i, j) /\ ItemsAt(l, S, i)[j].id = id
    BY <1>1
  <2> QED BY <2>1 DEF Adds, Open
<1>5. Loads(V, x, T, E)
  BY <1>2, <1>3, <1>4 DEF Loads
<1> QED BY <1>5 DEF T, S, E

LEMMA AllIsLoaded ==
  ASSUME NEW l \in Images, NEW x, NEW m, NEW V, NEW only, NEW s,
         Joined(l, x, m, V), Partly(l, x, only, s, Len(Refs(l))), s.schema = AddStd(V)
  PROVE  LoadsAll(V, RemoveInvalidEndpoints(s.schema, s.endpoints))
<1> DEFINE S == s.schema  E == s.endpoints  N == Len(Refs(l))
           T == RemoveInvalidEndpoints(S, E)
<1>1. /\ IsState(s) /\ Conventional(S) /\ StdNames \subseteq DOMAIN E
      /\ \A i, j \in Nat : Adds(l, x, S, N, i, j) =>
           (ItemsAt(l, S, i)[j].id \in DOMAIN S => ItemsAt(l, S, i)[j].id \in DOMAIN E)
  BY DEF Partly
<1>2. N \in Nat /\ IsSchema(V) /\ StdKept(V) /\ Reached(l, x, V, N)
  BY RefsAreTyped DEF Joined
<1>3. DOMAIN T = DOMAIN S \cap DOMAIN E
  BY <1>1, BackedFacts
<1>4. S = AddStd(V) /\ DOMAIN S = DOMAIN V \cup StdNames /\ Sub(V, S)
  BY <1>2, AddStdFacts, SubOfStd
<1> HIDE DEF T, S, E, N
<1>5. ASSUME NEW id \in DOMAIN V \ StdNames PROVE id \in DOMAIN E
  <2>1. PICK i \in Nat, j \in Nat : Adds(l, x, V, N, i, j) /\ ItemsAt(l, V, i)[j].id = id
    BY <1>2 DEF Reached
  <2>2. Adds(l, x, S, N, i, j) /\ ItemsAt(l, S, i) = ItemsAt(l, V, i)
    BY <1>2, <1>4, <2>1, AddsUp
  <2> QED BY <1>1, <1>4, <2>1, <2>2
<1>6. LoadsAll(V, T)
  BY <1>1, <1>3, <1>4, <1>5 DEF LoadsAll
<1> QED BY <1>6 DEF T, S, E

(* Loading what was written fails no assertion.                            *)
LEMMA LoadDoesNotFail ==
  ASSUME NEW l \in Images, NEW x, NEW m, NEW V, Joined(l, x, m, V), NEW h \in Nat,
         h + 1 \in 1..Len(Refs(l)), NEW j \in Nat, Adds(l, x, AddStd(V), h + 1, h + 1, j),
         ItemsAt(l, AddStd(V), h + 1)[j].id \in DOMAIN AddStd(V)
  PROVE  AddStd(V)[ItemsAt(l, AddStd(V), h + 1)[j].id].callconv \in ItemsAt(l, AddStd(V), h + 1)[j].expected
<1>1. Agrees(l, x, AddStd(V))
  BY DEF Joined
<1>2. Adds(l, x, AddStd(V), Len(Refs(l)), h + 1, j)
  BY DEF Adds, Handled
<1>3. h + 1 \in Nat
  OBVIOUS
<1> QED BY <1>1, <1>2, <1>3 DEF Agrees


-----------------------------------------------------------------------------
(* LoadingInv is inductive.                                                *)

LEMMA PreparedFacts ==
  ASSUME NEW m, NEW s, Prepared(m, s)
  PROVE  /\ IsSchema(s.schema) /\ FirstStage(m) \in {"derive", "transform", "reflect"}
         /\ FirstStage(m) = "derive" => m = "decl"
         /\ FirstStage(m) = "transform" => m = "syntest" /\ s.schema = NoField
         /\ FirstStage(m) = "reflect" => s.schema = NoField
<1>1. /\ FirstStage(m) \in {"derive", "transform", "reflect"}
      /\ FirstStage(m) = "derive" => m = "decl"
      /\ FirstStage(m) = "transform" => m = "syntest"
  BY DEF FirstStage
<1>2. IF FirstStage(m) = "derive" THEN IsSchema(s.schema) ELSE s.schema = NoField
  BY DEF Prepared
<1>3. IsSchema(s.schema)
  BY <1>2, EmptyIsSchema
<1> QED BY <1>1, <1>2, <1>3

(* What is imported is an image, and in the mode "syntest" alone it may be *)
(* another in railcar-infer than in the worker.                            *)
Faithful == mode # "syntest" \/ Alike(lib.rewritten, lib.original)

LEMMA ImageFacts ==
  ASSUME LoadingInv
  PROVE  /\ \A m : ImageFor(m) \in Images
         /\ lib.original \in Images /\ lib.rewritten \in Images /\ Image \in Images
         /\ \A m : m # "syntest" => ImageFor(m) = lib.original
         /\ ImageFor("syntest") = lib.rewritten
         /\ round = "infer" => Image = ImageFor(mode)
         /\ round = "load" => Image = lib.original /\ ~Image.throws
<1>1. lib \in Libraries /\ round \in {"infer", "load"}
  BY DEF LoadingInv
<1>2. lib.original \in Images /\ lib.rewritten \in Images /\ ~lib.original.throws
  BY <1>1, LoadingAssumption DEF Images
<1>3. \A m : ImageFor(m) = IF m = "syntest" THEN lib.rewritten ELSE lib.original
  BY DEF ImageFor
<1>4. Image = IF round = "infer" THEN ImageFor(mode) ELSE lib.original
  BY DEF Image
<1> QED BY <1>1, <1>2, <1>3, <1>4

LEMMA SameImages ==
  ASSUME lib' = lib
  PROVE  /\ \A m : ImageFor(m)' = ImageFor(m)
         /\ mode' = mode /\ round' = round => Image' = Image
<1>1. \A m : ImageFor(m)' = ImageFor(m)
  BY DEF ImageFor
<1>2. mode' = mode /\ round' = round => Image' = Image
  BY DEF Image, ImageFor
<1> QED BY <1>1, <1>2

(* What has been joined with the image of a faithful mode is joined with   *)
(* the original.                                                           *)
LEMMA JoinedWithOriginal ==
  ASSUME LoadingInv, NEW m, NEW x, NEW S, Joined(ImageFor(m), x, m, S),
         m # "syntest" \/ Alike(lib.rewritten, lib.original)
  PROVE  Joined(lib.original, x, m, S)
<1>1. CASE m # "syntest"
  BY <1>1, ImageFacts
<1>2. CASE m = "syntest"
  <2>1. Joined(lib.rewritten, x, "syntest", S) /\ Alike(lib.rewritten, lib.original)
    BY <1>2, ImageFacts
  <2>2. lib.rewritten \in Images /\ lib.original \in Images
    BY ImageFacts
  <2>3. Joined(lib.original, x, "syntest", S)
    BY <2>1, <2>2, AlikeJoined
  <2> QED BY <1>2, <2>3
<1> QED BY <1>1, <1>2

LEMMA InitInv == ASSUME LoadingInit PROVE LoadingInv
<1>1. /\ lib \in Libraries /\ round = "infer" /\ stage = FirstStage(mode) /\ Prepared(mode, st)
      /\ files = NoField
  BY DEF LoadingInit
<1>2. /\ IsSchema(st.schema) /\ stage \in {"derive", "transform", "reflect"}
      /\ stage = "derive" => mode = "decl"
      /\ stage = "transform" => mode = "syntest" /\ st.schema = NoField
      /\ stage = "reflect" => st.schema = NoField
  BY <1>1, PreparedFacts
<1>3. DOMAIN files = {}
  BY <1>1, EmptyIsSchema
<1>4. LoadKeeps
  BY <1>1, <1>2 DEF LoadKeeps
<1> QED BY <1>1, <1>2, <1>3, <1>4 DEF LoadingInv, Stages

LEMMA PrepareStep == ASSUME LoadingInv, Prepare PROVE LoadingInv'
<1>1. /\ stage \in {"derive", "transform"} /\ stage' \in {stage, "reflect", "failed", "validate"}
      /\ stage' = "validate" => stage = "transform"
      /\ stage' = "derive" => stage = "derive"
      /\ stage' = "transform" => stage = "transform"
      /\ IF stage = "derive" THEN IsSchema(st'.schema) ELSE st' = st
      /\ lib' = lib /\ mode' = mode /\ skip' = skip /\ round' = round /\ saved' = saved /\ files' = files
  BY DEF Prepare
<1>2. /\ round = "infer" /\ IsSchema(st'.schema)
      /\ stage = "derive" => mode = "decl"
      /\ stage = "transform" => mode = "syntest" /\ st.schema = NoField
  BY <1>1 DEF LoadingInv
<1>3. LoadKeeps'
  BY <1>1, <1>2 DEF LoadKeeps
<1>4. stage' = "validate" => Joined(ImageFor(mode), skip, mode, st'.schema)
  <2> SUFFICES ASSUME stage' = "validate" PROVE Joined(ImageFor(mode), skip, mode, st'.schema)
    OBVIOUS
  <2>1. mode = "syntest" /\ st'.schema = NoField
    BY <1>1, <1>2
  <2>2. Joined(ImageFor(mode), skip, "syntest", NoField)
    BY ImageFacts, NothingIsJoined
  <2> QED BY <2>1, <2>2
<1>5. \A m : ImageFor(m)' = ImageFor(m)
  BY <1>1, SameImages
<1>6. /\ stage' = "validate" => Joined(ImageFor(mode)', skip', mode', st'.schema)
      /\ \A m \in DOMAIN files' : Joined(ImageFor(m)', skip', m, files'[m])
  <2>1. \A m \in DOMAIN files : Joined(ImageFor(m), skip, m, files[m])
    BY DEF LoadingInv
  <2>2. ImageFor(mode)' = ImageFor(mode)
    BY <1>1 DEF ImageFor
  <2> QED BY <1>1, <1>4, <1>5, <2>1, <2>2
<1>7. /\ stage' # "map" /\ stage' # "static" /\ stage' # "written" /\ stage' \in Stages
      /\ stage' = "derive" => round' = "infer" /\ mode' = "decl"
      /\ stage' = "transform" => round' = "infer" /\ mode' = "syntest" /\ st'.schema = NoField
      /\ stage' = "reflect" /\ mode' # "decl" => st'.schema = NoField
      /\ round' = "infer" /\ lib' \in Libraries
  BY <1>1, <1>2 DEF Stages, LoadingInv
<1> QED BY <1>2, <1>3, <1>6, <1>7 DEF LoadingInv

LEMMA LoadLibraryStep == ASSUME LoadingInv, LoadLibrary PROVE LoadingInv'
<1>1. /\ stage = "reflect"
      /\ lib' = lib /\ mode' = mode /\ skip' = skip /\ round' = round /\ saved' = saved /\ files' = files
      /\ \/ Image.throws /\ stage' = "failed" /\ st' = st
         \/ stage' = "map" /\ st' = Standard(st.schema) /\ todo' = Refs(Image)
  BY DEF LoadLibrary, Refs
<1>2. /\ lib \in Libraries /\ IsSchema(st.schema) /\ round \in {"infer", "load"}
      /\ \A m \in DOMAIN files : Joined(ImageFor(m), skip, m, files[m])
      /\ round = "load" => Joined(ImageFor(mode), skip, mode, saved)
  BY DEF LoadingInv
<1>3. /\ \A m : ImageFor(m)' = ImageFor(m)
      /\ Image' = Image /\ ImageFor(mode)' = ImageFor(mode)
  <2>1. ImageFor(mode)' = ImageFor(mode)
    BY <1>1 DEF ImageFor
  <2> QED BY <1>1, <2>1, SameImages
<1>4. /\ \A m \in DOMAIN files' : Joined(ImageFor(m)', skip', m, files'[m])
      /\ round' = "load" => Joined(ImageFor(mode)', skip', mode', saved')
  BY <1>1, <1>2, <1>3
<1>5. CASE Image.throws /\ stage' = "failed" /\ st' = st
  <2>1. round' = "infer"
    BY <1>1, <1>2, <1>5, ImageFacts
  <2>2. LoadKeeps'
    BY <1>5, <2>1 DEF LoadKeeps
  <2> QED BY <1>1, <1>2, <1>4, <1>5, <2>1, <2>2 DEF LoadingInv, Stages
<1>6. CASE stage' = "map" /\ st' = Standard(st.schema) /\ todo' = Refs(Image)
  <2>1. st'.schema = AddStd(st.schema) /\ Partly(Image, skip, Options'.onlyKnown, st', 0)
    BY <1>2, <1>6, NoneYet
  <2>2. IsSchema(st'.schema) /\ DOMAIN st'.schema = DOMAIN st.schema \cup StdNames
    BY <1>2, <2>1, AddStdFacts
  <2>3. mode = "dynamic" /\ round = "infer" => KnowsNothing(st'.schema)
    <3>1. mode = "dynamic" /\ round = "infer" => st.schema = NoField
      BY <1>1 DEF LoadingInv
    <3> QED BY <2>2, <3>1, EmptyIsSchema DEF KnowsNothing
  <2>4. round = "load" => st'.schema = AddStd(saved)
    BY <1>1, <2>1 DEF LoadingInv
  <2>5. MapsTo(0)'
    <3>1. Refs(Image) \in Seq(Ref(Image.values)) /\ Len(Refs(Image)) \in Nat
      BY ImageFacts, RefsAreTyped
    <3>2. SubSeq(Refs(Image), 0 + 1, Len(Refs(Image))) = Refs(Image)
      BY <3>1, SubSeqFull
    <3>3. 0 \in 0..Len(Refs(Image))
      BY <3>1
    <3> DEFINE image == Image
    <3>4. image' = image
      BY <1>3
    <3>5. /\ 0 \in 0..Len(Refs(image)) /\ todo' = SubSeq(Refs(image), 0 + 1, Len(Refs(image)))
          /\ Partly(image, skip', Options'.onlyKnown, st', 0)
      BY <1>1, <1>6, <2>1, <3>2, <3>3
    <3> QED BY <1>1, <1>3, <2>3, <2>4, <3>5 DEF MapsTo
  <2>6. LoadKeeps'
    BY <1>6 DEF LoadKeeps
  <2>7. \E h \in Nat : MapsTo(h)'
    BY <2>5
  <2> QED BY <1>1, <1>2, <1>4, <1>6, <2>2, <2>6, <2>7 DEF LoadingInv, Stages
<1> QED BY <1>1, <1>5, <1>6

LEMMA MapReferenceStep == ASSUME LoadingInv, MapReference PROVE LoadingInv'
<1> DEFINE image == Image  only == Options.onlyKnown  N == Len(Refs(image))
<1>1. /\ stage = "map" /\ todo # <<>> /\ todo' = Tail(todo)
      /\ st' = MapFunctionReference(image.values, st, Options, Head(todo)[1], Head(todo)[2])
      /\ stage' = IF st'.failed THEN "failed" ELSE stage
      /\ lib' = lib /\ mode' = mode /\ skip' = skip /\ round' = round /\ saved' = saved /\ files' = files
  BY DEF MapReference
<1>2. /\ lib \in Libraries /\ (round = "load" => Joined(ImageFor(mode), skip, mode, saved))
      /\ \A m \in DOMAIN files : Joined(ImageFor(m), skip, m, files[m])
  BY DEF LoadingInv
<1>0. /\ image \in Images /\ image' = image
      /\ \A m \in DOMAIN files' : Joined(ImageFor(m)', skip', m, files'[m])
      /\ round' = "load" => Joined(ImageFor(mode)', skip', mode', saved')
  <2>1. \A m : ImageFor(m)' = ImageFor(m)
    BY <1>1, SameImages
  <2>2. ImageFor(mode)' = ImageFor(mode)
    BY <1>1 DEF ImageFor
  <2>3. image \in Images /\ image' = image
    BY <1>1, ImageFacts, SameImages
  <2> QED BY <1>1, <1>2, <2>1, <2>2, <2>3
<1>3. PICK h \in Nat : MapsTo(h)
  BY <1>1 DEF LoadingInv
<1>4. /\ h \in 0..N /\ todo = SubSeq(Refs(image), h + 1, N) /\ Partly(image, skip, only, st, h)
      /\ mode = "dynamic" /\ round = "infer" => KnowsNothing(st.schema)
      /\ round = "load" => st.schema = AddStd(saved)
  BY <1>3 DEF MapsTo
<1>5. only \in BOOLEAN /\ Options = [skip |-> skip, onlyKnown |-> only] /\ (round = "load" => only)
  BY DEF Options
<1>6. /\ h + 1 \in 1..N /\ h + 1 \in 0..N /\ Head(todo) = Refs(image)[h + 1]
      /\ todo' = SubSeq(Refs(image), (h + 1) + 1, N)
  <2>1. Refs(image) \in Seq(Ref(image.values))
    BY <1>0, RefsAreTyped
  <2> HIDE DEF image
  <2> QED BY <1>1, <1>4, <2>1, LeftOver
<1>7. st' = MapFunctionReference(image.values, st, [skip |-> skip, onlyKnown |-> only],
                                 Refs(image)[h + 1][1], Refs(image)[h + 1][2])
  BY <1>1, <1>5, <1>6
<1>8. only' = only
  BY <1>1 DEF Options
<1> HIDE DEF only, N, image
<1>9. /\ IsState(st') /\ Conventional(st'.schema)
      /\ only => st'.schema = st.schema
      /\ KnowsNothing(st.schema) => KnowsNothing(st'.schema)
      /\ ~st'.failed => Partly(image, skip, only, st', h + 1)
      /\ st'.failed /\ only =>
           \E j \in Nat : /\ Adds(image, skip, st.schema, h + 1, h + 1, j)
                          /\ ItemsAt(image, st.schema, h + 1)[j].id \in DOMAIN st.schema
                          /\ st.schema[ItemsAt(image, st.schema, h + 1)[j].id].callconv
                               \notin ItemsAt(image, st.schema, h + 1)[j].expected
  <2> DEFINE opts == [skip |-> skip, onlyKnown |-> only]
             t == MapFunctionReference(image.values, st, opts, Refs(image)[h + 1][1], Refs(image)[h + 1][2])
  <2>1. image \in Images /\ only \in BOOLEAN /\ h + 1 \in 1..Len(Refs(image)) /\ Partly(image, skip, only, st, h)
    BY <1>0, <1>4, <1>5, <1>6 DEF N
  <2>2. /\ IsState(t) /\ Conventional(t.schema)
        /\ only => t.schema = st.schema
        /\ KnowsNothing(st.schema) => KnowsNothing(t.schema)
        /\ ~t.failed => Partly(image, skip, only, t, h + 1)
        /\ t.failed /\ only =>
             \E j \in Nat : /\ Adds(image, skip, st.schema, h + 1, h + 1, j)
                            /\ ItemsAt(image, st.schema, h + 1)[j].id \in DOMAIN st.schema
                            /\ st.schema[ItemsAt(image, st.schema, h + 1)[j].id].callconv
                                 \notin ItemsAt(image, st.schema, h + 1)[j].expected
    BY <2>1, PartlyStep
  <2>3. st' = t
    BY <1>7
  <2> HIDE DEF t
  <2> QED BY <2>2, <2>3
<1>10. IsSchema(st'.schema)
  BY <1>9 DEF IsState, IsSchema
<1>11. CASE st'.failed
  <2>1. ~(round = "load" /\ Faithful)
    <3> SUFFICES ASSUME round = "load", Faithful PROVE FALSE
      OBVIOUS
    <3>1. only /\ st.schema = AddStd(saved) /\ Joined(ImageFor(mode), skip, mode, saved)
      BY <1>2, <1>4, <1>5
    <3>2. Joined(image, skip, mode, saved)
      <4>1. Joined(lib.original, skip, mode, saved)
        BY <3>1, JoinedWithOriginal DEF Faithful
      <4>2. image = lib.original
        BY ImageFacts DEF image
      <4> QED BY <4>1, <4>2
    <3>3. PICK j \in Nat : /\ Adds(image, skip, AddStd(saved), h + 1, h + 1, j)
                           /\ ItemsAt(image, AddStd(saved), h + 1)[j].id \in DOMAIN AddStd(saved)
                           /\ AddStd(saved)[ItemsAt(image, AddStd(saved), h + 1)[j].id].callconv
                                \notin ItemsAt(image, AddStd(saved), h + 1)[j].expected
      BY <1>9, <1>11, <3>1
    <3> QED BY <1>0, <1>6, <3>2, <3>3, LoadDoesNotFail DEF N
  <2>2. stage' = "failed"
    BY <1>1, <1>11
  <2>3. LoadKeeps'
    BY <1>1, <2>1, <2>2 DEF LoadKeeps, Faithful
  <2>4. lib' \in Libraries /\ round' \in {"infer", "load"} /\ stage' \in Stages
    BY <1>1, <2>2 DEF Stages, LoadingInv
  <2> QED BY <1>0, <1>10, <2>2, <2>3, <2>4 DEF LoadingInv
<1>12. CASE ~st'.failed
  <2>1. stage' = "map"
    BY <1>1, <1>12
  <2>2. round = "load" => st'.schema = AddStd(saved)
    BY <1>4, <1>5, <1>9
  <2>3. Partly(image, skip, only', st', h + 1)
    BY <1>8, <1>9, <1>12
  <2>4. MapsTo(h + 1)'
    <3>1. /\ h + 1 \in 0..Len(Refs(image)) /\ todo' = SubSeq(Refs(image), (h + 1) + 1, Len(Refs(image)))
          /\ Partly(image, skip', only', st', h + 1)
          /\ mode' = "dynamic" /\ round' = "infer" => KnowsNothing(st'.schema)
          /\ round' = "load" => st'.schema = AddStd(saved')
      BY <1>1, <1>4, <1>6, <1>9, <2>2, <2>3 DEF N
    <3>2. Image' = image
      BY <1>0 DEF image
    <3> QED BY <3>1, <3>2 DEF MapsTo, only
  <2>5. \E k \in Nat : MapsTo(k)'
    BY <2>4
  <2>6. LoadKeeps'
    BY <2>1 DEF LoadKeeps
  <2>7. lib' \in Libraries /\ round' \in {"infer", "load"} /\ stage' \in Stages
    BY <1>1, <2>1 DEF Stages, LoadingInv
  <2> QED BY <1>0, <1>10, <2>1, <2>5, <2>6, <2>7 DEF LoadingInv
<1> QED BY <1>11, <1>12

LEMMA FinishMappingStep == ASSUME LoadingInv, FinishMapping PROVE LoadingInv'
<1> DEFINE image == Image  only == Options.onlyKnown  N == Len(Refs(image))
<1>1. /\ stage = "map" /\ todo = <<>> /\ st' = [st EXCEPT !.schema = Backed]
      /\ CASE round = "load" -> stage' = "loaded" /\ saved' = saved
           [] round = "infer" /\ mode = "syntest" -> stage' = "static" /\ saved' = Backed
           [] OTHER -> stage' = "validate" /\ saved' = saved
      /\ lib' = lib /\ mode' = mode /\ skip' = skip /\ round' = round /\ files' = files
  BY DEF FinishMapping
<1>2. /\ lib \in Libraries /\ (round = "load" => Joined(ImageFor(mode), skip, mode, saved))
      /\ round \in {"infer", "load"} /\ \A m \in DOMAIN files : Joined(ImageFor(m), skip, m, files[m])
  BY DEF LoadingInv
<1>0. /\ image \in Images
      /\ \A m \in DOMAIN files' : Joined(ImageFor(m)', skip', m, files'[m])
      /\ ImageFor(mode)' = ImageFor(mode)
  <2>1. \A m : ImageFor(m)' = ImageFor(m)
    BY <1>1, SameImages
  <2>2. ImageFor(mode)' = ImageFor(mode)
    BY <1>1 DEF ImageFor
  <2> QED BY <1>1, <1>2, <2>1, <2>2, ImageFacts
<1>3. PICK h \in Nat : MapsTo(h)
  BY <1>1 DEF LoadingInv
<1>4. /\ h \in 0..N /\ todo = SubSeq(Refs(image), h + 1, N) /\ Partly(image, skip, only, st, h)
      /\ mode = "dynamic" /\ round = "infer" => KnowsNothing(st.schema)
      /\ round = "load" => st.schema = AddStd(saved)
  BY <1>3 DEF MapsTo
<1>5. h = N
  <2>1. Refs(image) \in Seq(Ref(image.values))
    BY <1>0, RefsAreTyped
  <2> HIDE DEF image
  <2> QED BY <1>1, <1>4, <2>1, LeftOver
<1>6. Partly(image, skip, only, st, N) /\ IsState(st) /\ Conventional(st.schema)
  BY <1>4, <1>5 DEF Partly
<1>7. st'.schema = Backed /\ st'.endpoints = st.endpoints
  BY <1>1, <1>6 DEF IsState
<1>8. IsSchema(Backed)
  BY <1>6, BackedFacts DEF Backed
<1>9. CASE round = "infer"
  <2>1. mode = "dynamic" => ~only
    BY <1>9 DEF Options
  <2> HIDE DEF only, N, image
  <2>2. Joined(image, skip, mode, Backed)
    <3>1. Partly(image, skip, only, st, Len(Refs(image)))
      BY <1>6 DEF N
    <3>2. mode = "dynamic" => ~only /\ KnowsNothing(st.schema)
      BY <1>4, <1>9, <2>1
    <3> QED BY <1>0, <3>1, <3>2, JoinedAtEnd DEF Backed
  <2>3. image = ImageFor(mode)
    BY <1>9, ImageFacts DEF image
  <2>4. stage' \in {"static", "validate"} /\ (stage' = "static" => mode = "syntest")
    BY <1>1, <1>9
  <2>5. LoadKeeps'
    BY <1>1, <1>9, <2>4 DEF LoadKeeps
  <2>6. Joined(ImageFor(mode)', skip', mode', st'.schema)
    BY <1>0, <1>1, <1>7, <2>2, <2>3
  <2> QED BY <1>0, <1>1, <1>2, <1>7, <1>8, <1>9, <2>4, <2>5, <2>6 DEF LoadingInv, Stages
<1>10. CASE round = "load"
  <2> HIDE DEF only, N, image
  <2>1. /\ Partly(image, skip, only, st, Len(Refs(image))) /\ st.schema = AddStd(saved)
        /\ Joined(ImageFor(mode), skip, mode, saved) /\ IsSchema(saved)
    <3>1. Joined(ImageFor(mode), skip, mode, saved)
      BY <1>2, <1>10
    <3> QED BY <1>4, <1>6, <1>10, <3>1 DEF N, Joined
  <2>2. Loads(saved, skip, Backed, st.endpoints)
    BY <1>0, <2>1, LoadedAtEnd DEF Backed
  <2>3. Faithful => DOMAIN Backed = DOMAIN saved \cup StdNames
    <3> SUFFICES ASSUME Faithful PROVE DOMAIN Backed = DOMAIN saved \cup StdNames
      OBVIOUS
    <3>1. Joined(lib.original, skip, mode, saved)
      BY <2>1, JoinedWithOriginal DEF Faithful
    <3>2. image = lib.original
      BY <1>10, ImageFacts DEF image
    <3>3. Joined(image, skip, mode, saved)
      BY <3>1, <3>2
    <3>4. LoadsAll(saved, RemoveInvalidEndpoints(st.schema, st.endpoints))
      <4>1. image \in Images /\ Partly(image, skip, only, st, Len(Refs(image))) /\ st.schema = AddStd(saved)
        BY <1>0, <2>1
      <4> QED BY <3>3, <4>1, AllIsLoaded
    <3> QED BY <3>4 DEF Backed, LoadsAll
  <2>4. stage' = "loaded" /\ saved' = saved
    BY <1>1, <1>10
  <2>5. Faithful' = Faithful
    BY <1>1 DEF Faithful
  <2>6. LoadKeeps'
    BY <1>1, <1>7, <2>2, <2>3, <2>4, <2>5 DEF LoadKeeps, Loads, Faithful
  <2>7. Joined(ImageFor(mode)', skip', mode', saved')
    BY <1>0, <1>1, <2>1, <2>4
  <2> QED BY <1>0, <1>1, <1>2, <1>7, <1>8, <1>10, <2>4, <2>6, <2>7 DEF LoadingInv, Stages
<1> QED BY <1>2, <1>9, <1>10

LEMMA RefineStep == ASSUME LoadingInv, Refine PROVE LoadingInv'
<1>1. /\ stage = "static" /\ stage' \in {"static", "validate"} /\ Refines(st'.schema, st.schema)
      /\ lib' = lib /\ mode' = mode /\ skip' = skip /\ round' = round /\ saved' = saved /\ files' = files
  BY DEF Refine
<1>2. /\ lib \in Libraries /\ mode = "syntest" /\ round = "infer"
      /\ Joined(ImageFor(mode), skip, "syntest", st.schema)
      /\ \A m \in DOMAIN files : Joined(ImageFor(m), skip, m, files[m])
  BY <1>1 DEF LoadingInv
<1>3. Joined(ImageFor(mode), skip, "syntest", st'.schema)
  BY <1>1, <1>2, ImageFacts, RefinedIsJoined
<1>4. IsSchema(st'.schema)
  BY <1>3 DEF Joined
<1>5. LoadKeeps'
  BY <1>1, <1>2 DEF LoadKeeps
<1>6. (\A m : ImageFor(m)' = ImageFor(m)) /\ ImageFor(mode)' = ImageFor(mode)
  <2>1. ImageFor(mode)' = ImageFor(mode)
    BY <1>1 DEF ImageFor
  <2> QED BY <1>1, <2>1, SameImages
<1>7. /\ \A m \in DOMAIN files' : Joined(ImageFor(m)', skip', m, files'[m])
      /\ Joined(ImageFor(mode)', skip', mode', st'.schema)
  BY <1>1, <1>2, <1>3, <1>6
<1> QED BY <1>1, <1>2, <1>4, <1>5, <1>7 DEF LoadingInv, Stages

LEMMA WriteStep == ASSUME LoadingInv, Write PROVE LoadingInv'
<1>1. /\ stage = "validate" /\ saved' = st.schema /\ st' = st /\ stage' \in {"failed", "written"}
      /\ lib' = lib /\ mode' = mode /\ skip' = skip /\ round' = round
      /\ files' = files \/ files' = OrElse([m \in {mode} |-> st.schema], files)
  BY DEF Write
<1>2. /\ lib \in Libraries /\ round = "infer"
      /\ Joined(ImageFor(mode), skip, mode, st.schema) /\ IsSchema(st.schema)
  BY <1>1 DEF LoadingInv
<1>3. (\A m : ImageFor(m)' = ImageFor(m)) /\ ImageFor(mode)' = ImageFor(mode)
  <2>1. ImageFor(mode)' = ImageFor(mode)
    BY <1>1 DEF ImageFor
  <2> QED BY <1>1, <2>1, SameImages
<1>4. \A m \in DOMAIN files' : Joined(ImageFor(m), skip, m, files'[m])
  <2>1. CASE files' = files
    BY <2>1 DEF LoadingInv
  <2>2. CASE files' = OrElse([m \in {mode} |-> st.schema], files)
    <3>1. ASSUME NEW m \in DOMAIN files' PROVE Joined(ImageFor(m), skip, m, files'[m])
      <4>1. CASE m = mode
        BY <1>2, <2>2, <4>1 DEF OrElse
      <4>2. CASE m # mode
        <5>1. m \in DOMAIN files /\ files'[m] = files[m]
          BY <2>2, <4>2 DEF OrElse
        <5> QED BY <5>1 DEF LoadingInv
      <4> QED BY <4>1, <4>2
    <3> QED BY <3>1
  <2> QED BY <1>1, <2>1, <2>2
<1>5. LoadKeeps'
  BY <1>1, <1>2 DEF LoadKeeps
<1>6. /\ \A m \in DOMAIN files' : Joined(ImageFor(m)', skip', m, files'[m])
      /\ Joined(ImageFor(mode)', skip', mode', st'.schema)
  BY <1>1, <1>2, <1>3, <1>4
<1> QED BY <1>1, <1>2, <1>5, <1>6 DEF LoadingInv, Stages

LEMMA WorkerLoadsStep == ASSUME LoadingInv, WorkerLoads PROVE LoadingInv'
<1>1. /\ stage = "written" /\ round' = "load" /\ stage' = "reflect" /\ st'.schema = saved
      /\ lib' = lib /\ mode' = mode /\ skip' = skip /\ saved' = saved /\ files' = files
  BY DEF WorkerLoads
<1>2. /\ lib \in Libraries /\ saved = st.schema /\ Joined(ImageFor(mode), skip, mode, saved)
      /\ IsSchema(saved) /\ \A m \in DOMAIN files : Joined(ImageFor(m), skip, m, files[m])
  BY <1>1 DEF LoadingInv
<1>3. (\A m : ImageFor(m)' = ImageFor(m)) /\ ImageFor(mode)' = ImageFor(mode)
  <2>1. ImageFor(mode)' = ImageFor(mode)
    BY <1>1 DEF ImageFor
  <2> QED BY <1>1, <2>1, SameImages
<1>4. LoadKeeps'
  BY <1>1 DEF LoadKeeps
<1>5. /\ \A m \in DOMAIN files' : Joined(ImageFor(m)', skip', m, files'[m])
      /\ Joined(ImageFor(mode)', skip', mode', saved')
  BY <1>1, <1>2, <1>3
<1> QED BY <1>1, <1>2, <1>4, <1>5 DEF LoadingInv, Stages

LEMMA AnalyseAgainStep == ASSUME LoadingInv, AnalyseAgain PROVE LoadingInv'
<1>1. /\ stage' = FirstStage(mode') /\ Prepared(mode', st') /\ round' = "infer"
      /\ lib' = lib /\ skip' = skip /\ files' = files
  BY DEF AnalyseAgain
<1>2. /\ IsSchema(st'.schema) /\ stage' \in {"derive", "transform", "reflect"}
      /\ stage' = "derive" => mode' = "decl"
      /\ stage' = "transform" => mode' = "syntest" /\ st'.schema = NoField
      /\ stage' = "reflect" => st'.schema = NoField
  BY <1>1, PreparedFacts
<1>3. LoadKeeps'
  BY <1>1, <1>2 DEF LoadKeeps
<1>4. \A m \in DOMAIN files' : Joined(ImageFor(m)', skip', m, files'[m])
  <2>1. \A m : ImageFor(m)' = ImageFor(m)
    BY <1>1, SameImages
  <2>2. \A m \in DOMAIN files : Joined(ImageFor(m), skip, m, files[m])
    BY DEF LoadingInv
  <2> QED BY <1>1, <2>1, <2>2
<1>5. lib' \in Libraries
  BY <1>1 DEF LoadingInv
<1> QED BY <1>1, <1>2, <1>3, <1>4, <1>5 DEF LoadingInv, Stages

LEMMA StutterStep == ASSUME LoadingInv, UNCHANGED loadingVars PROVE LoadingInv'
<1>1. /\ lib' = lib /\ mode' = mode /\ skip' = skip /\ round' = round /\ stage' = stage /\ todo' = todo
      /\ st' = st /\ saved' = saved /\ files' = files
  BY DEF loadingVars
<1>2. \A h : MapsTo(h) => MapsTo(h)'
  BY <1>1 DEF MapsTo, Options, Image, ImageFor
<1>3. LoadKeeps'
  BY <1>1 DEF LoadKeeps, LoadingInv
<1> QED BY <1>1, <1>2, <1>3 DEF LoadingInv, ImageFor

(* What has been found out of a library at any time, and what its schemas  *)
(* and endpoints have in common (LoadingInv), holds at all times: for all  *)
(* libraries, whatever the declarations and the static analysis say.       *)
THEOREM LoadingInvHolds == LoadingSpec => []LoadingInv
<1>1. LoadingInit => LoadingInv
  BY InitInv
<1>2. LoadingInv /\ [LoadingNext]_loadingVars => LoadingInv'
  <2> SUFFICES ASSUME LoadingInv, [LoadingNext]_loadingVars PROVE LoadingInv'
    OBVIOUS
  <2> QED BY PrepareStep, LoadLibraryStep, MapReferenceStep, FinishMappingStep, RefineStep, WriteStep,
             WorkerLoadsStep, AnalyseAgainStep, StutterStep, Zenon DEF LoadingNext
<1> QED BY <1>1, <1>2, PTL DEF LoadingSpec

(* Loading the file that was written gives the worker a schema and         *)
(* endpoints that agree, and fails no assertion and loses no entry if the  *)
(* file comes from a library like the one that is loaded.                  *)
THEOREM LoadKeepsHolds == LoadingSpec => []LoadKeeps
<1>1. LoadingInv => LoadKeeps
  BY DEF LoadingInv
<1> QED BY <1>1, LoadingInvHolds, PTL

(* A method's receiver and what a constructor makes are never lost.        *)
THEOREM ConventionsHoldAlways == LoadingSpec => []ConventionsHold
<1>1. LoadingInv => ConventionsHold
  BY DEF LoadingInv, ConventionsHold, IsSchema, Joined
<1> QED BY <1>1, LoadingInvHolds, PTL

(* A constructor of one mode is one of dynamic analysis.                   *)
LEMMA ComparesTo ==
  ASSUME NEW l \in Images, NEW x, NEW m, NEW F, NEW D, Joined(l, x, m, F), Joined(l, x, "dynamic", D),
         \A id \in DOMAIN F \ StdNames : F[id].callconv = "Constructor" => IsConstructor(id)
  PROVE  DOMAIN F \subseteq DOMAIN D
<1> DEFINE N == Len(Refs(l))
<1>1. /\ N \in Nat /\ StdKept(F) /\ Reached(l, x, F, N)
      /\ StdKept(D) /\ StdNames \subseteq DOMAIN D /\ Complete(l, x, D, N)
  BY RefsAreTyped DEF Joined
<1> SUFFICES ASSUME NEW id \in DOMAIN F \ StdNames PROVE id \in DOMAIN D
  BY <1>1
<1>2. PICK i \in Nat, j \in Nat : Adds(l, x, F, N, i, j) /\ ItemsAt(l, F, i)[j].id = id
  BY <1>1 DEF Reached
<1> DEFINE key == Refs(l)[i][1]
<1>3. /\ i \in 1..N /\ key \notin x /\ key \in DOMAIN F
      /\ j \in DOMAIN ItemsAt(l, F, i) /\ Open(ItemsAt(l, F, i)[j], x)
  BY <1>2 DEF Adds, Handled
<1>4. key \in DOMAIN D
  BY <1>1, <1>3 DEF Complete
<1>5. ItemsAt(l, F, i)[1].id = key /\ (~IsConstr(F, key) => DOMAIN ItemsAt(l, F, i) = {1})
  BY <1>3, ItemsAtOK
<1> HIDE DEF key
<1>6. CASE ~IsConstr(F, key)
  BY <1>2, <1>3, <1>4, <1>5, <1>6
<1>7. CASE IsConstr(F, key)
  <2>1. IsConstr(D, key)
    <3>1. CASE key \in StdNames
      BY <1>1, <1>3, <1>4, <1>7, <3>1 DEF StdKept, IsConstr
    <3>2. CASE key \notin StdNames
      BY <1>3, <1>7, <3>2 DEF IsConstr
    <3> QED BY <3>1, <3>2
  <2>2. ItemsAt(l, D, i) = ItemsAt(l, F, i)
    BY <1>7, <2>1 DEF ItemsAt, Items, key
  <2>3. Adds(l, x, D, N, i, j)
    BY <1>3, <1>4, <2>2 DEF Adds, Handled, key
  <2> QED BY <1>1, <1>2, <2>2, <2>3 DEF Complete
<1> QED BY <1>6, <1>7

(* What the comparison of the modes asserts of the endpoints.              *)
THEOREM EndpointsCompareAlways == LoadingSpec => []EndpointsCompare
<1>1. LoadingInv => EndpointsCompare
  <2> SUFFICES ASSUME LoadingInv, "dynamic" \in DOMAIN files
               PROVE  /\ \A id \in DOMAIN files["dynamic"] \ StdNames :
                           IsNoInfoSignature(files["dynamic"][id])
                      /\ \A m \in DOMAIN files :
                           (/\ m = "syntest" => Alike(lib.rewritten, lib.original)
                            /\ \A id \in DOMAIN files[m] \ StdNames :
                                 files[m][id].callconv = "Constructor" => IsConstructor(id))
                           => DOMAIN files[m] \subseteq DOMAIN files["dynamic"]
    BY DEF EndpointsCompare
  <2>1. \A m \in DOMAIN files : Joined(ImageFor(m), skip, m, files[m])
    BY DEF LoadingInv
  <2>2. Joined(lib.original, skip, "dynamic", files["dynamic"]) /\ lib.original \in Images
    BY <2>1, ImageFacts
  <2>3. KnowsNothing(files["dynamic"])
    BY <2>2 DEF Joined
  <2>4. ASSUME NEW m \in DOMAIN files,
               m = "syntest" => Alike(lib.rewritten, lib.original),
               \A id \in DOMAIN files[m] \ StdNames :
                 files[m][id].callconv = "Constructor" => IsConstructor(id)
        PROVE  DOMAIN files[m] \subseteq DOMAIN files["dynamic"]
    <3>1. Joined(lib.original, skip, m, files[m])
      BY <2>1, <2>4, JoinedWithOriginal
    <3> QED BY <2>2, <2>4, <3>1, ComparesTo
  <2> QED BY <2>3, <2>4 DEF KnowsNothing
<1> QED BY <1>1, LoadingInvHolds, PTL

-----------------------------------------------------------------------------
(* The client and its worker.                                              *)

USE PidsAssumption, BoundAssumption

-----------------------------------------------------------------------------
(* Messages and pipes.                                                     *)

LEMMA RequestTypes ==
  /\ Request("Init", 0) \in Requests
  /\ Request("Terminate", 0) \in Requests
  /\ \A c \in 1..MaxCalls : Request("Invoke", c) \in Requests
BY DEF Request, Requests

LEMMA FragsType ==
  ASSUME NEW m \in Requests
  PROVE  Frags(m) \in Seq(Fragments) /\ Frags(m) # <<>>
<1>1. \A part \in {1, 2} : [msg |-> m, part |-> part] \in Fragments
  BY DEF Fragments
<1>2. CASE m.type = "Invoke"
  <2>1. Frags(m) = <<[msg |-> m, part |-> 1], [msg |-> m, part |-> 2]>>
    BY <1>2 DEF Frags
  <2> QED BY <1>1, <2>1
<1>3. CASE m.type # "Invoke"
  <2>1. Frags(m) = <<[msg |-> m, part |-> 1]>>
    BY <1>3 DEF Frags
  <2> QED BY <1>1, <2>1
<1> QED BY <1>2, <1>3

LEMMA ReplyTypes ==
  /\ Reply("InitOk", 0, TRUE) \in Replies
  /\ Reply("Noise", 0, TRUE) \in Replies
  /\ \A c \in 0..MaxCalls, ok \in BOOLEAN : Reply("InvokeOk", c, ok) \in Replies
BY DEF Reply, Replies

(* Decoding a prefix leaves a well-typed rest.                             *)
LEMMA RestType ==
  ASSUME NEW s \in Seq(Fragments), NEW n \in 1..Len(s)
  PROVE  SubSeq(s, n + 1, Len(s)) \in Seq(Fragments)
<1>1. \A i \in n + 1 .. Len(s) : s[i] \in Fragments
  BY ElementOfSeq
<1> QED BY <1>1, SubSeqProperties

-----------------------------------------------------------------------------
(* Type correctness.                                                       *)

LEMMA SpawnType ==
  ASSUME TypeOK, NEW others \in [Pids -> Lives], Spawn(others)
  PROVE  /\ proc' \in Pids /\ child' \in [Pids -> Lives]
         /\ task' \in [Pids -> {"none", "init", "run"}]
         /\ job' \in [Pids -> 0..MaxCalls]
         /\ left' \in [Pids -> BOOLEAN]
         /\ got' \in [Pids -> Nat]
         /\ stdin' \in [Pids -> Seq(Fragments)]
         /\ stdout' \in [Pids -> Seq(Replies)]
<1>1. Frags(Request("Init", 0)) \in Seq(Fragments)
  BY FragsType, RequestTypes
<1>2. <<>> \in Seq(Replies)
  BY EmptySeq
<1> QED BY <1>1, <1>2 DEF Spawn, TypeOK, Lives

LEMMA SendsType ==
  ASSUME TypeOK, NEW m \in Requests, Sends(m)
  PROVE  stdin' \in [Pids -> Seq(Fragments)]
<1>1. CASE proc \in Pids
  BY <1>1, FragsType, ConcatProperties DEF Sends, TypeOK
<1>2. CASE proc \notin Pids
  BY <1>2 DEF Sends, TypeOK
<1> QED BY <1>1, <1>2

LEMMA RecvOkType ==
  ASSUME TypeOK, NEW type, RecvOk(type)
  PROVE  stdout' \in [Pids -> Seq(Replies)]
<1>1. CASE proc \in Pids
  BY <1>1, HeadTailProperties DEF RecvOk, TypeOK
<1>2. CASE proc \notin Pids
  BY <1>2 DEF RecvOk, TypeOK
<1> QED BY <1>1, <1>2

LEMMA SayType ==
  ASSUME TypeOK, NEW p \in Pids, NEW r \in Replies
  PROVE  [stdout EXCEPT ![p] = Append(@, r)] \in [Pids -> Seq(Replies)]
BY AppendProperties DEF TypeOK

LEMMA ExitType ==
  ASSUME TypeOK, NEW kind \in {"Crash", "Timeout"}, Exit(kind)
  PROVE  TypeOK'
BY DEF Exit, Verdict, TypeOK, Phases, Lives

LEMMA HandleType ==
  ASSUME TypeOK, NEW p \in Pids, NEW m \in Requests, Handle(p, m)
  PROVE  /\ child' \in [Pids -> Lives]
         /\ task' \in [Pids -> {"none", "init", "run"}]
         /\ job' \in [Pids -> 0..MaxCalls]
<1>1. m.type = "Invoke" => m.call \in 0..MaxCalls
  BY DEF Requests
<1> QED BY <1>1 DEF Handle, TypeOK, Lives

(* Every variable stays in its set.                                        *)
LEMMA InitType == Init => TypeOK
<1>1. <<>> \in Seq(Fragments) /\ <<>> \in Seq(Replies)
  BY EmptySeq
<1> SUFFICES ASSUME Init PROVE TypeOK
  OBVIOUS
<1>2. stdin \in [Pids -> Seq(Fragments)] /\ stdout \in [Pids -> Seq(Replies)]
  BY <1>1 DEF Init
<1>3. last \in [call : 0..MaxCalls, kind : {"None", "Ok", "Crash", "Timeout"}]
  BY DEF Init
<1>4. ended \in [call : 0..MaxCalls, ok : BOOLEAN, valid : BOOLEAN]
  BY DEF Init
<1> QED BY <1>2, <1>3, <1>4 DEF Init, TypeOK, Phases, Lives

LEMMA NextType == TypeOK /\ [Next]_vars => TypeOK'
<1> SUFFICES ASSUME TypeOK, [Next]_vars PROVE TypeOK'
  OBVIOUS
<1> USE DEF Phases
<1>1. CASE Start
  <2>1. child \in [Pids -> Lives]
    BY DEF TypeOK
  <2> QED BY <1>1, <2>1, SpawnType DEF Start, TypeOK
<1>2. CASE StartOk
  BY <1>2, RecvOkType DEF StartOk, TypeOK, node
<1>3. CASE StartFails
  BY <1>3 DEF StartFails, TypeOK, Lives
<1>4. CASE Invoke
  <2>1. call + 1 \in 1..MaxCalls
    BY <1>4 DEF Invoke, TypeOK
  <2> QED BY <1>4, <2>1, SendsType, RequestTypes DEF Invoke, TypeOK, node
<1>5. CASE Answer
  BY <1>5, RecvOkType DEF Answer, Verdict, TypeOK, node
<1>6. CASE NoAnswer
  BY <1>6, SendsType, RequestTypes DEF NoAnswer, TypeOK, node
<1>7. CASE Evaluate
  BY <1>7 DEF Evaluate, TypeOK, node
<1>8. CASE Restart
  <2>1. [child EXCEPT ![proc] = "none"] \in [Pids -> Lives]
    BY DEF TypeOK, Lives
  <2> QED BY <1>8, <2>1, SpawnType DEF Restart, TypeOK
<1>9. CASE RestartOk
  BY <1>9, RecvOkType DEF RestartOk, Verdict, TypeOK, node
<1>10. CASE RestartFails
  BY <1>10, ExitType DEF RestartFails
<1>11. CASE Timeout
  BY <1>11, ExitType DEF Timeout
<1>12. CASE Terminate
  BY <1>12, SendsType, RequestTypes DEF Terminate, TypeOK, node
<1>13. CASE Terminated
  BY <1>13 DEF Terminated, TypeOK, Lives
<1>14. ASSUME NEW p \in Pids, Read(p) PROVE TypeOK'
  <2>1. PICK n \in got[p] + 1 .. Len(stdin[p]) :
          \/ \E m \in Requests :
               /\ Decodes(SubSeq(stdin[p], 1, n), m)
               /\ Handle(p, m)
               /\ stdin' = [stdin EXCEPT ![p] = SubSeq(@, n + 1, Len(@))]
               /\ got' = [got EXCEPT ![p] = 0]
          \/ /\ \A m \in Requests : ~Decodes(SubSeq(stdin[p], 1, n), m)
             /\ got' = [got EXCEPT ![p] = n]
             /\ UNCHANGED <<child, task, job, stdin>>
    BY <1>14 DEF Read
  <2>2. got[p] \in Nat /\ stdin[p] \in Seq(Fragments)
    BY DEF TypeOK
  <2>3. n \in 1..Len(stdin[p])
    BY <2>1, <2>2, LenProperties
  <2>4. SubSeq(stdin[p], n + 1, Len(stdin[p])) \in Seq(Fragments)
    BY <2>2, <2>3, RestType
  <2>5. UNCHANGED <<parent, valid, left, stdout, ended>>
    BY <1>14 DEF Read
  <2>6. ASSUME NEW m \in Requests, Handle(p, m),
               stdin' = [stdin EXCEPT ![p] = SubSeq(@, n + 1, Len(@))],
               got' = [got EXCEPT ![p] = 0]
        PROVE  TypeOK'
    BY <2>4, <2>5, <2>6, HandleType DEF TypeOK, parent
  <2>7. CASE got' = [got EXCEPT ![p] = n] /\ UNCHANGED <<child, task, job, stdin>>
    BY <2>2, <2>3, <2>5, <2>7 DEF TypeOK, parent
  <2> QED BY <2>1, <2>6, <2>7
<1>15. ASSUME NEW p \in Pids, InitDone(p) PROVE TypeOK'
  BY <1>15, SayType, ReplyTypes DEF InitDone, TypeOK, parent
<1>16. ASSUME NEW p \in Pids, NEW ok \in BOOLEAN, NEW isBug \in BOOLEAN,
              NEW leaves \in BOOLEAN, Finish(p, ok, isBug, leaves)
       PROVE  TypeOK'
  <2>1. job[p] \in 0..MaxCalls /\ (ok \/ isBug) \in BOOLEAN
    BY DEF TypeOK
  <2>2. stdout' \in [Pids -> Seq(Replies)]
    BY <1>16, <2>1, SayType, ReplyTypes DEF Finish
  <2>3. ended' \in [call : 0..MaxCalls, ok : BOOLEAN, valid : BOOLEAN]
    BY <1>16, <2>1 DEF Finish
  <2>4. (left[p] \/ leaves) \in BOOLEAN
    BY DEF TypeOK
  <2>5. valid' \in BOOLEAN /\ left' \in [Pids -> BOOLEAN]
    BY <1>16, <2>1, <2>4 DEF Finish, TypeOK
  <2> QED BY <1>16, <2>2, <2>3, <2>5 DEF Finish, TypeOK, parent
<1>17. ASSUME NEW p \in Pids, Die(p) \/ Hang(p) PROVE TypeOK'
  BY <1>17 DEF Die, Hang, TypeOK, parent, Lives
<1>18. ASSUME NEW p \in Pids, Chatter(p) PROVE TypeOK'
  BY <1>18, SayType, ReplyTypes DEF Chatter, TypeOK, parent
<1>19. ASSUME NEW p \in Pids, LeftoverEnds(p) PROVE TypeOK'
  BY <1>19 DEF LeftoverEnds, TypeOK, parent
<1>20. CASE UNCHANGED vars
  BY <1>20 DEF vars, parent, node, TypeOK
<1> QED
  BY <1>1, <1>2, <1>3, <1>4, <1>5, <1>6, <1>7, <1>8, <1>9, <1>10, <1>11, <1>12,
     <1>13, <1>14, <1>15, <1>16, <1>17, <1>18, <1>19, <1>20
  DEF Next, Client, Node, Over

(* Every variable of the client and its worker stays in its set.           *)
THEOREM TypeCorrect == Spec => []TypeOK
BY InitType, NextType, PTL DEF Spec

-----------------------------------------------------------------------------
(* Decoding.                                                               *)

InitFrags      == Frags(Request("Init", 0))
InvokeFrags    == Frags(Request("Invoke", call))
TerminateFrags == Frags(Request("Terminate", 0))

(* The shape of every request on the pipe.                                 *)
LEMMA FragsShape ==
  ASSUME NEW m \in Requests
  PROVE  /\ Len(Frags(m)) = IF m.type = "Invoke" THEN 2 ELSE 1
         /\ \A i \in 1..Len(Frags(m)) : Frags(m)[i] = [msg |-> m, part |-> i]
<1>1. CASE m.type = "Invoke"
  <2>1. Frags(m) = <<[msg |-> m, part |-> 1], [msg |-> m, part |-> 2]>>
    BY <1>1 DEF Frags
  <2> QED BY <1>1, <2>1
<1>2. CASE m.type # "Invoke"
  <2>1. Frags(m) = <<[msg |-> m, part |-> 1]>>
    BY <1>2 DEF Frags
  <2> QED BY <1>2, <2>1
<1> QED BY <1>1, <1>2

(* A prefix that decodes is the first message, whole.                      *)
LEMMA FirstFrag ==
  ASSUME NEW m \in Requests
  PROVE  Len(Frags(m)) \in {1, 2} /\ Frags(m)[1].msg = m
<1>1. Len(Frags(m)) \in {1, 2}
  BY FragsShape
<1>2. 1 \in 1..Len(Frags(m))
  BY <1>1
<1>3. Frags(m)[1] = [msg |-> m, part |-> 1]
  BY <1>1, <1>2, FragsShape
<1> QED BY <1>1, <1>3

LEMMA DecodedIsFirst ==
  ASSUME NEW s \in Seq(Fragments), NEW n \in 1..Len(s), NEW m \in Requests,
         Decodes(SubSeq(s, 1, n), m)
  PROVE  n = Len(Frags(m)) /\ s[1].msg = m /\ s[n] = [msg |-> m, part |-> n]
<1>1. Len(SubSeq(s, 1, n)) = n /\ \A i \in 1..n : SubSeq(s, 1, n)[i] = s[i]
  <2>1. \A i \in 1..n : s[i] \in Fragments
    BY ElementOfSeq, LenProperties
  <2> QED BY <2>1, SubSeqProperties
<1>2. SubSeq(s, 1, n) = Frags(m)
  BY DEF Decodes
<1>3. n = Len(Frags(m))
  BY <1>1, <1>2
<1>4. \A i \in 1..n : s[i] = [msg |-> m, part |-> i]
  <2> TAKE i \in 1..n
  <2>1. s[i] = Frags(m)[i]
    BY <1>1, <1>2
  <2> QED BY <2>1, <1>3, FragsShape
<1>5. n >= 1
  BY LenProperties
<1>6. s[1] = [msg |-> m, part |-> 1] /\ s[n] = [msg |-> m, part |-> n]
  BY <1>4, <1>5
<1> QED BY <1>3, <1>6

(* A buffer that is one message leaves nothing behind ...                  *)
LEMMA DecodeOne ==
  ASSUME NEW k \in Requests, NEW m \in Requests, NEW n \in 1..Len(Frags(k)),
         Decodes(SubSeq(Frags(k), 1, n), m)
  PROVE  m = k /\ SubSeq(Frags(k), n + 1, Len(Frags(k))) = <<>>
<1>1. n = Len(Frags(m)) /\ Frags(k)[1].msg = m
  BY FragsType, DecodedIsFirst
<1>2. m = k
  <2>1. Frags(k)[1].msg = k
    BY FirstFrag
  <2> QED BY <1>1, <2>1
<1>3. Len(Frags(k)) \in Int
  BY FirstFrag
<1> QED BY <1>1, <1>2, <1>3, SubSeqEmpty

(* ... and one that is an Invoke and a Terminate leaves the Terminate.     *)
LEMMA DecodeTwo ==
  ASSUME NEW k \in Requests, NEW j \in Requests, NEW m \in Requests,
         NEW n \in 1..Len(Frags(k) \o Frags(j)),
         Decodes(SubSeq(Frags(k) \o Frags(j), 1, n), m)
  PROVE  /\ m = k
         /\ SubSeq(Frags(k) \o Frags(j), n + 1, Len(Frags(k) \o Frags(j))) = Frags(j)
<1> DEFINE s == Frags(k) \o Frags(j)
<1>1. /\ s \in Seq(Fragments)
      /\ Len(s) = Len(Frags(k)) + Len(Frags(j))
      /\ \A i \in 1..Len(Frags(k)) + Len(Frags(j)) :
           s[i] = IF i <= Len(Frags(k)) THEN Frags(k)[i] ELSE Frags(j)[i - Len(Frags(k))]
  BY FragsType, ConcatProperties
<1> HIDE DEF s
<1>2. n = Len(Frags(m)) /\ s[1].msg = m
  <2>1. n \in 1..Len(s) /\ Decodes(SubSeq(s, 1, n), m)
    BY DEF s
  <2>2. s \in Seq(Fragments)
    BY <1>1
  <2> QED BY <2>1, <2>2, DecodedIsFirst
<1>3. Len(Frags(k)) \in {1, 2} /\ Len(Frags(j)) \in {1, 2}
  BY FirstFrag
<1>4. s[1] = Frags(k)[1] /\ Frags(k)[1].msg = k
  <2>1. 1 \in 1..Len(Frags(k)) + Len(Frags(j)) /\ 1 <= Len(Frags(k))
    BY <1>3
  <2>2. Frags(k)[1].msg = k
    BY FirstFrag
  <2> QED BY <1>1, <2>1, <2>2
<1>5. m = k /\ n = Len(Frags(k))
  BY <1>2, <1>4
<1>6. SubSeq(s, n + 1, Len(s)) = SubSeq(Frags(j), 1, Len(Frags(j)))
  BY <1>1, <1>3, <1>5, FragsType, SubSeqOfConcat2 DEF s
<1> QED BY <1>5, <1>6, FragsType, SubSeqFull DEF s

-----------------------------------------------------------------------------
(* The state of the conversation is inductive.                             *)

Inv == TypeOK /\ ConversationOK

(* What the undecoded bytes may be, without the CASE.                      *)
LEMMA UndecodedIs ==
  /\ pc \in {"starting", "restarting"} => Undecoded = {<<>>, InitFrags}
  /\ pc = "awaiting" => Undecoded = {<<>>, InvokeFrags}
  /\ pc = "stopping" => Undecoded = {<<>>, InvokeFrags, TerminateFrags,
                                     InvokeFrags \o TerminateFrags}
  /\ pc = "terminating" => Undecoded = {<<>>, TerminateFrags}
  /\ pc \notin {"starting", "restarting", "awaiting", "stopping", "terminating"}
       => Undecoded = {<<>>}
BY DEF Undecoded, InitFrags, InvokeFrags, TerminateFrags

LEMMA RequestHolds ==
  ASSUME NEW m \in Requests
  PROVE  Frags(m) # <<>> /\ Frags(m)[1].msg.type = m.type
BY FragsType, FirstFrag

LEMMA TwoHold ==
  ASSUME NEW k \in Requests, NEW j \in Requests
  PROVE  /\ Frags(k) \o Frags(j) # <<>>
         /\ (Frags(k) \o Frags(j))[1].msg = k
         /\ Len(Frags(k) \o Frags(j)) \in Nat
<1>1. Len(Frags(k)) \in {1, 2} /\ Len(Frags(j)) \in {1, 2} /\ Frags(k)[1].msg = k
  BY FirstFrag
<1>2. /\ Frags(k) \o Frags(j) \in Seq(Fragments)
      /\ Len(Frags(k) \o Frags(j)) = Len(Frags(k)) + Len(Frags(j))
      /\ \A i \in 1..Len(Frags(k)) + Len(Frags(j)) :
           (Frags(k) \o Frags(j))[i]
             = IF i <= Len(Frags(k)) THEN Frags(k)[i] ELSE Frags(j)[i - Len(Frags(k))]
  BY FragsType, ConcatProperties
<1>3. 1 \in 1..Len(Frags(k)) + Len(Frags(j)) /\ 1 <= Len(Frags(k))
  BY <1>1
<1>4. (Frags(k) \o Frags(j))[1] = Frags(k)[1]
  BY <1>2, <1>3
<1> QED BY <1>1, <1>2, <1>4, EmptySeq

(* The contents of the pipe to the child, by the message at its head.      *)
LEMMA PipeShape ==
  ASSUME TypeOK
  PROVE  /\ InitFrags # <<>> /\ InitFrags[1].msg.type = "Init"
         /\ TerminateFrags # <<>> /\ TerminateFrags[1].msg.type = "Terminate"
         /\ call > 0 => /\ InvokeFrags # <<>> /\ InvokeFrags[1].msg.type = "Invoke"
                        /\ InvokeFrags \o TerminateFrags # <<>>
                        /\ (InvokeFrags \o TerminateFrags)[1].msg.type = "Invoke"
<1>1. /\ Request("Init", 0).type = "Init"
      /\ Request("Terminate", 0).type = "Terminate"
      /\ Request("Invoke", call).type = "Invoke"
  BY DEF Request
<1>2. call > 0 => Request("Invoke", call) \in Requests
  BY RequestTypes DEF TypeOK
<1>3. InitFrags # <<>> /\ InitFrags[1].msg.type = "Init"
  BY <1>1, RequestTypes, RequestHolds DEF InitFrags
<1>4. TerminateFrags # <<>> /\ TerminateFrags[1].msg.type = "Terminate"
  BY <1>1, RequestTypes, RequestHolds DEF TerminateFrags
<1>5. ASSUME call > 0 PROVE InvokeFrags # <<>> /\ InvokeFrags[1].msg.type = "Invoke"
  BY <1>1, <1>2, <1>5, RequestHolds DEF InvokeFrags
<1>6. ASSUME call > 0
      PROVE  /\ InvokeFrags \o TerminateFrags # <<>>
             /\ (InvokeFrags \o TerminateFrags)[1].msg.type = "Invoke"
  BY <1>1, <1>2, <1>6, RequestTypes, TwoHold DEF InvokeFrags, TerminateFrags
<1> QED BY <1>3, <1>4, <1>5, <1>6

(* A process that can run is the client's child.                           *)
LEMMA UpIsProc ==
  ASSUME Inv, NEW p \in Pids, child[p] # "none"
  PROVE  p = proc /\ Conversation
BY PidsAssumption DEF Inv, ConversationOK

LEMMA InitEstablishes == Init => ConversationOK
BY PidsAssumption DEF Init, ConversationOK, InvokePhase, ValidityAttributed, OkMeansCompleted,
   InHarness

(* The client's side.                                                      *)
LEMMA SpawnConversation ==
  ASSUME TypeOK, NEW others, Spawn(others), pc' \in {"starting", "restarting"}
  PROVE  proc' \in Pids /\ Conversation'
<1>1. proc' \in Pids
  BY DEF Spawn
<1>2. /\ stdin'[proc'] = InitFrags /\ stdout'[proc'] = <<>>
      /\ task'[proc'] = "none" /\ got'[proc'] = 0
  BY DEF Spawn, TypeOK, InitFrags
<1>3. Len(InitFrags) \in {1, 2}
  BY FirstFrag, RequestTypes DEF InitFrags
<1>4. Undecoded' = {<<>>, InitFrags}
  BY UndecodedIs DEF Undecoded, InitFrags
<1>5. InitFrags[1].msg.type = "Init"
  BY PipeShape
<1>6. ~Holds("Invoke")' /\ ~Said("InitOk")' /\ ~Said("InvokeOk")'
  BY <1>2, <1>5, EmptySeq DEF Holds, Said
<1>7. SaidOnce("InitOk")' /\ SaidOnce("InvokeOk")'
  BY <1>2, EmptySeq DEF SaidOnce
<1> QED
  BY <1>1, <1>2, <1>3, <1>4, <1>6, <1>7, EmptySeq DEF Conversation, Said

LEMMA StartInv ==
  ASSUME Inv, Start
  PROVE  ConversationOK'
<1>1. proc' \in Pids /\ Conversation'
  BY SpawnConversation DEF Start, Inv
<1>2. \A p \in Pids : child'[p] # "none" => p = proc'
  BY PidsAssumption DEF Start, Spawn, Inv, TypeOK, ConversationOK
<1> QED
  BY <1>1, <1>2, PidsAssumption
  DEF Start, Inv, ConversationOK, InvokePhase, ValidityAttributed, OkMeansCompleted, InHarness

LEMMA RestartInv ==
  ASSUME Inv, Restart
  PROVE  ConversationOK'
<1>1. proc' \in Pids /\ Conversation'
  BY SpawnConversation DEF Restart, Inv
<1>2. \A p \in Pids : child'[p] # "none" => p = proc'
  BY PidsAssumption DEF Restart, Spawn, Inv, TypeOK, ConversationOK
<1> QED
  BY <1>1, <1>2, PidsAssumption
  DEF Restart, Inv, ConversationOK, InvokePhase, ValidityAttributed, OkMeansCompleted, InHarness

LEMMA ExitInv ==
  ASSUME Inv, NEW kind, Exit(kind)
  PROVE  ConversationOK'
BY DEF Exit, Verdict, Inv, ConversationOK, InvokePhase, ValidityAttributed,
       OkMeansCompleted, InHarness

LEMMA StopInv ==
  ASSUME Inv, StartFails \/ Terminated
  PROVE  ConversationOK'
BY DEF StartFails, Terminated, Inv, TypeOK, ConversationOK, InvokePhase, ValidityAttributed,
       OkMeansCompleted, InHarness

(* Reading a message off the pipe from the child.                          *)
LEMMA RecvShape ==
  ASSUME TypeOK, proc \in Pids, NEW type, RecvOk(type), proc' = proc
  PROVE  /\ Head(stdout[proc]) = stdout[proc][1] /\ 1 \in 1..Len(stdout[proc])
         /\ Len(stdout'[proc']) = Len(stdout[proc]) - 1
         /\ \A i \in 1..Len(stdout'[proc']) :
              /\ i + 1 \in 1..Len(stdout[proc])
              /\ stdout'[proc'][i] = stdout[proc][i + 1]
         /\ Said(type)
<1>1. stdout[proc] \in Seq(Replies) /\ stdout[proc] # <<>>
  BY DEF TypeOK, RecvOk
<1>2. stdout'[proc'] = Tail(stdout[proc])
  BY DEF TypeOK, RecvOk
<1>3. Len(stdout[proc]) \in Nat \ {0}
  BY <1>1, EmptySeq
<1>4. Head(stdout[proc]) = stdout[proc][1]
  BY <1>1
<1>5. Head(stdout[proc]).type = type
  BY DEF RecvOk
<1> QED BY <1>1, <1>2, <1>3, <1>4, <1>5, HeadTailProperties DEF Said

LEMMA RecvSaid ==
  ASSUME TypeOK, proc \in Pids, NEW type, RecvOk(type), proc' = proc
  PROVE  /\ \A t : Said(t)' => Said(t)
         /\ \A t : SaidOnce(t) => SaidOnce(t)'
         /\ SaidOnce(type) => ~Said(type)'
<1>1. /\ \A i \in 1..Len(stdout'[proc']) :
           i + 1 \in 1..Len(stdout[proc]) /\ stdout'[proc'][i] = stdout[proc][i + 1]
      /\ 1 \in 1..Len(stdout[proc]) /\ stdout[proc][1].type = type
  BY RecvShape DEF RecvOk
<1>2. ASSUME NEW t, Said(t)' PROVE Said(t)
  BY <1>1, <1>2 DEF Said
<1>3. ASSUME NEW t, SaidOnce(t) PROVE SaidOnce(t)'
  <2> SUFFICES ASSUME NEW i \in 1..Len(stdout'[proc']), NEW j \in 1..Len(stdout'[proc']),
                      stdout'[proc'][i].type = t, stdout'[proc'][j].type = t
               PROVE  i = j
    BY DEF SaidOnce
  <2>1. /\ i + 1 \in 1..Len(stdout[proc]) /\ stdout[proc][i + 1].type = t
        /\ j + 1 \in 1..Len(stdout[proc]) /\ stdout[proc][j + 1].type = t
    BY <1>1
  <2>2. i + 1 = j + 1
    BY <1>3, <2>1 DEF SaidOnce
  <2> QED BY <2>2
<1>4. ASSUME SaidOnce(type) PROVE ~Said(type)'
  <2>1. \A i \in 1..Len(stdout'[proc']) : stdout'[proc'][i].type # type
    <3> SUFFICES ASSUME NEW i \in 1..Len(stdout'[proc']), stdout'[proc'][i].type = type
                 PROVE  FALSE
      OBVIOUS
    <3>1. i + 1 = 1
      BY <1>1, <1>4 DEF SaidOnce
    <3> QED BY <3>1
  <2> QED BY <2>1 DEF Said
<1> QED BY <1>2, <1>3, <1>4

(* An answer consumed: nothing is left of the exchange it belongs to.      *)
LEMMA RecvInitInv ==
  ASSUME Inv, StartOk \/ RestartOk
  PROVE  ConversationOK'
<1>1. proc \in Pids /\ Conversation /\ proc' = proc /\ RecvOk("InitOk") /\ InitPhase
  BY DEF StartOk, RestartOk, Inv, TypeOK, ConversationOK, InitPhase
<1>2. Said("InitOk") /\ ~Said("InitOk")' /\ (Said("InvokeOk")' => Said("InvokeOk"))
  BY <1>1, RecvShape, RecvSaid DEF Inv, Conversation
<1>3. SaidOnce("InitOk")' /\ SaidOnce("InvokeOk")'
  BY <1>1, RecvSaid DEF Inv, Conversation
<1>4. stdin[proc] = <<>>
  <2>1. stdin[proc] \in {<<>>, InitFrags}
    BY <1>1, UndecodedIs DEF Conversation, InitPhase
  <2> QED BY <1>1, <1>2, <2>1, PipeShape DEF Conversation, Holds, Inv
<1>5. task[proc] = "none"
  BY <1>1, <1>2 DEF Conversation, Inv, TypeOK, InitPhase, InvokePhase
<1>6. ~Said("InvokeOk")'
  BY <1>1, <1>2 DEF Conversation, InitPhase, InvokePhase
<1>7. stdin' = stdin /\ got' = got /\ task' = task /\ pc' \in {"idle", "returned"}
  BY DEF StartOk, RestartOk, node
<1>8. Undecoded' = {<<>>}
  BY <1>7 DEF Undecoded
<1>9. Conversation'
  BY <1>1, <1>2, <1>3, <1>4, <1>5, <1>6, <1>7, <1>8 DEF Conversation, Holds, Said
<1>10. CASE StartOk
  BY <1>1, <1>9, <1>10 DEF StartOk, Inv, ConversationOK, ValidityAttributed, OkMeansCompleted,
     InvokePhase, InHarness, node
<1>11. CASE RestartOk
  BY <1>1, <1>9, <1>11 DEF RestartOk, Verdict, Inv, ConversationOK, ValidityAttributed,
     OkMeansCompleted, InvokePhase, InHarness, node
<1> QED BY <1>10, <1>11

LEMMA AnswerInv ==
  ASSUME Inv, Answer
  PROVE  ConversationOK'
<1>1. /\ proc \in Pids /\ Conversation /\ proc' = proc /\ RecvOk("InvokeOk")
      /\ pc = "awaiting" /\ call > 0
  BY DEF Answer, Inv, TypeOK, ConversationOK, InvokePhase
<1>2. Said("InvokeOk") /\ ~Said("InvokeOk")' /\ (Said("InitOk")' => Said("InitOk"))
  BY <1>1, RecvShape, RecvSaid DEF Inv, Conversation
<1>3. SaidOnce("InitOk")' /\ SaidOnce("InvokeOk")'
  BY <1>1, RecvSaid DEF Inv, Conversation
<1>4. stdin[proc] = <<>>
  <2>1. stdin[proc] \in {<<>>, InvokeFrags}
    BY <1>1, UndecodedIs DEF Conversation
  <2> QED BY <1>1, <1>2, <2>1, PipeShape DEF Conversation, Holds, Inv
<1>5. task[proc] = "none" /\ ~Said("InitOk")'
  BY <1>1, <1>2 DEF Conversation, Inv, TypeOK, InitPhase
<1>6. stdin' = stdin /\ got' = got /\ task' = task /\ pc' = "returned"
  BY DEF Answer, node
<1>7. Undecoded' = {<<>>}
  BY <1>6 DEF Undecoded
<1>8. Conversation'
  BY <1>1, <1>2, <1>3, <1>4, <1>5, <1>6, <1>7 DEF Conversation, Holds, Said
<1>9. ended.call = call /\ Head(stdout[proc]).ok = ended.ok
  BY <1>1, <1>2, RecvShape DEF Conversation, Inv, RecvOk
<1>10. ValidityAttributed'
  BY <1>1 DEF Answer, Inv, ConversationOK, ValidityAttributed, InHarness, node
<1>11. OkMeansCompleted'
  <2>1. last'.kind = "Ok" => ended.ok
    BY <1>9 DEF Answer, Verdict
  <2>2. ended.ok => valid
    BY <1>1, <1>9 DEF Inv, ConversationOK, ValidityAttributed, InHarness
  <2> QED BY <1>9, <2>1, <2>2 DEF Answer, OkMeansCompleted
<1> QED
  BY <1>1, <1>8, <1>10, <1>11 DEF Answer, Verdict, Inv, ConversationOK, InvokePhase, node

LEMMA EvaluateInv ==
  ASSUME Inv, Evaluate
  PROVE  ConversationOK'
<1>1. Undecoded' = Undecoded
  BY DEF Evaluate, Undecoded
<1> QED
  BY <1>1 DEF Evaluate, Inv, ConversationOK, Conversation, InvokePhase, InitPhase, Said,
     SaidOnce, Holds, ValidityAttributed, OkMeansCompleted, InHarness, node

(* A request written to the pipe.                                          *)
LEMMA SendsShape ==
  ASSUME TypeOK, proc \in Pids, NEW m, Sends(m)
  PROVE  \/ child[proc] = "dead" /\ stdin' = stdin
         \/ child[proc] # "dead" /\ stdin'[proc] = stdin[proc] \o Frags(m)
BY DEF Sends, TypeOK

LEMMA InvokeInv ==
  ASSUME Inv, Invoke
  PROVE  ConversationOK'
<1>1. proc \in Pids /\ Conversation /\ proc' = proc /\ pc = "idle"
  BY DEF Invoke, Inv, TypeOK, ConversationOK
<1>2. stdin[proc] = <<>> /\ got[proc] = 0
  BY <1>1, UndecodedIs, EmptySeq DEF Conversation, Inv, TypeOK
<1>3. ~Said("InitOk") /\ ~Said("InvokeOk") /\ task[proc] = "none"
  BY <1>1 DEF Conversation, InitPhase, InvokePhase, Inv, TypeOK
<1>4. call' \in 1..MaxCalls /\ call' = call + 1
  BY DEF Invoke, Inv, TypeOK
<1>5. InvokeFrags' = Frags(Request("Invoke", call + 1))
  BY <1>4 DEF InvokeFrags
<1>6. Request("Invoke", call + 1) \in Requests
  BY <1>4, RequestTypes
<1>7. /\ InvokeFrags' # <<>> /\ Len(InvokeFrags') \in Nat
      /\ InvokeFrags'[1].msg.type = "Invoke"
  <2>1. Request("Invoke", call + 1).type = "Invoke"
    BY DEF Request
  <2> QED BY <1>5, <1>6, <2>1, RequestHolds, FirstFrag
<1>8. stdin'[proc] \in {<<>>, InvokeFrags'}
  <2>1. <<>> \o Frags(Request("Invoke", call + 1)) = Frags(Request("Invoke", call + 1))
    BY <1>6, FragsType, ConcatEmptySeq
  <2> QED BY <1>1, <1>2, <1>5, <2>1, SendsShape DEF Invoke, Inv
<1>9. pc' \in {"awaiting", "stopping"}
  BY DEF Invoke
<1>10. stdin'[proc] \in Undecoded'
  BY <1>8, <1>9 DEF Undecoded, InvokeFrags
<1>11. ended.call < call'
  BY <1>4 DEF Inv, ConversationOK, TypeOK
<1>12. stdout' = stdout /\ task' = task /\ got' = got /\ ended' = ended
  BY DEF Invoke, node
<1>13. SaidOnce("InitOk")' /\ SaidOnce("InvokeOk")' /\ ~Said("InitOk")' /\ ~Said("InvokeOk")'
  BY <1>1, <1>3, <1>12 DEF SaidOnce, Said, Conversation
<1>14. Conversation'
  <2>1. got'[proc'] <= Len(stdin'[proc'])
    BY <1>1, <1>2, <1>7, <1>8, <1>12, EmptySeq
  <2>2. ~Holds("Init")'
    BY <1>1, <1>7, <1>8 DEF Holds
  <2> QED
    BY <1>1, <1>3, <1>10, <1>11, <1>12, <1>13, <2>1, <2>2 DEF Conversation, Said
<1>15. ValidityAttributed' /\ OkMeansCompleted'
  <2>1. ended'.call # call' /\ valid' = TRUE
    BY <1>4, <1>11, <1>12 DEF Invoke, Inv, TypeOK
  <2>2. pc' # "returned"
    BY <1>9
  <2> QED BY <2>1, <2>2 DEF ValidityAttributed, OkMeansCompleted
<1> QED
  BY <1>1, <1>4, <1>9, <1>11, <1>14, <1>15 DEF Invoke, Inv, TypeOK, ConversationOK, node

LEMMA NoAnswerInv ==
  ASSUME Inv, NoAnswer
  PROVE  ConversationOK'
<1>1. proc \in Pids /\ Conversation /\ proc' = proc /\ pc = "awaiting" /\ call > 0
  BY DEF NoAnswer, Inv, TypeOK, ConversationOK, InvokePhase
<1>2. stdin[proc] \in {<<>>, InvokeFrags}
  BY <1>1, UndecodedIs DEF Conversation
<1>3. TerminateFrags \in Seq(Fragments) /\ InvokeFrags \in Seq(Fragments)
  BY <1>1, FragsType, RequestTypes DEF TerminateFrags, InvokeFrags, Inv, TypeOK
<1>4. stdin'[proc] \in {stdin[proc], stdin[proc] \o TerminateFrags}
  BY <1>1, SendsShape DEF NoAnswer, Inv, TerminateFrags
<1>5. stdin'[proc] \in {<<>>, InvokeFrags, TerminateFrags, InvokeFrags \o TerminateFrags}
  BY <1>2, <1>3, <1>4, ConcatEmptySeq
<1>6. pc' = "stopping" /\ call' = call
  BY DEF NoAnswer
<1>7. stdin'[proc'] \in Undecoded'
  BY <1>1, <1>5, <1>6 DEF Undecoded, InvokeFrags, TerminateFrags
<1>8. Len(stdin[proc]) <= Len(stdin'[proc])
  BY <1>2, <1>3, <1>4, ConcatProperties, EmptySeq, LenProperties
<1>9. ~Holds("Init")' /\ (Holds("Invoke")' => Holds("Invoke"))
  BY <1>1, <1>2, <1>3, <1>4, PipeShape, ConcatEmptySeq DEF Holds, Inv
<1>10. stdout' = stdout /\ task' = task /\ got' = got /\ ended' = ended /\ job' = job
  BY DEF NoAnswer, node
<1>11. Conversation'
  <2>1. got'[proc'] <= Len(stdin'[proc'])
    BY <1>1, <1>2, <1>3, <1>4, <1>8, <1>10, LenProperties, ConcatProperties
    DEF Conversation, Inv, TypeOK
  <2> QED
    BY <1>1, <1>6, <1>7, <1>9, <1>10, <2>1
    DEF Conversation, Said, SaidOnce, InitPhase, InvokePhase
<1> QED
  BY <1>1, <1>6, <1>10, <1>11
  DEF NoAnswer, Inv, ConversationOK, ValidityAttributed, OkMeansCompleted, InvokePhase,
      InHarness, node

LEMMA TerminateInv ==
  ASSUME Inv, Terminate
  PROVE  ConversationOK'
<1>1. proc \in Pids /\ Conversation /\ proc' = proc /\ pc = "idle"
  BY DEF Terminate, Inv, TypeOK, ConversationOK
<1>2. stdin[proc] = <<>> /\ got[proc] = 0
  BY <1>1, UndecodedIs, EmptySeq DEF Conversation, Inv, TypeOK
<1>3. TerminateFrags \in Seq(Fragments)
  BY FragsType, RequestTypes DEF TerminateFrags
<1>4. stdin'[proc] \in {<<>>, TerminateFrags}
  BY <1>1, <1>2, <1>3, SendsShape, ConcatEmptySeq DEF Terminate, Inv, TerminateFrags
<1>5. stdin'[proc'] \in Undecoded'
  BY <1>1, <1>4 DEF Terminate, Undecoded, TerminateFrags
<1>6. ~Holds("Init")' /\ ~Holds("Invoke")'
  BY <1>1, <1>4, PipeShape DEF Holds, Inv
<1>7. stdout' = stdout /\ task' = task /\ got' = got /\ ended' = ended /\ call' = call
  BY DEF Terminate, node
<1>8. got'[proc'] <= Len(stdin'[proc'])
  BY <1>1, <1>2, <1>3, <1>4, <1>7, LenProperties, EmptySeq
<1>9. Conversation'
  BY <1>1, <1>5, <1>6, <1>7, <1>8
  DEF Terminate, Conversation, Said, SaidOnce, InitPhase, InvokePhase
<1> QED
  BY <1>1, <1>7, <1>9
  DEF Terminate, Inv, ConversationOK, ValidityAttributed, OkMeansCompleted, InvokePhase,
      InHarness, node

(* The child's side.                                                       *)

(* What a 'data' event may do to the pipe: nothing decodes, or the first   *)
(* message does, alone or followed by a Terminate.                         *)
LEMMA ReadShape ==
  ASSUME Inv, NEW p \in Pids, Read(p)
  PROVE  /\ p = proc /\ Conversation
         /\ \/ /\ got'[p] \in 0..Len(stdin[p])
               /\ UNCHANGED <<child, task, job, stdin>>
            \/ \E m \in Requests :
                 /\ stdin[p] # <<>> /\ stdin[p][1].msg = m
                 /\ Handle(p, m) /\ got'[p] = 0
                 /\ \/ stdin'[p] = <<>>
                    \/ pc = "stopping" /\ m.type = "Invoke" /\ stdin'[p] = TerminateFrags
<1>1. p = proc /\ Conversation
  BY UpIsProc DEF Read, Inv
<1>2. stdin[p] \in Seq(Fragments) /\ got[p] \in Nat /\ Len(stdin[p]) \in Nat
  BY LenProperties DEF Inv, TypeOK
<1>3. PICK n \in got[p] + 1 .. Len(stdin[p]) :
          \/ \E m \in Requests :
               /\ Decodes(SubSeq(stdin[p], 1, n), m)
               /\ Handle(p, m)
               /\ stdin' = [stdin EXCEPT ![p] = SubSeq(@, n + 1, Len(@))]
               /\ got' = [got EXCEPT ![p] = 0]
          \/ /\ \A m \in Requests : ~Decodes(SubSeq(stdin[p], 1, n), m)
             /\ got' = [got EXCEPT ![p] = n]
             /\ UNCHANGED <<child, task, job, stdin>>
  BY DEF Read
<1>4. n \in 1..Len(stdin[p])
  BY <1>2, <1>3
<1>5. CASE got' = [got EXCEPT ![p] = n] /\ UNCHANGED <<child, task, job, stdin>>
  <2>1. got'[p] \in 0..Len(stdin[p])
    BY <1>2, <1>4, <1>5 DEF Inv, TypeOK
  <2> QED BY <1>1, <1>5, <2>1
<1>6. ASSUME NEW m \in Requests, Decodes(SubSeq(stdin[p], 1, n), m), Handle(p, m),
             stdin' = [stdin EXCEPT ![p] = SubSeq(@, n + 1, Len(@))],
             got' = [got EXCEPT ![p] = 0]
      PROVE  /\ stdin[p] # <<>> /\ stdin[p][1].msg = m
             /\ Handle(p, m) /\ got'[p] = 0
             /\ \/ stdin'[p] = <<>>
                \/ pc = "stopping" /\ m.type = "Invoke" /\ stdin'[p] = TerminateFrags
  <2>1. stdin[p] # <<>> /\ stdin[p][1].msg = m
    <3>1. stdin[p][1].msg = m
      BY <1>2, <1>4, <1>6, DecodedIsFirst
    <3>2. stdin[p] # <<>>
      BY <1>2, <1>4, EmptySeq
    <3> QED BY <3>1, <3>2
  <2>2. got'[p] = 0 /\ stdin'[p] = SubSeq(stdin[p], n + 1, Len(stdin[p]))
    BY <1>6 DEF Inv, TypeOK
  <2>3. ASSUME NEW k \in Requests, stdin[p] = Frags(k) PROVE stdin'[p] = <<>>
    BY <1>4, <1>6, <2>2, <2>3, DecodeOne
  <2>4. /\ Request("Init", 0) \in Requests /\ Request("Terminate", 0) \in Requests
        /\ call > 0 => Request("Invoke", call) \in Requests
    BY RequestTypes DEF Inv, TypeOK
  <2>5. CASE stdin[p] = InitFrags \/ stdin[p] = TerminateFrags
    BY <1>6, <2>1, <2>2, <2>3, <2>4, <2>5 DEF InitFrags, TerminateFrags
  <2>6. CASE stdin[p] = InvokeFrags /\ pc \in {"awaiting", "stopping"}
    <3>1. call > 0
      BY <2>6 DEF Inv, ConversationOK, InvokePhase
    <3> QED BY <1>6, <2>1, <2>2, <2>3, <2>4, <2>6, <3>1 DEF InvokeFrags
  <2>7. CASE stdin[p] = InvokeFrags \o TerminateFrags /\ pc = "stopping"
    <3>1. call > 0
      BY <2>7 DEF Inv, ConversationOK, InvokePhase
    <3>2. m = Request("Invoke", call) /\ stdin'[p] = TerminateFrags
      BY <1>4, <1>6, <2>2, <2>4, <2>7, <3>1, DecodeTwo DEF InvokeFrags, TerminateFrags
    <3>3. m.type = "Invoke"
      BY <3>2 DEF Request
    <3> QED BY <1>6, <2>1, <2>2, <2>7, <3>2, <3>3
  <2>8. stdin[p] \in Undecoded
    BY <1>1 DEF Conversation
  <2>9. \/ stdin[p] = InitFrags \/ stdin[p] = TerminateFrags
        \/ stdin[p] = InvokeFrags /\ pc \in {"awaiting", "stopping"}
        \/ stdin[p] = InvokeFrags \o TerminateFrags /\ pc = "stopping"
    BY <2>1, <2>8 DEF Undecoded, InitFrags, InvokeFrags, TerminateFrags
  <2> QED BY <2>5, <2>6, <2>7, <2>9
<1> QED BY <1>1, <1>3, <1>5, <1>6

LEMMA ReadInv ==
  ASSUME Inv, NEW p \in Pids, Read(p)
  PROVE  ConversationOK'
<1>1. p = proc /\ Conversation /\ child[p] = "up"
  BY ReadShape DEF Read
<1>2. UNCHANGED <<parent, valid, left, stdout, ended>>
  BY DEF Read
<1>3. Undecoded' = Undecoded
  BY <1>2 DEF parent, Undecoded
<1>4. Conversation' => ConversationOK'
  <2>1. \A q \in Pids : child'[q] # "none" => child[q] # "none"
    BY <1>1, ReadShape DEF Handle, Inv, TypeOK
  <2> QED
    BY <1>1, <1>2, <2>1 DEF parent, Inv, ConversationOK, InvokePhase, ValidityAttributed,
       OkMeansCompleted, InHarness
<1>5. CASE got'[p] \in 0..Len(stdin[p]) /\ UNCHANGED <<child, task, job, stdin>>
  <2>1. got'[p] <= Len(stdin[p])
    BY <1>5, LenProperties DEF Inv, TypeOK
  <2>2. Conversation'
    BY <1>1, <1>2, <1>3, <1>5, <2>1
    DEF parent, Conversation, Holds, Said, SaidOnce, InitPhase, InvokePhase
  <2> QED BY <1>4, <2>2
<1>6. ASSUME NEW m \in Requests, stdin[p] # <<>>, stdin[p][1].msg = m,
             Handle(p, m), got'[p] = 0,
             \/ stdin'[p] = <<>>
             \/ pc = "stopping" /\ m.type = "Invoke" /\ stdin'[p] = TerminateFrags
      PROVE  ConversationOK'
  <2>1. got'[p] <= Len(stdin'[p]) /\ stdin'[p] \in Undecoded
    BY <1>6, UndecodedIs, EmptySeq, FirstFrag, RequestTypes DEF Undecoded, TerminateFrags
  <2>2. ~Holds("Init")' /\ ~Holds("Invoke")'
    BY <1>1, <1>2, <1>6, PipeShape DEF parent, Holds, Inv
  <2>3. CASE m.type = "Init"
    <3>1. task'[p] = "init" /\ stdin'[p] = <<>>
      BY <1>6, <2>3 DEF Handle, Inv, TypeOK
    <3>2. InitPhase /\ ~Said("InitOk")
      BY <1>1, <1>6, <2>3, UndecodedIs, PipeShape
      DEF Conversation, Holds, InitPhase, Inv, ConversationOK, InvokePhase
    <3>3. Conversation'
      BY <1>1, <1>2, <1>3, <2>1, <2>2, <3>1, <3>2
      DEF parent, Conversation, Said, SaidOnce, InitPhase, InvokePhase
    <3> QED BY <1>4, <3>3
  <2>4. CASE m.type = "Invoke"
    <3>1. task'[p] = "run" /\ job'[p] = m.call
      BY <1>6, <2>4 DEF Handle, Inv, TypeOK
    <3>2. InvokePhase /\ ~Said("InvokeOk") /\ ended.call < call
      BY <1>1, <1>6, <2>4, UndecodedIs, PipeShape DEF Conversation, Holds, InvokePhase, Inv
    <3>3. m.call = call
      <4>1. call > 0
        BY <3>2 DEF Inv, ConversationOK
      <4>2. stdin[p] \in {InvokeFrags, InvokeFrags \o TerminateFrags}
        BY <1>1, <1>6, <2>4, <3>2, UndecodedIs, PipeShape DEF Conversation, InvokePhase, Inv
      <4>3. stdin[p][1].msg = Request("Invoke", call)
        <5>1. Request("Invoke", call) \in Requests /\ Request("Terminate", 0) \in Requests
          BY <4>1, RequestTypes DEF Inv, TypeOK
        <5> QED BY <4>2, <5>1, FirstFrag, TwoHold DEF InvokeFrags, TerminateFrags
      <4> QED BY <1>6, <4>3 DEF Request
    <3>4. Conversation'
      BY <1>1, <1>2, <1>3, <2>1, <2>2, <3>1, <3>2, <3>3
      DEF parent, Conversation, Said, SaidOnce, InitPhase, InvokePhase
    <3> QED BY <1>4, <3>4
  <2>5. CASE m.type = "Terminate"
    <3>1. task' = task /\ job' = job /\ task[p] # "init"
      BY <1>1, <1>6, <2>5 DEF Handle, Conversation
    <3>2. Conversation'
      BY <1>1, <1>2, <1>3, <2>1, <2>2, <3>1
      DEF parent, Conversation, Said, SaidOnce, InitPhase, InvokePhase
    <3> QED BY <1>4, <3>2
  <2>6. m.type \in {"Init", "Invoke", "Terminate"}
    BY DEF Requests
  <2> QED BY <2>3, <2>4, <2>5, <2>6
<1> QED BY <1>5, <1>6, ReadShape

(* A message written by the child.                                         *)
LEMMA SayShape ==
  ASSUME TypeOK, proc \in Pids, proc' = proc, NEW r \in Replies,
         stdout' = [stdout EXCEPT ![proc] = Append(@, r)]
  PROVE  /\ \A t : t # r.type => (Said(t)' <=> Said(t)) /\ (SaidOnce(t) => SaidOnce(t)')
         /\ ~Said(r.type) => SaidOnce(r.type)'
         /\ \A i \in 1..Len(stdout'[proc']) :
              \/ i \in 1..Len(stdout[proc]) /\ stdout'[proc'][i] = stdout[proc][i]
              \/ i = Len(stdout[proc]) + 1 /\ stdout'[proc'][i] = r
<1>1. stdout[proc] \in Seq(Replies) /\ Len(stdout[proc]) \in Nat
  BY LenProperties DEF TypeOK
<1>2. stdout'[proc'] = Append(stdout[proc], r)
  BY DEF TypeOK
<1>3. /\ Len(stdout'[proc']) = Len(stdout[proc]) + 1
      /\ \A i \in 1..Len(stdout[proc]) : stdout'[proc'][i] = stdout[proc][i]
      /\ stdout'[proc'][Len(stdout[proc]) + 1] = r
  BY <1>1, <1>2, AppendProperties
<1>4. \A i \in 1..Len(stdout'[proc']) :
        \/ i \in 1..Len(stdout[proc]) /\ stdout'[proc'][i] = stdout[proc][i]
        \/ i = Len(stdout[proc]) + 1 /\ stdout'[proc'][i] = r
  BY <1>1, <1>3
<1>5. \A i \in 1..Len(stdout[proc]) : i \in 1..Len(stdout'[proc'])
  BY <1>1, <1>3
<1>6. ASSUME NEW t, t # r.type
      PROVE  (Said(t)' <=> Said(t)) /\ (SaidOnce(t) => SaidOnce(t)')
  <2>1. Said(t)' => Said(t)
    BY <1>4, <1>6 DEF Said
  <2>2. Said(t) => Said(t)'
    BY <1>3, <1>5 DEF Said
  <2>3. SaidOnce(t) => SaidOnce(t)'
    BY <1>4, <1>6 DEF SaidOnce
  <2> QED BY <2>1, <2>2, <2>3
<1>7. ~Said(r.type) => SaidOnce(r.type)'
  BY <1>4 DEF Said, SaidOnce
<1> QED BY <1>4, <1>6, <1>7

LEMMA InitDoneInv ==
  ASSUME Inv, NEW p \in Pids, InitDone(p)
  PROVE  ConversationOK'
<1> DEFINE r == Reply("InitOk", 0, TRUE)
<1>1. p = proc /\ Conversation /\ task[p] = "init" /\ TypeOK
  BY UpIsProc DEF InitDone, Inv
<1>2. UNCHANGED <<parent, valid, child, job, left, stdin, got, ended>>
  BY DEF InitDone
<1>3. r \in Replies /\ r.type = "InitOk" /\ r.type # "InvokeOk"
  BY ReplyTypes DEF Reply
<1>4. stdout' = [stdout EXCEPT ![proc] = Append(@, r)] /\ proc' = proc
  BY <1>1, <1>2 DEF InitDone, parent
<1>5. /\ Said("InvokeOk")' <=> Said("InvokeOk")
      /\ SaidOnce("InvokeOk") => SaidOnce("InvokeOk")'
      /\ ~Said("InitOk") => SaidOnce("InitOk")'
  BY <1>1, <1>3, <1>4, SayShape
<1>6. \A i \in 1..Len(stdout'[proc']) :
        \/ i \in 1..Len(stdout[proc]) /\ stdout'[proc'][i] = stdout[proc][i]
        \/ stdout'[proc'][i] = r
  BY <1>1, <1>3, <1>4, SayShape
<1>7. Undecoded' = Undecoded
  BY <1>2 DEF parent, Undecoded
<1>8. InitPhase /\ stdin[proc] = <<>> /\ task'[proc] = "none"
  BY <1>1 DEF InitDone, TypeOK, Conversation
<1>9. Conversation'
  BY <1>1, <1>2, <1>3, <1>5, <1>6, <1>7, <1>8
  DEF parent, Conversation, Holds, InitPhase, InvokePhase
<1> QED
  BY <1>2, <1>9 DEF parent, Inv, ConversationOK, InvokePhase, ValidityAttributed,
     OkMeansCompleted, InHarness

LEMMA FinishInv ==
  ASSUME Inv, NEW p \in Pids, NEW ok \in BOOLEAN, NEW isBug \in BOOLEAN,
         NEW leaves \in BOOLEAN, Finish(p, ok, isBug, leaves)
  PROVE  ConversationOK'
<1> DEFINE r == Reply("InvokeOk", job[p], ok)
<1>1. p = proc /\ Conversation /\ task[p] = "run" /\ TypeOK
  BY UpIsProc DEF Finish, Inv
<1>2. InvokePhase /\ job[p] = call /\ ~Said("InvokeOk") /\ ~Said("InitOk")
  BY <1>1 DEF Conversation, InvokePhase, InitPhase
<1>3. UNCHANGED <<parent, child, job, stdin, got>>
  BY DEF Finish
<1>4. r \in Replies /\ r.type = "InvokeOk" /\ r.call = call /\ r.ok = ok
  BY <1>1, <1>2, ReplyTypes DEF Reply, TypeOK
<1>5. stdout' = [stdout EXCEPT ![proc] = Append(@, r)] /\ proc' = proc
  BY <1>1, <1>3 DEF Finish, parent
<1>6. /\ Said("InitOk")' <=> Said("InitOk")
      /\ SaidOnce("InitOk") => SaidOnce("InitOk")'
      /\ ~Said("InvokeOk") => SaidOnce("InvokeOk")'
  <2>1. "InitOk" # r.type
    BY <1>4
  <2> QED BY <1>1, <1>4, <1>5, <2>1, SayShape
<1>7. \A i \in 1..Len(stdout'[proc']) :
        \/ i \in 1..Len(stdout[proc]) /\ stdout'[proc'][i] = stdout[proc][i]
        \/ stdout'[proc'][i] = r
  BY <1>1, <1>4, <1>5, SayShape
<1>8. Undecoded' = Undecoded
  BY <1>3 DEF parent, Undecoded
<1>9. stdin[proc] = <<>> \/ (~Holds("Invoke") /\ ~Holds("Init"))
  BY <1>1 DEF Conversation, Holds
<1>10. task'[proc] = "none" /\ ended'.call = call /\ ended'.ok = ok
  BY <1>1, <1>2 DEF Finish, TypeOK
<1>11. \A i \in 1..Len(stdout'[proc']) :
         stdout'[proc'][i].type = "InvokeOk"
           => stdout'[proc'][i].call = call' /\ stdout'[proc'][i].ok = ended'.ok
  BY <1>2, <1>3, <1>4, <1>7, <1>10 DEF parent, Said
<1>12. Conversation'
  BY <1>1, <1>2, <1>3, <1>6, <1>8, <1>9, <1>10, <1>11
  DEF parent, Conversation, Holds, InitPhase, InvokePhase
<1>13. pc' = pc /\ call' = call /\ valid' = ended'.valid /\ (ended'.ok => ended'.valid)
  BY <1>3 DEF Finish, parent
<1>14. ValidityAttributed'
  <2>1. (ended'.call = call' => ended'.valid) = ended'.valid
    BY <1>10, <1>13 DEF Finish
  <2> QED BY <1>13, <2>1 DEF ValidityAttributed
<1>15. OkMeansCompleted'
  BY <1>2, <1>13 DEF OkMeansCompleted, InvokePhase
<1> QED
  BY <1>3, <1>10, <1>12, <1>13, <1>14, <1>15, NextType
  DEF parent, Inv, ConversationOK, InvokePhase, TypeOK

LEMMA DieInv ==
  ASSUME Inv, NEW p \in Pids, Die(p) \/ Hang(p)
  PROVE  ConversationOK'
<1>1. p = proc /\ Conversation
  BY UpIsProc DEF Die, Hang, May, Inv
<1>2. \A q \in Pids : child'[q] # "none" => child[q] # "none"
  BY <1>1 DEF Die, Hang, May, Inv, TypeOK
<1>3. Undecoded' = Undecoded
  BY DEF Die, Hang, parent, Undecoded
<1> QED
  BY <1>1, <1>2, <1>3
  DEF Die, Hang, parent, Inv, ConversationOK, Conversation, Holds, Said, SaidOnce, InitPhase,
      InvokePhase, ValidityAttributed, OkMeansCompleted, InHarness

LEMMA LeftoverEndsInv ==
  ASSUME Inv, NEW p \in Pids, LeftoverEnds(p)
  PROVE  ConversationOK'
<1>1. Undecoded' = Undecoded
  BY DEF LeftoverEnds, parent, Undecoded
<1> QED
  BY <1>1
  DEF LeftoverEnds, parent, Inv, ConversationOK, Conversation, Holds, Said, SaidOnce,
      InitPhase, InvokePhase, ValidityAttributed, OkMeansCompleted, InHarness

LEMMA ChatterInv ==
  ASSUME Inv, NEW p \in Pids, Chatter(p)
  PROVE  ConversationOK'
<1> DEFINE r == Reply("Noise", 0, TRUE)
<1>1. p = proc /\ Conversation /\ TypeOK
  BY UpIsProc DEF Chatter, May, Inv
<1>2. UNCHANGED <<parent, valid, child, task, job, left, stdin, got, ended>>
  BY DEF Chatter
<1>3. r \in Replies /\ r.type = "Noise"
  BY ReplyTypes DEF Reply
<1>4. stdout' = [stdout EXCEPT ![proc] = Append(@, r)] /\ proc' = proc
  BY <1>1, <1>2 DEF Chatter, parent
<1>5. \A t \in {"InitOk", "InvokeOk"} :
        (Said(t)' <=> Said(t)) /\ (SaidOnce(t) => SaidOnce(t)')
  <2>1. \A t \in {"InitOk", "InvokeOk"} : t # r.type
    BY <1>3
  <2>2. \A t : t # r.type => (Said(t)' <=> Said(t)) /\ (SaidOnce(t) => SaidOnce(t)')
    BY <1>1, <1>3, <1>4, SayShape
  <2> QED BY <2>1, <2>2
<1>6. \A i \in 1..Len(stdout'[proc']) :
        \/ i \in 1..Len(stdout[proc]) /\ stdout'[proc'][i] = stdout[proc][i]
        \/ stdout'[proc'][i].type = "Noise"
  BY <1>1, <1>3, <1>4, SayShape
<1>7. Undecoded' = Undecoded
  BY <1>2 DEF parent, Undecoded
<1>8. Conversation'
  BY <1>1, <1>2, <1>5, <1>6, <1>7
  DEF parent, Conversation, Holds, InitPhase, InvokePhase
<1> QED
  BY <1>2, <1>8 DEF parent, Inv, ConversationOK, InvokePhase, ValidityAttributed,
     OkMeansCompleted, InHarness

LEMMA NextInv == Inv /\ [Next]_vars => ConversationOK'
<1> SUFFICES ASSUME Inv, [Next]_vars PROVE ConversationOK'
  OBVIOUS
<1>1. CASE Client
  BY <1>1, StartInv, RecvInitInv, StopInv, InvokeInv, AnswerInv, NoAnswerInv, EvaluateInv,
     RestartInv, ExitInv, TerminateInv
  DEF Client, RestartFails, Timeout
<1>2. ASSUME NEW p \in Pids, Node(p) PROVE ConversationOK'
  BY <1>2, ReadInv, InitDoneInv, FinishInv, DieInv, ChatterInv, LeftoverEndsInv DEF Node
<1>3. CASE UNCHANGED vars
  <2>1. Undecoded' = Undecoded
    BY <1>3 DEF vars, parent, Undecoded
  <2> QED
    BY <1>3, <2>1
    DEF vars, parent, node, Inv, ConversationOK, Conversation, Holds, Said, SaidOnce,
        InitPhase, InvokePhase, ValidityAttributed, OkMeansCompleted, InHarness
<1> QED BY <1>1, <1>2, <1>3 DEF Next, Over

(* The inductive invariant: an input is in at most one place, undecoded,   *)
(* running, or answered and unread, only while its invocation lasts, and   *)
(* the verdict and the validity flag are about it.                         *)
THEOREM Invariant == Spec => []Inv
<1>1. Init => Inv
  BY InitType, InitEstablishes DEF Inv
<1>2. Inv /\ [Next]_vars => Inv'
  BY NextType, NextInv DEF Inv
<1> QED BY <1>1, <1>2, PTL DEF Spec

-----------------------------------------------------------------------------
(* The safety properties follow.                                           *)

(* The conversation between a client and its child is in step: the part of *)
(* the invariant that is not about types.                                  *)
THEOREM ConversationInStep == Spec => []ConversationOK
<1>1. Inv => ConversationOK
  BY DEF Inv
<1> QED BY <1>1, Invariant, PTL

(* The only process that can still run is the current child of a client    *)
(* that is up: Child::spawn, restart_child_process, stop_child_process.    *)
THEOREM AtMostOneChild == Spec => []OneChild
<1>1. Inv => OneChild
  BY DEF Inv, ConversationOK, OneChild, Alive
<1> QED BY <1>1, Invariant, PTL

(* No answer outlives the invocation it answers: throwing_invoke, invoke.  *)
THEOREM NoAnswerIsStale == Spec => []NoStaleAnswer
<1>1. Inv => NoStaleAnswer
  <2> SUFFICES ASSUME Inv, NEW p \in Pids, NEW i \in 1..Len(stdout[p]), p = proc,
                      stdout[p][i].type = "InvokeOk"
               PROVE  stdout[p][i].call = call /\ pc \in {"awaiting", "stopping"}
    BY DEF NoStaleAnswer
  <2>1. Conversation
    BY PidsAssumption DEF Inv, ConversationOK
  <2> QED BY <2>1 DEF Conversation, Said, InvokePhase
<1> QED BY <1>1, Invariant, PTL

(* Ok is only said of a run that ended without an exception: invoke,       *)
(* handleMessage, withOracle.                                              *)
THEOREM OkIsTrue == Spec => []OkMeansCompleted
<1>1. Inv => OkMeansCompleted
  BY DEF Inv, ConversationOK
<1> QED BY <1>1, Invariant, PTL

(* The validity flag is the oracle's judgement of this invocation:         *)
(* withOracle, ValidityObserver.                                           *)
THEOREM ValidityIsAttributed == Spec => []ValidityAttributed
<1>1. Inv => ValidityAttributed
  BY DEF Inv, ConversationOK
<1> QED BY <1>1, Invariant, PTL

(* Nothing of an earlier exchange is in the pipe or in _recvBuf when the   *)
(* next invocation starts: recv, invoke.                                   *)
THEOREM PipeIsCleanWhenIdle == Spec => []CleanWhenIdle
<1>1. Inv => CleanWhenIdle
  <2> SUFFICES ASSUME Inv, pc \in {"returned", "idle"}
               PROVE  stdin[proc] = <<>> /\ got[proc] = 0
    BY DEF CleanWhenIdle
  <2>1. proc \in Pids /\ Conversation
    BY DEF Inv, TypeOK, ConversationOK
  <2>2. stdin[proc] = <<>>
    BY <2>1, UndecodedIs DEF Conversation
  <2>3. got[proc] \in Nat /\ got[proc] <= 0
    BY <2>1, <2>2, EmptySeq DEF Conversation, Inv, TypeOK
  <2> QED BY <2>2, <2>3
<1> QED BY <1>1, Invariant, PTL

(* An input is only started in a child that is doing nothing, although     *)
(* nobody awaits handleMessage.                                            *)
THEOREM HandlersDoNotOverlap == Spec => HandlersNeverOverlap
<1> DEFINE Fresh == \A p \in Pids : Starts(p) => task[p] = "none"
<1>1. Inv /\ [Next]_vars => Fresh
  <2> SUFFICES ASSUME Inv, Next, NEW p \in Pids, Starts(p)
               PROVE  task[p] = "none"
    BY DEF vars, node, Starts
  <2>1. CASE Client
    BY <2>1 DEF Client, Start, StartOk, StartFails, Invoke, Answer, NoAnswer, Evaluate, Restart,
       RestartOk, RestartFails, Timeout, Terminate, Terminated, Exit, Spawn, node, Starts, Inv,
       TypeOK
  <2>2. ASSUME NEW q \in Pids, Node(q), ~Read(q) PROVE FALSE
    BY <2>2 DEF Node, InitDone, Finish, Die, Hang, Chatter, LeftoverEnds, Starts, Inv,
       TypeOK
  <2>3. ASSUME NEW q \in Pids, Read(q) PROVE task[p] = "none"
    <3>1. q = proc /\ Conversation /\ (task' # task \/ job' # job)
      BY <2>3, ReadShape DEF Starts, Inv, TypeOK
    <3>2. PICK m \in Requests : stdin[q] # <<>> /\ stdin[q][1].msg = m /\ Handle(q, m)
      BY <2>3, <3>1, ReadShape
    <3>3. p = q /\ m.type = "Invoke"
      BY <3>2 DEF Handle, Starts, Inv, TypeOK
    <3> QED BY <3>1, <3>2, <3>3 DEF Conversation, Holds
  <2>4. CASE Over
    BY <2>4 DEF Over, vars, node, Starts
  <2> QED BY <2>1, <2>2, <2>3, <2>4 DEF Next
<1>2. Fresh => [Fresh]_vars
  OBVIOUS
<1> QED BY <1>1, <1>2, Invariant, PTL DEF Spec, HandlersNeverOverlap

(* Every step of the client and its worker is a step of the harness the    *)
(* executor was promised, or none of its business.                         *)
THEOREM RefinesHarness == Spec => H!HSafety
<1> USE DEF PhaseOf, InHarness
<1>1. Init => H!HInit
  BY DEF Init, H!HInit
<1>2. Inv /\ [Next]_vars => [H!HNext]_(H!hvars)
  <2> SUFFICES ASSUME Inv, [Next]_vars PROVE [H!HNext]_(H!hvars)
    OBVIOUS
  <2>1. CASE Start \/ Restart \/ NoAnswer \/ Evaluate \/ Terminated
    BY <2>1 DEF Start, Restart, NoAnswer, Evaluate, Terminated, H!hvars
  <2>2. CASE StartOk \/ StartFails
    BY <2>2 DEF StartOk, StartFails, H!HNext, H!Up
  <2>3. CASE Invoke
    BY <2>3 DEF Invoke, H!HNext, H!Begin
  <2>4. CASE Answer
    <3>1. Said("InvokeOk") /\ RecvOk("InvokeOk") /\ proc \in Pids /\ Conversation
      BY <2>4, RecvShape DEF Answer, Inv, TypeOK, ConversationOK
    <3>2. ended.call = call /\ Head(stdout[proc]).ok = ended.ok
      BY <2>4, <3>1, RecvShape DEF Conversation, Inv, RecvOk, Answer
    <3> QED BY <2>4, <3>2 DEF Answer, Verdict, H!HNext, H!Return, Inv, TypeOK
  <2>5. CASE RestartOk \/ RestartFails \/ Timeout
    BY <2>5 DEF RestartOk, RestartFails, Timeout, Exit, Verdict, H!HNext, H!Return
  <2>6. CASE Terminate
    BY <2>6 DEF Terminate, H!HNext, H!Close
  <2>7. ASSUME NEW p \in Pids, Node(p) PROVE [H!HNext]_(H!hvars)
    <3>1. ASSUME NEW ok \in BOOLEAN, NEW isBug \in BOOLEAN, NEW leaves \in BOOLEAN,
                 Finish(p, ok, isBug, leaves)
          PROVE  H!RunEnds
      <4>1. InvokePhase /\ job[p] = call /\ ended.call < call
        BY <3>1, UpIsProc DEF Finish, Conversation, Inv
      <4> QED BY <3>1, <4>1 DEF Finish, parent, InvokePhase, H!RunEnds
    <3>2. CASE Read(p) \/ InitDone(p) \/ Die(p) \/ Hang(p) \/ Chatter(p) \/ LeftoverEnds(p)
      BY <3>2 DEF Read, InitDone, Die, Hang, Chatter, LeftoverEnds, parent, H!hvars
    <3> QED BY <2>7, <3>1, <3>2 DEF Node, H!HNext
  <2>8. CASE Over \/ UNCHANGED vars
    BY <2>8 DEF Over, vars, parent, H!hvars
  <2> QED BY <2>1, <2>2, <2>3, <2>4, <2>5, <2>6, <2>7, <2>8 DEF Next, Client
<1> QED BY <1>1, <1>2, Invariant, PTL DEF Spec, H!HSafety

=============================================================================
