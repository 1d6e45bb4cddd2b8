-------------------------------- MODULE Guess --------------------------------
(***************************************************************************)
(* Type guesses and the signatures of built-ins (inference/common.ts).  A  *)
(* guess is a record with `isAny', the distribution `kind' and, where the  *)
(* kinds call for it, the parts objectShape, arrayValueType and classType; *)
(* a part that is undefined in the code is a field the record does not     *)
(* have.  A distribution is a function from keys to probabilities, which   *)
(* are counted in thousandths, the precision mergeProbabilityObjects       *)
(* rounds them to.  What is defined by recursion over guesses is in        *)
(* Merging.                                                                *)
(***************************************************************************)
EXTENDS Integers, Sequences, FiniteSetsExt, SequencesExt, TLC

CONSTANT BuiltinMethods  \* BUILTIN_METHOD_NAMES: never endpoints

One == 1000        \* the probability 1
Slack == 10        \* how far from 1 a distribution's sum may be when sampled

Mapped(s, Op(_)) == [i \in DOMAIN s |-> Op(s[i])]

(* The entries of f, and those of g that f has not.                        *)
OrElse(f, g) == [x \in DOMAIN f \cup DOMAIN g |-> IF x \in DOMAIN f THEN f[x] ELSE g[x]]

NoField == <<>>
Certain(k) == [x \in {k} |-> One]

AnyGuess == [isAny |-> TRUE, kind |-> NoField]
OfKind(k) == [isAny |-> FALSE, kind |-> Certain(k)]

(* Guess.object, Guess.array, Guess.class and the plain kinds.             *)
ObjectGuess(shape) == [isAny |-> FALSE, kind |-> Certain("Object"), objectShape |-> shape]
ArrayGuess(element) == [isAny |-> FALSE, kind |-> Certain("Array"), arrayValueType |-> element]
ClassGuess(class) == [isAny |-> FALSE, kind |-> Certain("Class"), classType |-> Certain(class)]

Undefined == OfKind("Undefined")
Null == OfKind("Null")
Number == OfKind("Number")
String == OfKind("String")
Boolean == OfKind("Boolean")
Function == OfKind("Function")

-----------------------------------------------------------------------------
(* Merging.                                                                *)

Has(g, part) == part \in DOMAIN g

(* The parts of a name that some of the guesses have, in their order.      *)
Parts(gs, part) ==
  LET with == SelectSeq(gs, LAMBDA g : Has(g, part)) IN [i \in DOMAIN with |-> with[i][part]]

Keys(objects) == UNION {DOMAIN objects[i] : i \in DOMAIN objects}

At(dist, k) == IF k \in DOMAIN dist THEN dist[k] ELSE 0

Accumulated(dists) ==                      \* mutant: the sum, not the mean
  [k \in Keys(dists) |-> MapThenSumSet(LAMBDA i : At(dists[i], k), DOMAIN dists)]

(* mergeProbabilityObjects: the mean, rounded half up; keys that are never *)
(* positive are left out.                                                  *)
MergedDistribution(dists) ==
  LET n == Len(dists)
      sum == [k \in Keys(dists) |-> MapThenSumSet(LAMBDA i : At(dists[i], k), 1..n)]
  IN [k \in {k \in DOMAIN sum : sum[k] > 0} |-> (2 * sum[k] + n) \div (2 * n)]

CanBeKind(g, k) == At(g.kind, k) > 0
Kinds(g) == {k \in DOMAIN g.kind : CanBeKind(g, k)}

(* The larger of two guesses when one has all the kinds of the other, and  *)
(* otherwise the first.                                                    *)
PickBiggerGuess(a, b) ==
  CASE a.isAny -> a
    [] ~a.isAny /\ b.isAny -> b
    [] OTHER -> IF Kinds(a) \subseteq Kinds(b) THEN b ELSE a

(* A distribution that can be sampled (rng.rs).                            *)
Sum(dist) == MapThenSumSet(LAMBDA k : dist[k], DOMAIN dist)
Samplable(dist) == DOMAIN dist # {} /\ Sum(dist) \in One - Slack .. One + Slack

-----------------------------------------------------------------------------
(* Built-ins.                                                              *)

StdClasses ==
  {"Uint8Array", "ArrayBuffer", "RegExp", "Buffer", "SharedArrayBuffer", "Error", "Duplex"}

(* addStd.  Error's argument is Guess.optional(Guess.string()).            *)
MaybeString == [isAny |-> FALSE, kind |-> [k \in {"String", "Undefined"} |-> One \div 2]]
BuiltIn(args, ret, callconv) ==
  [args |-> args, ret |-> ret, callconv |-> callconv, builtin |-> TRUE]
StdArgs == [c \in StdClasses \ {"Buffer"} |->
              CASE c \in {"ArrayBuffer", "SharedArrayBuffer"} -> <<Number>>
                [] c = "Error" -> <<MaybeString>>
                [] OTHER -> <<>>]
BufferFrom == <<"Buffer", "from">>
StdSchema ==
  [id \in {<<c>> : c \in DOMAIN StdArgs} \cup {BufferFrom} |->
     IF id = BufferFrom THEN BuiltIn(<<String>>, ClassGuess(<<"Buffer">>), "Free")
     ELSE BuiltIn(StdArgs[id[1]], ClassGuess(id), "Constructor")]
AddStd(schema) == OrElse(StdSchema, schema)

=============================================================================
