------------------------------- MODULE Merging -------------------------------
(***************************************************************************)
(* Guesses merged (inference/common.ts) and what the fuzzer reads in them  *)
(* (fuzzer/src/schema.rs, rng.rs), by recursion over guesses.              *)
(***************************************************************************)
EXTENDS Guess

(* A property that only some shapes have is undefined in the others.       *)
RECURSIVE UnionGuess(_)
UnionGuess(gs) ==
  IF \/ gs = <<>>
     \/ \E i \in DOMAIN gs : gs[i].isAny
  THEN AnyGuess
  ELSE LET res == [isAny |-> FALSE, kind |-> MergedDistribution(Parts(gs, "kind"))]
           shapes == Parts(gs, "objectShape")
           OrUndefined(p) == [i \in DOMAIN shapes |->
                                IF p \in DOMAIN shapes[i] THEN shapes[i][p] ELSE Undefined]
       IN res
          @@ (IF CanBeKind(res, "Class")
              THEN [classType |-> MergedDistribution(Parts(gs, "classType"))] ELSE NoField)
          @@ (IF CanBeKind(res, "Array")
              THEN [arrayValueType |-> UnionGuess(Parts(gs, "arrayValueType"))] ELSE NoField)
          @@ (IF CanBeKind(res, "Object")
              THEN [objectShape |-> [p \in Keys(shapes) |-> UnionGuess(OrUndefined(p))]]
              ELSE NoField)

OptionalGuess(g) == UnionGuess(<<g, Undefined>>)

(* Guesses that can be anything say nothing; those that are certainly      *)
(* objects add their properties up; without one the members are merged.    *)
Intersect(gs) ==
  LET noAny == SelectSeq(gs, LAMBDA g : ~g.isAny)
      objects == SelectSeq(noAny, LAMBDA g : Has(g, "objectShape") /\ At(g.kind, "Object") = One)
      shapes == Parts(objects, "objectShape")
      Both(acc, shape) ==
        [p \in DOMAIN acc \cup DOMAIN shape |->
           CASE p \notin DOMAIN acc -> shape[p]
             [] p \notin DOMAIN shape -> acc[p]
             [] OTHER -> PickBiggerGuess(acc[p], shape[p])]
  IN CASE noAny = <<>> -> AnyGuess
       [] noAny # <<>> /\ objects = <<>> -> UnionGuess(noAny)
       [] OTHER -> ObjectGuess(FoldLeft(Both, Head(shapes), Tail(shapes)))

-----------------------------------------------------------------------------
(* The fuzzer's reading of a guess.                                        *)

(* TypeGuess::assignable_to.  An optional property is not compared.        *)
RECURSIVE AssignableTo(_, _)
AssignableTo(a, b) ==
  \/ b.isAny
  \/ /\ ~a.isAny
     /\ DOMAIN a.kind \subseteq DOMAIN b.kind
     /\ "Object" \in DOMAIN a.kind =>
          \A p \in DOMAIN b.objectShape :
             \/ "Undefined" \in DOMAIN b.objectShape[p].kind
             \/ p \in DOMAIN a.objectShape /\ AssignableTo(a.objectShape[p], b.objectShape[p])
     /\ "Class" \in DOMAIN a.kind => DOMAIN a.classType \subseteq DOMAIN b.classType
     /\ "Array" \in DOMAIN a.kind => AssignableTo(a.arrayValueType, b.arrayValueType)

IsOnlyClass(g) == DOMAIN g.kind = {"Class"}

(* A constant of the guess can be made in place.                           *)
RECURSIVE IsConstAble(_)
IsConstAble(g) ==
  \/ g.isAny
  \/ /\ ~IsOnlyClass(g)
     /\ "Object" \in DOMAIN g.kind =>
          \A p \in DOMAIN g.objectShape : IsConstAble(g.objectShape[p])
     /\ "Array" \in DOMAIN g.kind => IsConstAble(g.arrayValueType)

(* The types sample_const_type may draw.  Classes are stripped, an object  *)
(* draws each of its properties; one that is drawn undefined is dropped,   *)
(* as an absent property reads the same.  A type is a kind with its parts. *)
Plain(k) == [kind |-> k]
AnyTypes == {Plain(k) : k \in {"Number", "String", "Boolean", "Undefined", "Null", "Function"}}
              \cup {[kind |-> "Object", props |-> NoField], [kind |-> "Array", of |-> Plain("Number")]}

RECURSIVE ConstTypes(_)
ConstTypes(g) ==
  IF g.isAny THEN AnyTypes
  ELSE IF IsOnlyClass(g) THEN {[kind |-> "Object", props |-> NoField]}
  ELSE UNION {
    CASE k = "Object" ->
           LET Draw(p, acc) == {IF t = Plain("Undefined") THEN f ELSE f @@ (p :> t) :
                                  f \in acc, t \in ConstTypes(g.objectShape[p])}
           IN {[kind |-> "Object", props |-> f] :
                 f \in FoldSet(Draw, {NoField}, DOMAIN g.objectShape)}
      [] k = "Array" -> {[kind |-> "Array", of |-> t] : t \in ConstTypes(g.arrayValueType)}
      [] OTHER -> {Plain(k)} : k \in DOMAIN g.kind \ {"Class"}}

(* What the assertions of schema.rs and the sampling of rng.rs require of  *)
(* a guess: a kind has its part, and a distribution is not empty and sums  *)
(* to about one.                                                           *)
RECURSIVE Usable(_)
Usable(g) ==
  \/ g.isAny
  \/ /\ Samplable(g.kind)
     /\ "Object" \in DOMAIN g.kind =>
          Has(g, "objectShape") /\ \A p \in DOMAIN g.objectShape : Usable(g.objectShape[p])
     /\ "Class" \in DOMAIN g.kind => Has(g, "classType") /\ Samplable(g.classType)
     /\ "Array" \in DOMAIN g.kind => Has(g, "arrayValueType") /\ Usable(g.arrayValueType)

=============================================================================
