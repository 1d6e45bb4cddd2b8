------------------------------- MODULE Syntest -------------------------------
(***************************************************************************)
(* Schemas from static type inference (inference/syntest-infer.ts).  The   *)
(* type model of the analysis, a library, is external: a record            *)
(*                                                                         *)
(*   nodes    : from element ids to [probs, props, params, rets]: the      *)
(*              types an element may have, as a sequence of                *)
(*              [base, object, p], the properties of its object type as    *)
(*              [name, id], and for a function the ids of its parameters   *)
(*              and of its returned values                                 *)
(*   plain    : the ids idReduction accepts; any other names no element    *)
(*   source   : the functions of the rewritten file, as [text, id], in the *)
(*              order of the file                                          *)
(*   text     : the text of each loaded function                           *)
(*   involved : the ids an endpoint's relation involves                    *)
(*                                                                         *)
(* A type whose base is "object" names the element with its properties, or *)
(* NoId where it is the element itself.  Asking for a missing node throws. *)
(*                                                                         *)
(* The three maps of the code are a memo [ids, shapes, seen]; operators    *)
(* return it with their result: [out, memo, threw].                        *)
(***************************************************************************)
EXTENDS Guess

CONSTANT NoId

(* The element of an endpoint: the first whose text is the endpoint's.     *)
Identify(lib, fn) ==
  LET same == SelectSeq(lib.source, LAMBDA f : fn \in DOMAIN lib.text /\ f.text = lib.text[fn])
  IN IF same = <<>> THEN NoId ELSE Head(same).id

KindOf == [numeric |-> "Number", integer |-> "Number", string |-> "String",
           boolean |-> "Boolean", null |-> "Null", undefined |-> "Undefined",
           array |-> "Array", object |-> "Object", function |-> "Function"]

NoMemo == [ids |-> NoField, shapes |-> NoField, seen |-> {}]

Answer(out, memo) == [out |-> out, memo |-> memo, threw |-> FALSE]
Throw(memo) == [out |-> NoField, memo |-> memo, threw |-> TRUE]

Share(p, total) == (2 * p * One + total) \div (2 * total)
Normalized(kind) == IF Sum(kind) = 0 THEN kind ELSE [k \in DOMAIN kind |-> Share(kind[k], Sum(kind))]
Added(dists) == [k \in Keys(dists) |-> MapThenSumSet(LAMBDA i : At(dists[i], k), DOMAIN dists)]

(* mergeObjectShapes: the first guess of a property, with the kinds of all *)
(* of them; with more than one the elements are those of the last, and the *)
(* nested shapes, which have no length, stay those of the first.           *)
MergeObjectShapes(shapes) ==
  LET Of(p) == Parts(shapes, p)
      Elements(g) == IF Has(g, "arrayValueType") THEN g.arrayValueType ELSE AnyGuess
      FirstOf(p) == [Of(p)[1] EXCEPT !.kind = Normalized(Added(Parts(Of(p), "kind")))]
  IN [p \in Keys(shapes) |->
        IF Len(Of(p)) = 1 THEN FirstOf(p)
        ELSE [arrayValueType |-> Elements(Last(Of(p)))] @@ FirstOf(p)]

RemoveFields0(kind) == [k \in {k \in DOMAIN kind : kind[k] # 0} |-> kind[k]]

(* objIdMap.set.                                                           *)
Forget(memo, id, shape) == memo            \* mutant: the shape is not remembered
RememberShape(memo, id, shape) == [memo EXCEPT !.shapes = (id :> shape) @@ @]

(* getObjectSchema and getSchemaFromId.  An object that is being expanded  *)
(* is the empty shape; a guess is remembered once it is complete.          *)
RECURSIVE GetObjectSchema(_, _, _), GetSchemaFromId(_, _, _)

WithProperty(acc, name, r) ==
  [out |-> (name :> r.out) @@ acc.out, memo |-> r.memo, threw |-> r.threw]
Remembered(r, id) == IF r.threw THEN r ELSE Answer(r.out, RememberShape(r.memo, id, r.out))

GetObjectSchema(lib, memo, id) ==
  LET Property(acc, p) ==
        IF acc.threw THEN acc ELSE WithProperty(acc, p.name, GetSchemaFromId(lib, acc.memo, p.id))
      marked == [memo EXCEPT !.seen = @ \cup {id}]
  IN CASE id \in DOMAIN memo.shapes -> Answer(memo.shapes[id], memo)
       [] id \notin DOMAIN memo.shapes /\ id \in memo.seen -> Answer(NoField, memo)
       [] OTHER -> IF id \notin DOMAIN lib.nodes THEN Throw(marked)
                   ELSE Remembered(FoldLeft(Property, Answer(NoField, marked), lib.nodes[id].props), id)

(* The objects an element may be: those its types name in their order, the *)
(* element itself last.                                                    *)
Objects(probs, id) ==
  LET named == SelectSeq(probs, LAMBDA t : t.base = "object" /\ t.object # NoId)
      itself == IF \E i \in DOMAIN probs : probs[i].base = "object" /\ probs[i].object = NoId
                THEN <<id>> ELSE <<>>
  IN [i \in DOMAIN named |-> named[i].object] \o itself

(* The guess of an element with these types and shapes.                    *)
GuessOf(probs, shapes) ==
  LET OfKindP(k) == MapThenSumSet(LAMBDA i : IF KindOf[probs[i].base] = k THEN probs[i].p ELSE 0,
                                  DOMAIN probs)
      kinds == {KindOf[probs[i].base] : i \in DOMAIN probs}
  IN [isAny |-> probs = <<>>, kind |-> RemoveFields0([k \in kinds |-> OfKindP(k)]),
      objectShape |-> MergeObjectShapes(shapes)]
     @@ (IF \E i \in DOMAIN probs : probs[i].base = "array"
         THEN [arrayValueType |-> AnyGuess] ELSE NoField)

WithShape(acc, r) == [out |-> Append(acc.out, r.out), memo |-> r.memo, threw |-> r.threw]
RememberGuess(memo, id, guess) == Answer(guess, [memo EXCEPT !.ids = (id :> guess) @@ @])
Guessed1(r, id, probs) ==
  IF r.threw THEN r ELSE RememberGuess(r.memo, id, GuessOf(probs, r.out))

GetSchemaFromId(lib, memo, id) ==
  LET Expand(acc, o) == IF acc.threw THEN acc ELSE WithShape(acc, GetObjectSchema(lib, acc.memo, o))
  IN CASE id \notin lib.plain -> Answer(AnyGuess, memo)
       [] id \in lib.plain /\ id \in DOMAIN memo.ids -> Answer(memo.ids[id], memo)
       [] OTHER -> IF id \notin DOMAIN lib.nodes THEN Throw(memo)
                   ELSE Guessed1(FoldLeft(Expand, Answer(<<>>, memo), Objects(lib.nodes[id].probs, id)),
                                 id, lib.nodes[id].probs)

(* getSchemaFromIds: an id that throws is skipped, what it left behind in  *)
(* the maps is not.                                                        *)
Unthrown(acc, r) == Answer(IF r.threw THEN acc.out ELSE Append(acc.out, r.out), r.memo)
GetSchemaFromIds(lib, memo, ids) ==
  LET Step(acc, id) == Unthrown(acc, GetSchemaFromId(lib, acc.memo, id))
  IN FoldLeft(Step, Answer(<<>>, memo), ids)

(* mergeRet: a member that can be anything adds nothing.                   *)
MergeRet(rets) ==
  LET kind == Normalized(Added(Parts(rets, "kind")))
  IN IF Len(rets) = 1 THEN Head(rets)
     ELSE [isAny |-> kind = NoField, kind |-> kind,
           objectShape |-> MergeObjectShapes(SelectSeq(Parts(rets, "objectShape"),
                                                       LAMBDA s : s # NoField)),
           arrayValueType |-> AnyGuess]

(* The signature of an endpoint, from the element its text was found at:   *)
(* of a free function all of it, otherwise the arguments after the first.  *)
WithArgs(sig, ret, args) ==
  Answer([sig EXCEPT !.args = args.out, !.ret = ret @@ [objectShape |-> NoField]], args.memo)
FreeSignature(lib, sig, rets, params) ==
  WithArgs(sig, IF rets.out = <<>> THEN AnyGuess ELSE MergeRet(rets.out),
           GetSchemaFromIds(lib, rets.memo, params))
WithoutReceiver(sig, rest) == Answer([sig EXCEPT !.args = rest.out], rest.memo)   \* mutant
WithRest(sig, rest) ==
  Answer([sig EXCEPT !.args = IF @ = <<>> THEN <<ArrayGuess(AnyGuess)>> ELSE <<Head(@)>> \o rest.out],
         rest.memo)

Infer(lib, memo, id, sig) ==
  LET involved == IF id \in DOMAIN lib.involved THEN lib.involved[id] ELSE <<>>
  IN CASE id = NoId -> Answer(sig, memo)
       [] sig.callconv = "Free" ->
            IF id \notin DOMAIN lib.nodes THEN Answer(sig, memo)
            ELSE FreeSignature(lib, sig, GetSchemaFromIds(lib, memo, lib.nodes[id].rets),
                               lib.nodes[id].params)
       [] OTHER -> WithRest(sig, GetSchemaFromIds(lib, memo, IF involved = <<>> THEN <<>> ELSE Tail(involved)))

WithoutDefaults(schema) ==
  [id \in {id \in DOMAIN schema : ~(Len(id) > 1 /\ id[1] = "default")} |-> schema[id]]

=============================================================================
