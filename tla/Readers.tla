------------------------------- MODULE Readers -------------------------------
(***************************************************************************)
(* Those who read the schemas besides the fuzzer: the counts of APIs of    *)
(* which nothing is known (analyze-api-surface.ts, scripts/common.ts) and  *)
(* the sizes and higher-order functions of the libraries                   *)
(* (analyze-libraries.ts).                                                 *)
(***************************************************************************)
EXTENDS Guess

AllAny(guesses) == \A i \in DOMAIN guesses : guesses[i].isAny

KnownByReturn(sig) == sig.ret.isAny /\ AllAny(sig.args)   \* mutant: of every convention
(* isNoInfoSignature, of a signature that is not of a built-in.            *)
IsNoInfoSignature(sig) ==
  CASE sig.callconv = "Free" -> sig.ret.isAny /\ AllAny(sig.args)
    [] sig.callconv = "Constructor" -> AllAny(sig.args)
    [] OTHER -> sig.ret.isAny /\ AllAny(Tail(sig.args))

(* countNoInfoSignatures and countAny.                                     *)
CountNoInfoSignatures(schema, builtin) ==
  [total |-> Cardinality(DOMAIN schema \ builtin),
   any |-> Cardinality({id \in DOMAIN schema \ builtin : IsNoInfoSignature(schema[id])})]
CountAny(schema) ==
  LET types(id) == <<schema[id].ret>> \o schema[id].args
      anys(id) == SelectSeq(types(id), LAMBDA g : g.isAny)
  IN [total |-> MapThenSumSet(LAMBDA id : Len(types(id)), DOMAIN schema),
      any |-> MapThenSumSet(LAMBDA id : Len(anys(id)), DOMAIN schema)]

(* analyze: its assertions in their order, and the number of the first     *)
(* that fails, 0 if none does; the types are counted after them.           *)
Analyze(dynamic, syntest, decl, builtin) ==
  LET apis == [dynamic |-> CountNoInfoSignatures(dynamic, builtin),
               syntest |-> CountNoInfoSignatures(syntest, builtin),
               decl |-> CountNoInfoSignatures(decl, builtin)]
      total == apis.dynamic.total
      asserted == <<apis.decl.total = apis.syntest.total, apis.decl.total = total,
                    total = apis.dynamic.any, total >= apis.syntest.any, total >= apis.decl.any>>
      failed == {i \in DOMAIN asserted : ~asserted[i]}
  IN [apis |-> apis, stopped |-> IF failed = {} THEN 0 ELSE Min(failed),
      types |-> IF failed = {} THEN <<CountAny(dynamic), CountAny(syntest), CountAny(decl)>> ELSE <<>>]

(* analyzeHigherOrderFunctions, which counts the built-ins' signatures too *)
(* (analyze-libraries.ts).                                                 *)
IsHigherOrder(sig) ==
  \E g \in Range(sig.args) \cup {sig.ret} : At(g.kind, "Function") # 0
AnalyzeHigherOrderFunctions(schema) ==
  Cardinality({id \in DOMAIN schema : IsHigherOrder(schema[id])})
AnalyzeApiSize(schema, builtin) == Cardinality(DOMAIN schema \ builtin)

=============================================================================
