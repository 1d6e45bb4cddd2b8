------------------------------ MODULE Inference ------------------------------
(***************************************************************************)
(* railcar-infer (inference/cli.ts), once in each mode the library can be  *)
(* analysed in, and those that read what it wrote: the worker and the      *)
(* script that calls endpoints (loadSchema), and the comparison of the     *)
(* modes.  A schema is derived from declarations, from the loaded library  *)
(* or from static analysis of its rewritten text, and joined with the      *)
(* endpoints the library has.                                              *)
(*                                                                         *)
(* A library is a record                                                   *)
(*   [modes, decl, program, fns, static, original, rewritten]              *)
(* of its modes, the inputs of Derive, Transform and Syntest, and what     *)
(* importing it and its rewritten text gives (see Loading).  fns has what  *)
(* the text does not show of its functions.  round is "infer" in           *)
(* railcar-infer and "load" in the worker.  The order in which static      *)
(* inference meets the entries is the library's; here it is any.           *)
(***************************************************************************)
EXTENDS Loading, Derive, Syntest, Transform

VARIABLES
  source,           \* the text static inference analyses, rewritten so far
  entries,          \* entries static inference has still to handle
  builtins,         \* the names that are classes (ctx.builtins)
  memo,             \* the maps of static inference
  rows              \* what the comparison counted, by mode

details == <<source, entries, builtins, memo, rows>>
vars == <<loadingVars, details>>
input == <<lib, mode, skip, files, rows>>

(* What railcar-infer starts with.                                         *)
Callable(m) == m = "decl" /\ lib.decl.equals # NoType
FirstTodo(m) ==
  CASE Callable(m) -> lib.decl.types[lib.decl.equals].props
    [] m = "decl" /\ ~Callable(m) -> lib.decl.exports
    [] m = "syntest" -> NameFunctions(lib.program)
    [] OTHER -> <<>>
FirstBuiltins(m) == StdClasses \cup (IF Callable(m) THEN CallableNames(lib.decl) ELSE {})
FirstSt(m) ==
  [schema |-> IF Callable(m)
              THEN WithEntries(NoField, Entries(lib.decl, FirstBuiltins(m), EqualsCallables(lib.decl)))
              ELSE NoField,
   endpoints |-> NoField, failed |-> FALSE]

Init ==
  /\ lib \in Libraries /\ mode \in lib.modes /\ skip \in SkipLists
  /\ round = "infer" /\ stage = FirstStage(mode) /\ todo = FirstTodo(mode)
  /\ builtins = FirstBuiltins(mode) /\ st = FirstSt(mode)
  /\ source = <<>> /\ entries = {} /\ memo = NoMemo /\ saved = NoField
  /\ files = NoField /\ rows = NoField

(* fromFile: the next export; the process ends on a failed assertion.      *)
Derived(found) ==
  IF \E i \in DOMAIN found : found[i][2] = Failed THEN [st EXCEPT !.failed = TRUE]
  ELSE [st EXCEPT !.schema = WithEntries(@, found)]
DeriveExport ==
  /\ stage = "derive" /\ todo # <<>>
  /\ st' = Derived(Entries(lib.decl, builtins,
                          IF lib.decl.equals = NoType THEN SymbolCallables(lib.decl, Head(todo))
                          ELSE PropertyCallables(lib.decl, Head(todo))))
  /\ stage' = IF st'.failed THEN "failed" ELSE stage
  /\ todo' = Tail(todo)
  /\ UNCHANGED <<input, round, source, entries, builtins, memo, saved>>

DeriveStd ==
  /\ stage = "derive" /\ todo = <<>>
  /\ st' = [st EXCEPT !.schema = AddStd(@)] /\ stage' = "reflect"
  /\ UNCHANGED <<input, round, todo, source, entries, builtins, memo, saved>>

(* transform: each statement is replaced by what it is rewritten to.       *)
TransformStatement ==
  /\ stage = "transform" /\ todo # <<>>
  /\ source' = source \o Rewritten(Head(todo)) /\ todo' = Tail(todo)
  /\ UNCHANGED <<input, round, stage, entries, builtins, st, memo, saved>>

Transformed ==
  /\ stage = "transform" /\ todo = <<>> /\ stage' = "reflect"
  /\ UNCHANGED <<input, round, todo, source, entries, builtins, st, memo, saved>>

(* syntestSchema: the rewritten text cannot be read again.                 *)
NoTree ==
  /\ stage = "transform" /\ todo = <<>> /\ stage' = "validate"
  /\ UNCHANGED <<input, round, todo, source, entries, builtins, st, memo, saved>>

-----------------------------------------------------------------------------
(* The import of a module, whose default export is module.exports.  The    *)
(* ids of its values are their paths; functions have their code, and the   *)
(* methods, statics and length of it that fns has.                         *)
Import(fns, program) ==
  LET outcome == Outcome(program)
      all == outcome.values
      at == {q \in DOMAIN all : Within(Exports, q)}
      Id(q) == <<"default">> \o SubSeq(q, Len(Exports) + 1, Len(q))
      names(q) == {Last(r) : r \in {r \in at \ {Exports} : Front(r) = q}}
      props(q) == FoldSet(LAMBDA k, found : Append(found, [name |-> k, value |-> Id(Append(q, k))]),
                          <<>>, names(q))
      Imported(q) ==
        CASE all[q].tag = "object" -> [tag |-> "object", props |-> props(q)]
          [] all[q].tag = "function" ->
               [fns[<<all[q].code>>] EXCEPT !.name = all[q].name, !.props = @ \o props(q)]
          [] OTHER -> [tag |-> "other"]
      main == <<>> :> [tag |-> "object", props |-> <<[name |-> "default", value |-> Id(Exports)]>>]
  IN [values |-> main @@ [id \in {Id(q) : q \in at} |-> Imported(Exports \o Tail(id))] @@ fns,
      main |-> <<>>, throws |-> outcome.threw]

(* loadSchemaFromObject, as in Loading: of the text itself or of what it   *)
(* was rewritten to.  Static inference goes on with each entry whose text  *)
(* was found.                                                              *)
LoadsLibrary ==
  /\ Image = Import(lib.fns, IF round = "infer" /\ mode = "syntest" THEN source ELSE lib.program)
  /\ LoadLibrary /\ UNCHANGED details
MapsReference == MapReference /\ UNCHANGED details

ElementOf(id) ==
  IF st.endpoints[id] \in DOMAIN lib.rewritten.values
  THEN Identify(lib.static, lib.rewritten.values[st.endpoints[id]].code) ELSE NoId
Found == {id \in DOMAIN Backed : ElementOf(id) # NoId}
FinishesMapping ==
  /\ FinishMapping
  /\ entries' = IF stage' = "static" THEN Found ELSE entries
  /\ UNCHANGED <<source, builtins, memo, rows>>

-----------------------------------------------------------------------------
(* syntestSchema.                                                          *)

InferEntry(id) ==
  /\ stage = "static" /\ id \in entries
  /\ LET r == Infer(lib.static, memo, ElementOf(id), st.schema[id])
     IN st' = [st EXCEPT !.schema[id] = r.out] /\ memo' = r.memo
  /\ entries' = entries \ {id}
  /\ UNCHANGED <<input, round, stage, todo, source, builtins, saved>>

(* The analysis of the text fails: nothing is known, not even of dynamic   *)
(* analysis.                                                               *)
AnalysisFails ==
  /\ stage = "static" /\ memo = NoMemo /\ entries = Found
  /\ st' = [st EXCEPT !.schema = NoField] /\ stage' = "validate" /\ entries' = {}
  /\ UNCHANGED <<input, round, todo, source, builtins, memo, saved>>

FinishStatic ==
  /\ stage = "static" /\ entries = {}
  /\ st' = [st EXCEPT !.schema = WithoutDefaults(@)] /\ stage' = "validate"
  /\ UNCHANGED <<input, round, todo, source, entries, builtins, memo, saved>>

-----------------------------------------------------------------------------
(* validateSchema, and the file the worker reads.  The assertions of       *)
(* validateTypeIsProducible are among those of validateTypeGuess, and what *)
(* it finds out is only printed as a warning, as is a class without a      *)
(* constructor.                                                            *)

RECURSIVE ValidGuess(_)
ValidGuess(g) ==
  /\ At(g.kind, "Object") # 0 =>
       Has(g, "objectShape") /\ \A p \in DOMAIN g.objectShape : ValidGuess(g.objectShape[p])
  /\ At(g.kind, "Array") # 0 => Has(g, "arrayValueType") /\ ValidGuess(g.arrayValueType)
  /\ At(g.kind, "Class") # 0 => Has(g, "classType")

Consistent(schema) ==
  /\ \A id \in DOMAIN schema :
       /\ ValidGuess(schema[id].ret)
       /\ \A k \in DOMAIN schema[id].args : ValidGuess(schema[id].args[k])
  /\ Conventional(schema)

Validate ==
  /\ Write
  /\ stage' = "written" <=> Consistent(st.schema)
  /\ UNCHANGED details

WorkerStarts == WorkerLoads /\ UNCHANGED details

(* railcar-infer again, in a mode it has not been run in.                  *)
NextMode ==
  /\ stage = "loaded"
  /\ \E m \in lib.modes \ DOMAIN files :
       /\ mode' = m /\ stage' = FirstStage(m) /\ todo' = FirstTodo(m)
       /\ builtins' = FirstBuiltins(m) /\ st' = FirstSt(m)
  /\ round' = "infer" /\ source' = <<>> /\ entries' = {} /\ memo' = NoMemo /\ saved' = NoField
  /\ UNCHANGED <<lib, skip, files, rows>>

(* analyze, of both scripts: the schemas are counted.  The first stops at  *)
(* an assertion that fails.                                                *)
AnalyzeSurface ==
  /\ stage = "loaded" /\ rows = NoField /\ {"decl", "dynamic", "syntest"} \subseteq DOMAIN files
  /\ rows' = [analyzed |-> Analyze(files["dynamic"], files["syntest"], files["decl"], StdNames),
              sizes |-> [m \in DOMAIN files |->
                           [apis |-> AnalyzeApiSize(files[m], StdNames),
                            higherOrder |-> AnalyzeHigherOrderFunctions(files[m])]]]
  /\ UNCHANGED <<lib, mode, skip, files, round, stage, todo, source, entries, builtins, st, memo, saved>>

Over ==
  /\ stage = "failed" \/ (stage = "loaded" /\ lib.modes = DOMAIN files)
  /\ UNCHANGED vars

Next ==
  \/ DeriveExport
  \/ DeriveStd
  \/ TransformStatement
  \/ Transformed
  \/ NoTree
  \/ LoadsLibrary
  \/ MapsReference
  \/ FinishesMapping
  \/ \E id \in entries : InferEntry(id)
  \/ AnalysisFails
  \/ FinishStatic
  \/ Validate
  \/ WorkerStarts
  \/ NextMode
  \/ AnalyzeSurface
  \/ Over

Spec == Init /\ [][Next]_vars

-----------------------------------------------------------------------------
(* Properties.                                                             *)

(* The pieces have their types, and every guess of every signature is one  *)
(* the fuzzer can read and sample without failing an assertion: a kind has *)
(* its part and the distributions sum to about one (schema.rs, rng.rs).    *)
(* The assertions of validateSchema and of the script that calls endpoints *)
(* without the fuzzer (standalone.ts:125-159) are weaker.                  *)
TypeOK ==
  /\ lib \in Libraries /\ mode \in lib.modes /\ skip \in SkipLists
  /\ round \in {"infer", "load"}
  /\ stage \in {"derive", "transform", "reflect", "map", "static", "validate", "written", "loaded", "failed"}
  /\ \A id \in DOMAIN st.schema :
       LET sig == st.schema[id]
       IN /\ sig.callconv \in {"Free", "Method", "Constructor"}
          /\ Usable(sig.ret) /\ \A k \in DOMAIN sig.args : Usable(sig.args[k])

(* A call that some overload of a declared callable accepts is one its     *)
(* merged entry can make: the types of the overload's arguments, with      *)
(* undefined for those it does not have, are assignable to the entry's,    *)
(* every constant they can be is one the entry can draw, and what the      *)
(* overload returns is assignable to what the entry says it returns.       *)
Fits(overload, sig) ==
  /\ \A k \in DOMAIN sig.args :
       LET a == IF k <= Len(overload.args) THEN overload.args[k] ELSE Undefined
       IN /\ AssignableTo(a, sig.args[k])
          /\ IsConstAble(a) => ConstTypes(a) \subseteq ConstTypes(sig.args[k])
  /\ AssignableTo(overload.ret, sig.ret)

Declares(decl, symbol, id) ==   \* what the symbol declares under the name
  LET Of(p, callconv) == [calls |-> decl.types[p.type].calls, callconv |-> callconv]
      OfName(props) == {p \in Range(Callables(decl, props)) : p.name = Last(id)}
      methods == {Of(p, "Method") : p \in OfName(symbol.members)}
      statics == {Of(p, "Free") : p \in OfName(symbol.statics)}
  IN CASE ~symbol.isClass -> IF id = <<symbol.name>> THEN {Of(symbol, "Free")} ELSE {}
       [] symbol.isClass /\ id = <<symbol.name>> ->
            {[calls |-> symbol.constructs, callconv |-> "Constructor"]}
       [] symbol.isClass /\ Len(id) = 2 /\ id[1] = symbol.name ->
            IF methods # {} THEN methods ELSE statics
       [] OTHER -> {}

Completed(id, overload) ==   \* with its receiver, or what it makes
  CASE overload.callconv = "Method" -> [overload EXCEPT !.args = <<ClassGuess(Front(id))>> \o @]
    [] overload.callconv = "Constructor" -> [overload EXCEPT !.ret = ClassGuess(id)]
    [] OTHER -> overload

OverloadsFit ==
  (mode = "decl" /\ lib.decl.equals = NoType /\ stage = "reflect" /\ round = "infer") =>
    \A id \in DOMAIN st.schema \ StdNames : \A symbol \in Range(lib.decl.exports) :
      \A d \in Declares(lib.decl, symbol, id) :
        \A o \in Range(Overloads(lib.decl, builtins, d.calls, d.callconv)) :
          Fits(Completed(id, o), st.schema[id])

(* Where the elements an endpoint is made of are all there and none        *)
(* contains itself, what static inference says of it does not depend on    *)
(* the entries met before: the memo answers what a new one would.          *)
MemoIsFresh ==
  (stage = "static" /\ lib.static.simple) =>
    \A id \in DOMAIN st.schema \ entries :
      st.schema[id] = Infer(lib.static, NoMemo, ElementOf(id), saved[id]).out

(* What reflection.ts:196-199 says of a static that shares its name with a *)
(* method: the method is kept.  An entry with the method convention has    *)
(* the class's method as its endpoint, not the static.                     *)
MethodIsKept ==
  stage = "loaded" =>
    \A id \in DOMAIN st.schema \ StdNames :
      (st.schema[id].callconv = "Method" /\ Front(id) \in DOMAIN st.endpoints) =>
        LET own == SelectSeq(lib.original.values[st.endpoints[Front(id)]].methods, LAMBDA m : m.name = Last(id))
        IN own # <<>> /\ Head(own).value = st.endpoints[id]

(* The rewriting of the library changes no value its program leaves behind *)
(* under a name it had, but for the names of functions, and makes it throw *)
(* no exception: the rewritten file is loaded and analysed in its place.   *)
(* What it takes for granted is that                                       *)
(*   - a pattern is that of a constant, alone in its declaration, binds    *)
(*     names to properties with plain keys, and does not read them;        *)
(*   - an object has no keys in brackets, and one with others than plain   *)
(*     properties is declared, has the others first, and is in no other;   *)
(*   - an object that is assigned does not read what it is assigned to;    *)
(*   - an anonymous function that is assigned to a property is no arrow    *)
(*     and no generator.                                                   *)
Apart(path, expr) == \A q \in Reads(expr) : ~Within(path, q) /\ ~Within(q, path)

RECURSIVE AllPlain(_)
AllPlain(expr) ==
  expr.tag = "object" => \A p \in Range(expr.props) : p.form = "plain" /\ AllPlain(p.value)
OthersFirst(object) ==
  LET props == object.props
  IN /\ \A p \in Range(props) : p.form # "computed" /\ AllPlain(p.value)
     /\ \A i, j \in DOMAIN props : (i < j /\ props[i].form = "plain") => props[j].form = "plain"

Rewritable(stmt) ==
  CASE stmt.tag = "declare" ->
         \A d \in Range(stmt.decls) :
           /\ d.pattern # <<>> =>
                /\ Len(stmt.decls) = 1 /\ stmt.kind = "const"
                /\ \A p \in Range(d.pattern) :
                     p.form = "plain" /\ p.binds = "name" /\ Apart(<<p.alias>>, d.init)
           /\ d.init.tag = "object" => OthersFirst(d.init)
    [] stmt.tag = "assign" ->
         /\ stmt.right.tag = "object" => AllPlain(stmt.right) /\ Apart(stmt.left, stmt.right)
         /\ IsNamed(stmt.right) \/ Len(stmt.left) = 1 \/ stmt.right.form = "function"
    [] OTHER -> TRUE

Nameless(value) == IF value.tag = "function" THEN [value EXCEPT !.name = ""] ELSE value
TransformKeeps ==
  (stage = "transform" /\ todo = <<>> /\ \A stmt \in Range(lib.program) : Rewritable(stmt)) =>
    LET before == Outcome(lib.program).values  after == Outcome(source)
    IN /\ ~after.threw
       /\ \A path \in DOMAIN before :
            path \in DOMAIN after.values /\ Nameless(after.values[path]) = Nameless(before[path])

(* What the comparison of the modes counts (analyze-api-surface.ts:72-114) *)
(* lets it go on where all modes have found the same APIs, and where they  *)
(* have not only the totals stop it (87-88): there is no API dynamic       *)
(* analysis knows anything of, and none of which another mode can know     *)
(* less.  The two scripts agree on the number of APIs; no signature is     *)
(* higher-order and unknown at once, and no built-in, which only one of    *)
(* them leaves out, is higher-order.                                       *)
SurfacesCompare ==
  EndpointsCompare /\
  (rows # NoField =>
    /\ (\A m \in DOMAIN files : DOMAIN files[m] \ StdNames = DOMAIN files["dynamic"] \ StdNames)
         => rows.analyzed.stopped = 0
    /\ rows.analyzed.stopped \in 0..2
    /\ \A m \in DOMAIN files :
         LET found == rows.analyzed.apis[m]  sizes == rows.sizes[m]
         IN sizes.apis = found.total /\ sizes.higherOrder + found.any <= sizes.apis)

=============================================================================
