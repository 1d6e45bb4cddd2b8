-------------------------------- MODULE Derive --------------------------------
(***************************************************************************)
(* Schemas from TypeScript declarations (inference/derive.ts).  A          *)
(* declaration file is a record                                            *)
(*                                                                         *)
(*   types   : the type graph, a function from type ids to types, where    *)
(*             `tag' is what the checker's flags and predicates say first  *)
(*             (a type named Symbol is tagged "any")                       *)
(*   exports : the exported symbols; a class symbol has its constructor    *)
(*             signatures, its statics and its members (those of the       *)
(*             implemented interfaces last), any other symbol its type     *)
(*   equals  : the type of the variable of `export =', or NoType           *)
(*                                                                         *)
(* An endpoint's name is the sequence of the parts its dots separate.  The *)
(* checker, which resolves symbols and types, is external.                 *)
(***************************************************************************)
EXTENDS Merging

CONSTANTS
  NoType,          \* no constraint, no `export =' type
  MaxTypeDepth,    \* deeper types are any
  MaxProperties    \* properties of an object beyond this are left out

ASSUME DeriveAssumption == MaxTypeDepth \in Nat /\ MaxProperties \in Nat

None == [none |-> TRUE]      \* null: the type says nothing
OrAny(g) == IF g = None THEN AnyGuess ELSE g
Present(gs) == SelectSeq(gs, LAMBDA g : g # None)

-----------------------------------------------------------------------------
(* Types to guesses.                                                       *)

(* A literal is promoted to its base type, and a union lists a type once.  *)
PromoteType(types, id) == IF types[id].tag = "literal" THEN types[id].base ELSE id
RECURSIVE Deduped(_)
Deduped(s) ==
  IF s = <<>> THEN <<>>
  ELSE <<Head(s)>> \o Deduped(SelectSeq(Tail(s), LAMBDA x : x # Head(s)))

HasCalls(ty) == "calls" \in DOMAIN ty /\ ty.calls # <<>>
Named(ty) == "name" \in DOMAIN ty      \* the type has a symbol
IsFunction(ty) == HasCalls(ty) \/ (Named(ty) /\ ty.name = "Function")

Optionally(x, guess) == IF x.optional THEN OptionalGuess(guess) ELSE guess
UnionOrNone(members) == IF members = <<>> THEN None ELSE UnionGuess(members)
IntersectOrNone(members) == IF members = <<>> THEN None ELSE Intersect(members)

(* toTypeGuess and toTypeGuessInner: the guess of a type below the types   *)
(* being visited, at a depth.                                              *)
RECURSIVE ToTypeGuess(_, _, _, _, _)
ToTypeGuess(types, builtins, visiting, depth, id) ==
  LET ty == types[id]
      \* what stands for the type itself is visited at the same place
      standsFor == IF ty.tag = "parameter" THEN ty.constraint ELSE PromoteType(types, id)
      Inside(x) == ToTypeGuess(types, builtins, visiting \cup {id}, depth + 1, x)
      PropertyGuess(p) == Optionally(p, OrAny(Inside(p.type)))
  IN
  IF id \in visiting \/ depth >= MaxTypeDepth THEN None
  ELSE CASE ty.tag \in {"parameter", "literal"} ->
              IF standsFor = NoType THEN AnyGuess
              ELSE ToTypeGuess(types, builtins, visiting, depth + 1, standsFor)
         [] ty.tag = "any"       -> AnyGuess
         [] ty.tag = "symbol"    -> None
         [] ty.tag = "primitive" -> OfKind(ty.kind)
         [] ty.tag = "nonPrimitive" -> ObjectGuess(NoField)
         [] ty.tag = "union" ->
              LET promoted == [i \in DOMAIN ty.members |-> PromoteType(types, ty.members[i])]
              IN UnionOrNone(Present(Mapped(Deduped(promoted), Inside)))
         [] ty.tag = "intersection" -> IntersectOrNone(Present(Mapped(ty.members, Inside)))
         [] ty.tag = "array" ->
              ArrayGuess(UnionGuess([i \in DOMAIN ty.args |-> OrAny(Inside(ty.args[i]))]))
         [] ty.tag = "class" -> ClassGuess(<<ty.name>>)
         [] ty.tag = "object" /\ ty.name \in builtins -> ClassGuess(<<ty.name>>)
         [] ty.tag = "object" /\ ty.name \notin builtins /\ IsFunction(ty) -> Function
         [] ty.tag = "object" /\ ty.name \notin builtins /\ ~IsFunction(ty) ->
              LET kept == 1 .. (IF Len(ty.props) < MaxProperties THEN Len(ty.props) ELSE MaxProperties)
              IN ObjectGuess([p \in {ty.props[i].name : i \in kept} |->
                                PropertyGuess(ty.props[CHOOSE i \in kept : ty.props[i].name = p])])
         [] OTHER -> None

-----------------------------------------------------------------------------
(* Signatures.                                                             *)

(* A call is awaited, so a promise is what it resolves to.                 *)
UnwrapPromise(types, id) ==
  IF Named(types[id]) /\ types[id].name = "Promise" THEN types[id].of ELSE id

GuessSignature(decl, builtins, sig, callconv) ==
  LET OfType(id) == OrAny(ToTypeGuess(decl.types, builtins, {}, 0, id))
      Parameter(p) == Optionally(p, OfType(p.type))
  IN [args |-> Mapped(sig.params, Parameter),
      ret |-> OfType(UnwrapPromise(decl.types, sig.ret)),
      callconv |-> callconv]

(* The guesses of all overloads of a callable; a method's first argument   *)
(* is its receiver.                                                        *)
Overloads(decl, builtins, sigs, callconv) ==
  Mapped(sigs, LAMBDA sig : GuessSignature(decl, builtins, sig, callconv))
MethodOverloads(class, overloads) ==
  Mapped(overloads, LAMBDA g : [g EXCEPT !.args = <<ClassGuess(class)>> \o @])

Failed == [failed |-> TRUE]
MergeGiven(guesses) ==                     \* mutant: shorter overloads do not count
  LET argc == CHOOSE n \in {Len(guesses[i].args) : i \in DOMAIN guesses} :
                \A i \in DOMAIN guesses : Len(guesses[i].args) <= n
      Given(k) == SelectSeq(guesses, LAMBDA g : k <= Len(g.args))
  IN [args |-> [k \in 1..argc |-> UnionGuess(Mapped(Given(k), LAMBDA g : g.args[k]))],
      ret |-> UnionGuess(Mapped(guesses, LAMBDA g : g.ret)),
      callconv |-> Head(guesses).callconv]

(* mergeFunctionOverloads; without one an assertion fails.                 *)
MergeFunctionOverloads(guesses) ==
  LET argc == CHOOSE n \in {Len(guesses[i].args) : i \in DOMAIN guesses} :
                \A i \in DOMAIN guesses : Len(guesses[i].args) <= n
      ArgOf(k) == Mapped(guesses, LAMBDA g : IF k <= Len(g.args) THEN g.args[k] ELSE Undefined)
  IN IF guesses = <<>> THEN Failed
     ELSE [args |-> [k \in 1..argc |-> UnionGuess(ArgOf(k))],
           ret |-> UnionGuess(Mapped(guesses, LAMBDA g : g.ret)),
           callconv |-> Head(guesses).callconv]

Constructs(class, sig) ==
  IF sig = Failed THEN Failed ELSE [sig EXCEPT !.ret = ClassGuess(class), !.callconv = "Constructor"]

(* The entry of a callable [id, calls, callconv].                          *)
Entry(decl, builtins, callable) ==
  LET id == callable.id
      Merge(overloads) ==
        CASE callable.callconv = "Free" -> MergeFunctionOverloads(overloads)
          [] callable.callconv = "Constructor" -> Constructs(id, MergeFunctionOverloads(overloads))
          [] OTHER -> MergeFunctionOverloads(MethodOverloads(Front(id), overloads))
  IN <<id, Merge(Overloads(decl, builtins, callable.calls, callable.callconv))>>

-----------------------------------------------------------------------------
(* The callables of exports.  The members of a symbol or of a type are     *)
(* properties [name, type].                                                *)

Callable1(id, calls, callconv) == [id |-> id, calls |-> calls, callconv |-> callconv]
Callables(decl, props) ==
  SelectSeq(props, LAMBDA p : IsFunction(decl.types[p.type]) /\ p.name \notin BuiltinMethods)

(* The callables among some properties, the methods of a class or free.    *)
CallablesIn(decl, props, prefix, callconv) ==
  Mapped(props, LAMBDA p : Callable1(Append(prefix, p.name), decl.types[p.type].calls, callconv))

ClassCallables(decl, symbol) ==
  LET class == <<symbol.name>> IN
  <<Callable1(class, symbol.constructs, "Constructor")>>
    \o CallablesIn(decl, Callables(decl, symbol.statics), class, "Free")
    \o CallablesIn(decl, Callables(decl, symbol.members), class, "Method")

(* A callable `export =': a constructor of what it returns, under that     *)
(* type's name, with the members of the type as methods.                   *)
Instance(decl) == decl.types[UnwrapPromise(decl.types, decl.types[decl.equals].calls[1].ret)]
CallableNames(decl) ==
  IF HasCalls(decl.types[decl.equals]) /\ Named(Instance(decl)) THEN {Instance(decl).name} ELSE {}
EqualsCallables(decl) ==
  IF CallableNames(decl) = {} THEN <<>>
  ELSE LET class == <<Instance(decl).name>>
       IN <<Callable1(class, decl.types[decl.equals].calls, "Constructor")>>
            \o CallablesIn(decl, Callables(decl, Instance(decl).props), class, "Method")

(* Those of an exported symbol, a class before a function.                 *)
SymbolCallables(decl, symbol) ==
  CASE symbol.isClass -> ClassCallables(decl, symbol)
    [] ~symbol.isClass /\ IsFunction(decl.types[symbol.type]) ->
         CallablesIn(decl, <<symbol>>, <<>>, "Free")
    [] OTHER -> <<>>

(* Those of a property of `export =', a function before a class.           *)
PropertyCallables(decl, symbol) ==
  CASE IsFunction(decl.types[symbol.type]) ->
         CallablesIn(decl, Callables(decl, <<symbol>>), <<>>, "Free")
    [] symbol.isClass /\ ~IsFunction(decl.types[symbol.type]) -> ClassCallables(decl, symbol)
    [] OTHER -> <<>>

Entries(decl, builtins, callables) ==
  Mapped(callables, LAMBDA c : Entry(decl, builtins, c))

(* The schema once the entries are in it; a later one replaces an earlier. *)
WithEntries(schema, entries) ==
  FoldLeft(LAMBDA acc, e : (e[1] :> e[2]) @@ acc, schema, entries)

=============================================================================
