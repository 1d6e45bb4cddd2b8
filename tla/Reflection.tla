------------------------------ MODULE Reflection ------------------------------
(***************************************************************************)
(* Endpoints from a loaded library (inference/reflection.ts).  The library *)
(* is a function from the ids of its values to records:                    *)
(*                                                                         *)
(*   a function [tag, name, argc, methods, props], `methods' the function  *)
(*   properties of its prototype chain, the most derived first, `props'    *)
(*   its own enumerable properties; an object [tag, props]; anything else. *)
(*                                                                         *)
(* Properties are [name, value].  A state of the mapping is a record       *)
(* [schema, endpoints, failed]; endpoints maps names to value ids.  An     *)
(* endpoint's name is the sequence of the parts its dots separate.         *)
(***************************************************************************)
EXTENDS Guess

CONSTANTS
  MaxMappingDepth,  \* MAX_OBJECT_MAPPING_DEPTH
  Capitalized,      \* names that start with an upper-case letter
  Private           \* names that start with an underscore

ASSUME ReflectionAssumption == MaxMappingDepth \in Nat

Conventions == {"Free", "Method", "Constructor"}
StdNames == DOMAIN StdSchema

(* mapStandardReferences: the endpoint of a built-in is the built-in.      *)
Standard(schema) ==
  [schema |-> AddStd(schema), endpoints |-> [id \in StdNames |-> id], failed |-> FALSE]

IsConstructor(key) == Len(key) = 1 /\ key[1] \in Capitalized

(* What is said of an endpoint the schema says nothing of.                 *)
Anys(n) == [i \in 1..n |-> AnyGuess]
Guessed(args, ret, callconv) == [args |-> args, ret |-> ret, callconv |-> callconv]

(* A function that may become an endpoint: its signature if the schema has *)
(* none, and the conventions it may have in the schema.  Properties that   *)
(* getMethods and getStatics leave out are hidden.                         *)
Item(id, fn, signature, expected, hidden) ==
  [id |-> id, fn |-> fn, signature |-> signature, expected |-> expected, hidden |-> hidden]

IsFn(values, v) == values[v].tag = "function"
Argc(values, v) == IF IsFn(values, v) THEN values[v].argc ELSE 0

Own(values, key, f) ==
  Item(key, f,
       IF IsConstructor(key) THEN Guessed(Anys(Argc(values, f)), ClassGuess(key), "Constructor")
       ELSE Guessed(Anys(Argc(values, f)), AnyGuess, "Free"),
       Conventions, FALSE)
BareMethod(values, key, m) ==              \* mutant: no receiver
  Item(Append(key, m.name), m.value, Guessed(Anys(Argc(values, m.value)), AnyGuess, "Method"),
       {"Method"}, m.name \in BuiltinMethods \cup Private)
Method(values, key, m) ==
  Item(Append(key, m.name), m.value,
       Guessed(<<ClassGuess(key)>> \o Anys(Argc(values, m.value)), AnyGuess, "Method"),
       {"Method"}, m.name \in BuiltinMethods \cup Private)
Static(values, key, p) ==
  Item(Append(key, p.name), p.value, Guessed(Anys(Argc(values, p.value)), AnyGuess, "Free"),
       {"Method", "Free"}, ~IsFn(values, p.value) \/ p.name \in BuiltinMethods)

(* A function with, if it is a constructor, its methods and its statics.   *)
(* One the schema does not have is a constructor by its name.              *)
IsConstr(schema, key) ==
  (key \in DOMAIN schema /\ schema[key].callconv = "Constructor") \/ IsConstructor(key)
Items(values, schema, key, f) ==
  <<Own(values, key, f)>> \o
  (IF IsConstr(schema, key)
   THEN Mapped(values[f].methods, LAMBDA m : Method(values, key, m))
          \o Mapped(values[f].props, LAMBDA p : Static(values, key, p))
   ELSE <<>>)

Filtered(st, opts, id) == id \in opts.skip \/ (opts.onlyKnown /\ id \notin DOMAIN st.schema)

(* An endpoint that is neither hidden nor filtered out, with its signature *)
(* if the schema has none; one the schema has must have an expected        *)
(* convention.                                                             *)
WithEndpoint(st, opts, item) ==
  IF item.hidden \/ Filtered(st, opts, item.id) THEN st
  ELSE [schema |-> OrElse(st.schema, [id \in {item.id} |-> item.signature]),
        endpoints |-> OrElse([id \in {item.id} |-> item.fn], st.endpoints),
        failed |-> \/ st.failed
                   \/ item.id \in DOMAIN st.schema /\ st.schema[item.id].callconv \notin item.expected]

(* mapFunctionReference.                                                   *)
MapFunctionReference(values, st, opts, key, f) ==
  LET items == Items(values, st.schema, key, f)
      mapped[i \in 0..Len(items)] ==
        IF i = 0 THEN st ELSE WithEndpoint(mapped[i - 1], opts, items[i])
  IN IF Filtered(st, opts, key) THEN st ELSE mapped[Len(items)]

(* mapFunctionsOnObject: the functions it finds with their names, in       *)
(* order, on each value and to a depth.                                    *)
Props(values, o) == IF values[o].tag \in {"function", "object"} THEN values[o].props ELSE <<>>
Inside(name, found) == Mapped(found, LAMBDA e : <<<<name>> \o e[1], e[2]>>)
FoundAt(values, below, p) ==
  CASE values[p.value].tag = "function" -> <<<<<<p.name>>, p.value>>>>
    [] values[p.value].tag = "object" -> Inside(p.name, below[p.value])
    [] OTHER -> <<>>
Further(values, below) ==
  [o \in DOMAIN values |-> FlattenSeq(Mapped(Props(values, o), LAMBDA p : FoundAt(values, below, p)))]
FunctionsOn(values) ==
  LET on[n \in 0..MaxMappingDepth] ==
        IF n = 0 THEN [o \in DOMAIN values |-> <<>>] ELSE Further(values, on[n - 1])
  IN on[MaxMappingDepth]

(* mapExportedReferences: the functions to map, a default function first.  *)
Default(values, main) ==
  LET ds == {p \in Range(Props(values, main)) : p.name = "default"}
  IN IF values[main].tag = "object" /\ ds # {} THEN (CHOOSE p \in ds : TRUE).value ELSE main
References(values, main) ==
  LET exports == Default(values, main)
  IN (IF IsFn(values, exports) THEN <<<<<<values[exports].name>>, exports>>>> ELSE <<>>)
       \o FunctionsOn(values)[exports]

KeepInvalid(schema, endpoints) == schema   \* mutant
(* Entries without an endpoint are dropped.                                *)
RemoveInvalidEndpoints(schema, endpoints) ==
  [id \in DOMAIN schema \cap DOMAIN endpoints |-> schema[id]]

=============================================================================
