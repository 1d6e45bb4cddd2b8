------------------------------ MODULE Branches ------------------------------
(***************************************************************************)
(* What the metrics database says about a file (make-metrics-db.ts): the   *)
(* branch arms with the predicates that guard them (branch-extract.ts),    *)
(* the functions (function-extract.ts) and, per function, counts that are  *)
(* kept with a stack of functions (function-stack-analysis.ts).  All of    *)
(* them share one traversal of the tree, and one of them changes it:       *)
(* looking for a throw reverses the statements of a block.                 *)
(***************************************************************************)
EXTENDS Source, SequencesExt

(* getCanonicalFunctionId of the innermost function around a node, itself  *)
(* included; the root stands for TopLevel.                                 *)
FunctionOf(p, n) == Max({m \in Upwards(p, n) : p[m].kind = "Function"} \cup {1})

-----------------------------------------------------------------------------
(* The predicate that a node's parent implies for it, as the outcome of    *)
(* the parent's test.                                                      *)
Guards(p, n) ==
  LET up == p[n].up
      slot == p[n].slot
      kind == p[up].kind
  IN IF kind \in Tested /\ slot \in {"consequent", "body"} THEN {<<up, "yes">>}
     ELSE IF kind \in Tested /\ slot = "alternate" THEN {<<up, "no">>}
     ELSE IF kind = "Logical" /\ slot = "right" THEN {<<up, "yes">>}
     ELSE IF p[n].kind = "Case" THEN {<<up, n>>}
     ELSE IF p[n].kind = "Default" /\ Cardinality(Below(p, up)) > 1 THEN {<<up, n>>}
     ELSE {}

(* Mutant of Predicates: the walk goes on through functions.               *)
PredicatesThroughFunctions(p, n) == UNION {Guards(p, m) : m \in Upwards(p, n) \ {1}}

(* computeBranchPredicates: the walk stops at a function and at the root.  *)
Predicates(p, n) ==
  UNION {Guards(p, m) : m \in {q \in Upwards(p, n) \ {1} :
           \A f \in Upwards(p, n) : p[f].kind = "Function" => f < q}}

HasThrow(p, n) ==
  \/ p[n].kind = "Throw"
  \/ p[n].kind = "Block" /\ \E m \in Below(p, n) : p[m].kind = "Throw"

(* emit: the arm a node is.                                                *)
Arm(p, n, kind, index) ==
  LET at == Offset(p)[n] IN
  [kind |-> kind, index |-> index, node |-> n, from |-> at.from, to |-> at.to, point |-> FALSE,
   fn |-> FunctionOf(p, n), path |-> Predicates(p, n), throws |-> HasThrow(p, n)]

(* emitContinuationAfter: the point where a construct ends, in the scope   *)
(* of the construct's parent.                                              *)
Continuation(p, n, kind, index) ==
  LET to == Offset(p)[n].to IN
  [kind |-> kind, index |-> index, node |-> n, from |-> to, to |-> to, point |-> TRUE,
   fn |-> FunctionOf(p, p[n].up), path |-> Predicates(p, p[n].up), throws |-> HasThrow(p, n)]

(* getCanonicalBranchId, within a file.                                    *)
ArmId(arm) == <<arm.kind, arm.from, arm.to, arm.index>>

-----------------------------------------------------------------------------
(* The part of a construct that is an arm, with its index.                 *)
Part(p, n, slot, kind, index) ==
  SetToSeq({Arm(p, m, kind, index) : m \in At(p, n, {slot})})

(* The visitors of BranchExtractor.                                        *)
ArmsOnEnter(p, n) ==
  CASE p[n].kind \in {"Program", "Function"} -> <<Arm(p, n, "FnEntry", 0)>>
    [] p[n].kind = "If" -> Part(p, n, "consequent", "If", 0) \o Part(p, n, "alternate", "If", 1)
    [] p[n].kind = "Switch" ->
         SetToSeq({Arm(p, m, "Switch", Cardinality(Prev(p, m))) : m \in Below(p, n)})
    [] p[n].kind = "Conditional" ->
         Part(p, n, "consequent", "Conditional", 0) \o Part(p, n, "alternate", "Conditional", 1)
    [] p[n].kind = "Logical" -> Part(p, n, "left", "Logical", 0) \o Part(p, n, "right", "Logical", 1)
    [] p[n].kind \in Loops -> Part(p, n, "body", "Loop", 0)
    [] p[n].kind = "Try" ->
         LET handler == UNION {At(p, m, {"body"}) : m \in At(p, n, {"handler"})}
         IN Part(p, n, "block", "Try", 0)
            \o SetToSeq({Arm(p, m, "Try", 1) : m \in handler})
            \o Part(p, n, "finalizer", "Try", 2)
    [] OTHER -> <<>>

ArmsOnExit(p, n) ==
  CASE p[n].kind = "If" -> <<Continuation(p, n, "If", 2)>>
    [] p[n].kind \in Loops -> <<Continuation(p, n, "Loop", 1)>>
    [] p[n].kind = "Try" -> <<Continuation(p, n, "Try", 3)>>
    [] OTHER -> <<>>

(* hasThrowPath reverses the blocks it looks into.                         *)
Reversed(p, arms) == {arms[i].node : i \in {j \in DOMAIN arms :
                        ~arms[j].point /\ p[arms[j].node].kind = "Block"}}

(* FunctionExtractor.                                                      *)
Scopes == {"Program", "Function"}
Functions(p, n) == IF p[n].kind \in Scopes THEN {n} ELSE {}

-----------------------------------------------------------------------------
(* What a node adds to the counts of the function it is in.  A method call *)
(* on a string also reads a property.                                      *)
Metrics == {"complexity", "propertyAccesses", "stringOperations"}
Weight(kind) ==
  [m \in Metrics |->
     CASE m = "complexity" -> IF kind \in Scopes \cup {"If", "Conditional", "Logical", "Catch", "Case",
                                                       "Optional", "Pattern"} \cup Loops THEN 1 ELSE 0
       [] m = "propertyAccesses" -> IF kind \in {"Member", "Optional", "StringCall"} THEN 1 ELSE 0
       [] m = "stringOperations" -> IF kind \in {"StringCall", "Literal", "Concat"} THEN 1 ELSE 0]

NoCounts(p) == [f \in Kinds(p, Scopes) |-> [m \in Metrics |-> 0]]

(* inc, for the function on top of the stack.                              *)
Count(counts, f, kind) ==
  [counts EXCEPT ![f] = [m \in Metrics |-> @[m] + Weight(kind)[m]]]

(* Mutant of Popped: leaving a nested function keeps it on the stack.      *)
KeptFunctions(p, n, stack) == IF p[n].kind = "Program" THEN Tail(stack) ELSE stack

(* The stack of functions, topmost first: Program and Function push on     *)
(* entry, before anything is counted, and pop on exit.                     *)
Pushed(p, n, stack) == IF p[n].kind \in Scopes THEN <<n>> \o stack ELSE stack
Popped(p, n, stack) == IF p[n].kind \in Scopes THEN Tail(stack) ELSE stack

-----------------------------------------------------------------------------
(* The traversal: children in order, or backwards where it was reversed.   *)
(* A place is a node with TRUE on the way in, FALSE on the way out.        *)
Earlier(p, reversed, a, b) == IF p[a].up \in reversed THEN a > b ELSE a < b
Foremost(p, reversed, S) == CHOOSE a \in S : \A b \in S \ {a} : Earlier(p, reversed, a, b)

Onwards(p, place, reversed) ==
  LET n     == place.node
      parts == Below(p, n)
      later == {m \in Below(p, p[n].up) : Earlier(p, reversed, n, m)}
  IN IF place.entering /\ parts # {} THEN [node |-> Foremost(p, reversed, parts), entering |-> TRUE]
     ELSE IF place.entering THEN [node |-> n, entering |-> FALSE]
     ELSE IF later # {} THEN [node |-> Foremost(p, reversed, later), entering |-> TRUE]
     ELSE [node |-> p[n].up, entering |-> FALSE]

(* The extraction of a file, from its start to the way out of its root.    *)
Untouched(p) ==
  [place |-> [node |-> 1, entering |-> TRUE], stack |-> <<>>, reversed |-> {},
   arms |-> <<>>, functions |-> {}, counts |-> NoCounts(p)]

(* One step of the traversal, with every plugin's visitor.                 *)
Visit(p, x) ==
  LET n == x.place.node
      new == IF x.place.entering THEN ArmsOnEnter(p, n) ELSE ArmsOnExit(p, n)
      stack == IF x.place.entering THEN Pushed(p, n, x.stack) ELSE x.stack
      reversed == x.reversed \cup Reversed(p, new)
  IN [place |-> Onwards(p, x.place, reversed),
      stack |-> IF x.place.entering THEN stack ELSE Popped(p, n, stack),
      reversed |-> reversed,
      arms |-> x.arms \o new,
      functions |-> x.functions \cup (IF x.place.entering THEN Functions(p, n) ELSE {}),
      counts |-> IF x.place.entering THEN Count(x.counts, Head(stack), p[n].kind) ELSE x.counts]

Extracted(x) == x.place.node = 0

=============================================================================
