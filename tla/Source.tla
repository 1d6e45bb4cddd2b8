------------------------------- MODULE Source -------------------------------
(***************************************************************************)
(* The JavaScript that the coverage tools work on: a file is its syntax    *)
(* tree, a sequence of nodes in the order of the text, each with its kind, *)
(* its parent (0 for the root) and its slot in the parent.  Statements of  *)
(* a list and cases of a switch have the slot "list".                      *)
(*                                                                         *)
(* Everything here stands for Babel's parser and for the language, not for *)
(* code of the repository.                                                 *)
(***************************************************************************)
EXTENDS Integers, Sequences, FiniteSets, FiniteSetsExt

Node(kind, up, slot) == [kind |-> kind, up |-> up, slot |-> slot]

Kinds(p, kinds) == {n \in DOMAIN p : p[n].kind \in kinds}
Below(p, n) == {m \in DOMAIN p : p[m].up = n}
At(p, n, slots) == {m \in Below(p, n) : p[m].slot \in slots}
Only(S) == CHOOSE n \in S : TRUE
Prev(p, n) == {m \in Below(p, p[n].up) : m < n}
Next1(p, n) == {m \in Below(p, p[n].up) : m > n}

Lists == {"Program", "Block", "Case", "Default"}
Loops == {"While", "ForOf"}
Tested == {"If", "Conditional", "While"}

(* A tree has one root, the program, and parents come before their parts.  *)
Tree(p) ==
  /\ p \in Seq([kind : STRING, up : Nat, slot : STRING]) /\ p # <<>>
  /\ p[1].kind = "Program" /\ p[1].up = 0
  /\ \A n \in 2..Len(p) : p[n].up \in 1..(n - 1)

(* What the grammar says of the parts that are looked up by their slots.   *)
Grammar(p) ==
  /\ \A n \in 2..Len(p) :
       LET kind == p[p[n].up].kind IN
       /\ p[n].kind # "Program"
       /\ p[n].kind \in {"Case", "Default"} <=> kind = "Switch"
       /\ p[n].slot = "list" <=> kind \in Lists \cup {"Switch"}
       /\ p[n].slot \in {"left", "right"} <=> kind = "Logical"
       /\ p[n].slot \in {"consequent", "alternate"} => kind \in {"If", "Conditional"}
       /\ p[n].slot = "handler" <=> p[n].kind = "Catch"
       /\ p[n].slot \in {"block", "handler", "finalizer"} <=> kind = "Try"
       /\ kind = "Catch" => p[n].slot = "body"
       /\ p[n].slot = "left" => p[n].kind \notin {"Function", "Try"}  \* no function operands here
  /\ \A n \in DOMAIN p :
       /\ p[n].kind \in {"Function", "Catch"} => At(p, n, {"body"}) # {}
       /\ p[n].kind = "Logical" => \E m \in DOMAIN p : At(p, n, {"left"}) = {m}

(* The nodes from n up to the root.                                        *)
Upwards(p, n) ==
  LET up[m \in 0..Len(p)] == IF m = 0 THEN {} ELSE {m} \cup up[p[m].up] IN up[n]

(* The parts that control goes through; the nodes are in the order of the  *)
(* text, statements stand in lists, as branches and as bodies.  Returned   *)
(* values, defaults of parameters and what a loop runs over are left out.  *)
Slots(kind) ==
  CASE kind \in Lists \cup {"Switch"} -> {"list"}
    [] kind \in {"If", "Conditional"} -> {"test", "consequent", "alternate"}
    [] kind = "Logical" -> {"left", "right"}
    [] kind = "While" -> {"test", "body"}
    [] kind \in {"ForOf", "Catch"} -> {"body"}
    [] kind = "Try" -> {"block", "handler", "finalizer"}
    [] kind = "Function" -> {"param", "body"}
    [] kind \in {"Return", "Throw", "Break"} -> {}
    [] OTHER -> {"expr"}
Place(slot) ==
  CASE slot \in {"test", "left", "block", "expr"} -> 1
    [] slot \in {"consequent", "right", "handler", "body"} -> 2
    [] slot \in {"alternate", "finalizer"} -> 3
    [] OTHER -> 0
Shape(p) ==
  /\ \A n \in 2..Len(p) :
       LET up == p[n].up kind == p[up].kind IN
       /\ up \in Upwards(p, n - 1) /\ p[n].slot \in Slots(kind)
       /\ \A m \in Next1(p, n) : Place(p[n].slot) < Place(p[m].slot) \/ Place(p[n].slot) = 0
       /\ p[n].slot = "param" => Below(p, n) = {}
       /\ p[n].kind \in {"If", "Switch", "Try", "Return", "Throw", "Break"} \cup Loops =>
            kind \in Lists \cup {"If"} \cup Loops /\ p[n].slot # "test"
       /\ p[n].kind = "Block" =>
            kind \in Lists \cup {"If", "Try", "Catch", "Function"} \cup Loops /\ p[n].slot \notin {"test", "param"}
       /\ kind \in Loops => p[n].kind # "Function" \/ p[n].slot # "body"
       /\ kind \in {"Try", "Catch"} => p[n].kind \in {"Block", "Catch"}
  /\ \A n \in DOMAIN p :
       /\ p[n].kind \in {"If", "Conditional"} => At(p, n, {"consequent"}) # {}
       /\ p[n].kind = "Logical" => At(p, n, {"right"}) # {}
       /\ p[n].kind \in Loops => At(p, n, {"body"}) # {}
       /\ p[n].kind = "Try" => At(p, n, {"block"}) # {} /\ At(p, n, {"handler", "finalizer"}) # {}

(* Where a node begins and ends: constructs end with their last part,      *)
(* blocks, switches and statements with a token of their own, and there    *)
(* is a space before every node but a left operand.  Only the order of     *)
(* these places matters: every node has as many as there are nodes, and    *)
(* one more.                                                               *)
EndsItself == {"Program", "Block", "Switch", "Expr"}
LastIn(p, n) == Max({m \in DOMAIN p : n \in Upwards(p, m)})
Begins(p, n) == Min({m \in Upwards(p, n) : \A k \in Upwards(p, n) : k > m => p[k].slot = "left"})
Ends(p, n) ==
  LET last == LastIn(p, n)
  IN Min({m \in Upwards(p, last) : m >= n /\ (p[m].kind \in EndsItself \/ m = last)})
Offset(p) ==
  LET width == Len(p) + 1
  IN [n \in DOMAIN p |-> [from |-> width * Begins(p, n),
                          to |-> width * (LastIn(p, n) + 1) - Ends(p, n)]]

-----------------------------------------------------------------------------
(* How control moves.  A place is a node about to be entered, or left with *)
(* the completion the language gives it.                                   *)
In(n) == [node |-> n, how |-> "in"]
Out(n, how) == [node |-> n, how |-> how]

(* A step of control: the next place, and the outcome of the test of a     *)
(* node, if the step makes one (0 if not).                                 *)
Go(place) == [to |-> place, test |-> 0, outcome |-> 0]
Decide(place, n, outcome) == [to |-> place, test |-> n, outcome |-> outcome]

(* The outcomes of a test, of a loop without one, of a left operand.       *)
Branch(p, n) ==
  LET yes == At(p, n, {"consequent", "body", "right"})
      no  == At(p, n, {"alternate"})
  IN {Decide(In(m), n, "yes") : m \in yes}
     \cup IF no = {} THEN {Decide(Out(n, "normal"), n, "no")}
          ELSE {Decide(In(m), n, "no") : m \in no}

Select(p, n) ==
  {Decide(In(m), n, m) : m \in Below(p, n)}
  \cup IF \E m \in Below(p, n) : p[m].kind = "Default" THEN {} ELSE {Decide(Out(n, "normal"), n, n)}

(* The next turn of a loop begins with its test, if it has one.            *)
Again(p, n) ==
  LET tests == At(p, n, {"test"}) IN IF tests = {} THEN Branch(p, n) ELSE {Go(In(Min(tests)))}

(* Entering a node.                                                        *)
Enters(p, n) ==
  LET kind  == p[n].kind
      first == At(p, n, {"list", "test", "left", "block", "expr"})
      leaves == {Go(Out(n, "normal"))}
  IN CASE kind \in {"Return", "Throw", "Break"} ->
            {Go(Out(n, CASE kind = "Return" -> "return" [] kind = "Throw" -> "throw"
                         [] kind = "Break" -> "break"))}
       [] kind = "Switch" -> Select(p, n)
       [] kind = "Function" -> leaves
       [] kind = "Catch" -> {Go(In(Only(Below(p, n))))}
       [] kind \in {"If", "Conditional"} \cup Loops ->
            IF first = {} THEN Branch(p, n) ELSE {Go(In(Min(first)))}
       [] OTHER -> IF first = {} THEN leaves ELSE {Go(In(Min(first)))}

(* What a try does once its block or its handler has ended somehow.        *)
Finally(p, n, how) ==
  IF At(p, n, {"finalizer"}) = {} THEN {Go(Out(n, how))}
  ELSE {Decide(In(Only(At(p, n, {"finalizer"}))), n, how)}

(* Leaving a node with a completion; ended is how the try around it had    *)
(* ended before its finalizer.                                             *)
Leaves(p, n, how, ended) ==
  LET up == p[n].up
      kind == p[up].kind
      slot == p[n].slot
      normal == how = "normal"
  IN CASE kind \in Lists \cup {"Switch"} ->
            IF kind = "Switch" /\ how = "break" THEN {Go(Out(up, "normal"))}
            ELSE IF normal /\ Next1(p, n) # {} THEN {Go(In(Min(Next1(p, n))))}
            ELSE {Go(Out(up, how))}
       [] slot \in {"test", "left"} -> Branch(p, up)
       [] kind \in Loops /\ slot = "body" ->
            IF normal THEN Again(p, up)
            ELSE {Go(Out(up, IF how = "break" THEN "normal" ELSE how))}
       [] kind = "Try" ->
            CASE slot = "block" /\ how = "throw" /\ At(p, up, {"handler"}) # {} ->
                   {Go(In(Only(At(p, up, {"handler"}))))}
              [] slot = "finalizer" -> {Go(Out(up, IF normal THEN ended ELSE how))}
              [] OTHER -> Finally(p, up, how)
       [] OTHER -> {Go(Out(up, how))}

=============================================================================
