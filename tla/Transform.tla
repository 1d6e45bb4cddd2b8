------------------------------ MODULE Transform ------------------------------
(***************************************************************************)
(* How the text of a library is rewritten before its static analysis       *)
(* (inference/program-transform.ts), so that every property of an object   *)
(* is assigned by a statement of its own and every function assigned to a  *)
(* property has a name.  A program is a sequence of statements             *)
(*                                                                         *)
(*   [tag "declare", kind, decls]   kind is const, let or var, declarators *)
(*                              [id, pattern, init] have either an id or   *)
(*                              the properties of an object pattern        *)
(*   [tag "assign", left, right]    to a path, the sequence of its names   *)
(*   [tag "function", id, form, code]                                      *)
(*                                                                         *)
(* An object's properties are [form, key, at, value], a pattern's          *)
(* [form, key, at, binds, alias, inner].  The forms are                    *)
(*                                                                         *)
(*   plain     the key is an identifier                                    *)
(*   computed  the key is an identifier in brackets, at what it stands for *)
(*   literal   the key is a string or a number                             *)
(*   method    a method of an object                                       *)
(*   spread    of an object, or the rest of a pattern                      *)
(*                                                                         *)
(* A pattern's property binds a name (alias), a name with a default        *)
(* (inner), or what a pattern in it (inner) takes apart.  The form of a    *)
(* function is "function", "arrow" or "generator", for other callables     *)
(* "class" or "method"; code stands for its text without its name.         *)
(*                                                                         *)
(* Values are compared by their structure: that two names share an object  *)
(* is outside this model, as are statements in blocks and functions.       *)
(***************************************************************************)
EXTENDS Integers, Sequences, FiniteSets, SequencesExt, TLC

Declare(kind, decls) == [tag |-> "declare", kind |-> kind, decls |-> decls]
Declares1(id, init) == [id |-> id, pattern |-> <<>>, init |-> init]
Assign(left, right) == [tag |-> "assign", left |-> left, right |-> right]
Literal(props) == [tag |-> "object", props |-> props]
Leaf(value) == [tag |-> "leaf", value |-> value]
Ref(path) == [tag |-> "ref", path |-> path]
FunctionOf(form, name, code) == [tag |-> "fn", form |-> form, name |-> name, code |-> code]
Member(of, key) == IF of.tag = "ref" THEN Ref(Append(of.path, key))
                   ELSE [tag |-> "member", of |-> of, key |-> key]

(* Those that are object properties with an identifier as the key, which   *)
(* may be in brackets.                                                     *)
Keyed(props) == SelectSeq(props, LAMBDA p : p.form \in {"plain", "computed"})
EachOf(s, Op(_)) == [i \in DOMAIN s |-> Op(s[i])]

(* The first traversal: an anonymous function or an arrow assigned to a    *)
(* property is declared as an ordinary function before the statement,      *)
(* under a new name, whatever it was.                                      *)
IsNamed(expr) ==
  ~(expr.tag = "fn" /\ (expr.form = "arrow" \/ (expr.form \in {"function", "generator"} /\ expr.name = "")))
NameFunction(name, stmt) ==
  IF stmt.tag = "assign" /\ Len(stmt.left) > 1 /\ ~IsNamed(stmt.right)
  THEN <<[tag |-> "function", id |-> name, form |-> "function", of |-> stmt.right.form,
          code |-> stmt.right.code], Assign(stmt.left, Ref(<<name>>))>>
  ELSE <<stmt>>
NameFunctions(program) ==
  FlattenSeq([i \in DOMAIN program |-> NameFunction(ToString(i), program[i])])

-----------------------------------------------------------------------------
(* Assignments of an object's properties to the properties of a path.      *)
PropertyAssignments(left, object) ==
  EachOf(Keyed(object.props), LAMBDA p : Assign(Append(left, p.key), p.value))

(* transformObjectAssignment: the assignments are inserted right after the *)
(* declaration, which keeps the object, one declarator's before those of   *)
(* the declarators before.                                                 *)
ObjectAssignments(decls) ==
  LET of(d) == IF d.pattern = <<>> /\ d.init.tag = "object" THEN PropertyAssignments(<<d.id>>, d.init)
               ELSE <<>>
  IN FlattenSeq(Reverse(EachOf(decls, of)))

(* transformDestructuringAssignment: a constant for each property, named   *)
(* as the property where it does not bind a name.                          *)
KeyName(p) == p.key                        \* mutant: the alias is not used
BoundName(p) == IF p.binds = "name" THEN p.alias ELSE p.key
Destructured(decls) ==
  LET of(d) == EachOf(Keyed(d.pattern),
                      LAMBDA p : Declare("const", <<Declares1(BoundName(p), Member(d.init, p.key))>>))
  IN FlattenSeq(EachOf(decls, of))

(* The second traversal visits what it inserts.  An object that is         *)
(* assigned is replaced by an empty one.                                   *)
RECURSIVE Rewritten(_)
Rewritten(stmt) ==
  LET again(stmts) == FlattenSeq(EachOf(stmts, Rewritten))
      news == Destructured(stmt.decls)
  IN CASE stmt.tag = "declare" ->
            (IF news = <<>> THEN <<stmt>> ELSE news) \o again(ObjectAssignments(stmt.decls))
       [] stmt.tag = "assign" /\ stmt.right.tag = "object" /\ stmt.right.props # <<>> ->
            <<Assign(stmt.left, Literal(<<>>))>> \o again(PropertyAssignments(stmt.left, stmt.right))
       [] OTHER -> <<stmt>>

RewrittenProgram(program) == FlattenSeq(EachOf(NameFunctions(program), Rewritten))

(* A text with the `yield's of a generator in an ordinary function is none *)
(* the language has.                                                       *)
Parses(program) == \A stmt \in Range(program) : stmt.tag = "function" => stmt.of # "generator"

-----------------------------------------------------------------------------
(* What a program leaves behind, as the language has it: the values at the *)
(* paths it has set, its constants, and whether it threw an exception,     *)
(* after which nothing happens.                                            *)
Within(path, q) == IsPrefix(path, q)

Object == [tag |-> "object"]
Other(value) == [tag |-> "other", value |-> value]
Undef == <<>> :> Other("undefined")
FunctionValue(form, name, code) == [tag |-> "function", form |-> form, name |-> name, code |-> code]

(* Values are functions from the paths in them.                            *)
Below(whole, path) ==
  LET at == {q \in DOMAIN whole : Within(path, q)}
      rest(q) == SubSeq(q, Len(path) + 1, Len(q))
  IN IF at = {} THEN Undef ELSE [r \in {rest(q) : q \in at} |-> whole[path \o r]]
Put(whole, path, value) ==
  LET kept == {q \in DOMAIN whole : ~Within(path, q)}
      new == {path \o r : r \in DOMAIN value}
  IN [q \in kept \cup new |-> IF q \in new THEN value[SubSeq(q, Len(path) + 1, Len(q))] ELSE whole[q]]
KeysOf(value) == {Head(q) : q \in DOMAIN value \ {<<>>}}
Without(value, keys) == [q \in {q \in DOMAIN value : q = <<>> \/ Head(q) \notin keys} |-> value[q]]

(* An anonymous function is called what it is the value of.                *)
CalledAs(name, expr) ==
  IF expr.tag = "fn" /\ expr.name = "" THEN [expr EXCEPT !.name = name] ELSE expr

RECURSIVE Value(_, _)
Value(values, expr) ==
  CASE expr.tag = "leaf" -> <<>> :> Other(expr.value)
    [] expr.tag = "fn" -> <<>> :> FunctionValue(expr.form, expr.name, expr.code)
    [] expr.tag = "ref" -> Below(values, expr.path)
    [] expr.tag = "member" -> Below(Value(values, expr.of), <<expr.key>>)
    [] OTHER ->
         LET add(acc, p) ==
               IF p.form = "spread"
               THEN LET v == Value(values, p.value)
                    IN [q \in DOMAIN v \ {<<>>} |-> v[q]] @@ Without(acc, KeysOf(v))
               ELSE Put(acc, <<p.at>>, Value(values, CalledAs(p.at, p.value)))
         IN FoldLeft(add, <<>> :> Object, expr.props)

(* The paths an expression reads, those in its keys too.  A name must be   *)
(* declared, and what has a property must have a value.                    *)
KeyReads(props) == {<<p.key>> : p \in {p \in Range(props) : p.form = "computed"}}
RECURSIVE Reads(_)
Reads(expr) ==
  CASE expr.tag = "ref" -> {expr.path}
    [] expr.tag = "member" -> Reads(expr.of)
    [] expr.tag = "object" -> KeyReads(expr.props) \cup UNION {Reads(p.value) : p \in Range(expr.props)}
    [] OTHER -> {}
HasValue(values, path) == path \in DOMAIN values /\ values[path] # Other("undefined")
Readable(values, path) == IF Len(path) = 1 THEN path \in DOMAIN values ELSE HasValue(values, Front(path))

Thrown(e) == [e EXCEPT !.threw = TRUE]
Bind(e, kind, name, value) ==
  IF <<name>> \in DOMAIN e.values /\ (kind # "var" \/ name \in e.consts) THEN Thrown(e)   \* declared twice
  ELSE [e EXCEPT !.values = Put(@, <<name>>, value), !.consts = @ \cup (IF kind = "const" THEN {name} ELSE {})]

RECURSIVE BindPattern(_, _, _, _)
BindPattern(e, kind, pattern, from) ==
  LET bind(acc, p) ==
        LET part == Below(from, <<p.at>>)
        IN CASE p.form = "spread" ->
                  Bind(acc, kind, p.alias, Without(from, {o.at : o \in Range(pattern)}))
             [] p.form # "spread" /\ p.binds = "name" -> Bind(acc, kind, p.alias, part)
             [] p.form # "spread" /\ p.binds = "default" ->
                  Bind(acc, kind, p.alias, IF part = Undef THEN Value(acc.values, p.inner) ELSE part)
             [] OTHER -> IF part = Undef THEN Thrown(acc) ELSE BindPattern(acc, kind, p.inner, part)
  IN FoldLeft(bind, e, pattern)

Executed(e, stmt) ==
  LET canRead(acc, paths) == \A path \in paths : Readable(acc.values, path)
      declare(acc, d) ==
        CASE ~canRead(acc, Reads(d.init) \cup KeyReads(d.pattern)) -> Thrown(acc)
          [] canRead(acc, Reads(d.init) \cup KeyReads(d.pattern)) /\ d.pattern = <<>> -> Bind(acc, stmt.kind, d.id, Value(acc.values, CalledAs(d.id, d.init)))
          [] OTHER -> BindPattern(acc, stmt.kind, d.pattern, Value(acc.values, d.init))
  IN CASE e.threw -> e
       [] ~e.threw /\ stmt.tag = "declare" -> FoldLeft(declare, e, stmt.decls)
       [] ~e.threw /\ stmt.tag = "assign" ->
            IF \/ ~canRead(e, Reads(stmt.right)) \/ (Len(stmt.left) = 1 /\ Head(stmt.left) \in e.consts)
               \/ (Len(stmt.left) > 1 /\ ~HasValue(e.values, Front(stmt.left)))
            THEN Thrown(e)
            ELSE [e EXCEPT !.values = Put(@, stmt.left, Value(@, stmt.right))]
       [] OTHER -> [e EXCEPT !.values =
                      Put(@, <<stmt.id>>, <<>> :> FunctionValue(stmt.form, stmt.id, stmt.code))]

(* module.exports is an object at first.                                   *)
Exports == <<"module", "exports">>
Outcome(program) ==
  FoldLeft(Executed,
           [values |-> [q \in {<<"module">>, Exports} |-> Object], consts |-> {}, threw |-> ~Parses(program)],
           program)

=============================================================================
