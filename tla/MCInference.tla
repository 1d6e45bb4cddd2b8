----------------------------- MODULE MCInference -----------------------------
(***************************************************************************)
(* Libraries small enough to follow by hand that between them use every    *)
(* construct of the declarations, of the loaded values and of the static   *)
(* type model.                                                             *)
(***************************************************************************)
EXTENDS Inference

Prim(k) == [tag |-> "primitive", kind |-> k]
Lit(base) == [tag |-> "literal", base |-> base]
Obj(name, calls, props) == [tag |-> "object", name |-> name, calls |-> calls, props |-> props]
Prop(name, type, optional) == [name |-> name, type |-> type, optional |-> optional]
Param(type, optional) == [type |-> type, optional |-> optional]
Sig(params, ret) == [params |-> params, ret |-> ret]
Fn(sigs) == Obj("Fn", sigs, <<>>)

Basics ==
  [num |-> Prim("Number"), str |-> Prim("String"), bool |-> Prim("Boolean"),
   undef |-> Prim("Undefined"), nul |-> Prim("Null"), any |-> [tag |-> "any"],
   a |-> Lit("str"), b |-> Lit("str"), one |-> Lit("num"), sym |-> [tag |-> "symbol"],
   big |-> [tag |-> "bigint"], anything |-> [tag |-> "nonPrimitive"],
   mixed |-> [tag |-> "union", members |-> <<"a", "b", "one", "sym">>],
   bounded |-> [tag |-> "parameter", constraint |-> "mixed"],
   free |-> [tag |-> "parameter", constraint |-> NoType],
   node |-> Obj("Node", <<>>, <<Prop("next", "node", TRUE), Prop("tag", "mixed", FALSE),
                                Prop("over", "num", FALSE)>>),
   opts |-> Obj("Opts", <<>>, <<Prop("deep", "num", TRUE), Prop("tag", "bounded", FALSE)>>),
   more |-> Obj("More", <<>>, <<Prop("deep", "mixed", FALSE), Prop("keep", "bool", FALSE)>>),
   both |-> [tag |-> "intersection", members |-> <<"opts", "any", "more">>],
   choice |-> [tag |-> "union", members |-> <<"opts", "more", "nul", "A">>],
   list |-> [tag |-> "array", args |-> <<"num", "choice", "sym">>],
   A |-> [tag |-> "class", name |-> "A", props |-> <<>>],
   buf |-> Obj("Buffer", <<>>, <<>>),
   callback |-> Fn(<<Sig(<<>>, "any")>>),
   promise |-> [of |-> "A"] @@ Obj("Promise", <<>>, <<Prop("then", "callback", FALSE)>>)]

DeclMember(name, type) == [name |-> name, type |-> type]
Exported(name, type) == [name |-> name, type |-> type, isClass |-> FALSE]

ParserTypes == Basics @@
  [parse |-> Fn(<<Sig(<<Param("str", FALSE), Param("opts", TRUE)>>, "promise"),
                  Sig(<<Param("buf", FALSE), Param("choice", FALSE), Param("callback", TRUE)>>, "list"),
                  Sig(<<Param("list", FALSE), Param("more", FALSE)>>, "undef")>>),
   walk  |-> Fn(<<Sig(<<Param("node", FALSE), Param("both", FALSE), Param("free", FALSE)>>, "big")>>),
   size  |-> Fn(<<Sig(<<>>, "num"), Sig(<<Param("anything", FALSE)>>, "sym")>>),
   of    |-> Fn(<<Sig(<<Param("promise", TRUE)>>, "A")>>),
   makeA |-> Obj("", <<>>, <<>>)]
ClassA ==
  [name |-> "A", type |-> "makeA", isClass |-> TRUE,
   constructs |-> <<Sig(<<Param("opts", FALSE)>>, "A"), Sig(<<>>, "A")>>,
   statics |-> <<DeclMember("of", "of"), DeclMember("valueOf", "of"), DeclMember("count", "num")>>,
   members |-> <<DeclMember("size", "size"), DeclMember("both", "size"), DeclMember("toString", "size")>>]
ParserDecl ==
  [types |-> ParserTypes, equals |-> NoType,
   exports |-> <<Exported("parse", "parse"), Exported("walk", "walk"),
                 Exported("version", "str"), ClassA>>]

(* What the text does not show of functions and classes.                   *)
F(code, argc) ==
  [tag |-> "function", name |-> code, code |-> code, argc |-> argc, methods |-> <<>>, props |-> <<>>]
Class(code, argc, methods, props) == [F(code, argc) EXCEPT !.methods = methods, !.props = props]
V(name, fn) == [name |-> name, value |-> <<fn>>]
Fns(fns) == [id \in {<<code>> : code \in DOMAIN fns} |-> fns[Head(id)]]

ParserFns ==
  Fns([text |-> [tag |-> "other"],
       parse |-> F("parse", 2), walk |-> F("walk", 1), escape |-> F("escape", 1),
       A |-> Class("A", 1, <<V("size", "size"), V("both", "size"), V("_hidden", "size"), V("toString", "size")>>,
                   <<V("of", "of"), V("count", "text")>>),
       size |-> F("size", 0), of |-> F("of", 1)])

(* A callable `export =' and a class as the default.                       *)
SharpDecl ==
  [types |-> Basics @@
     [sharp |-> Obj("Sharp", <<Sig(<<Param("buf", TRUE)>>, "Image"), Sig(<<Param("str", FALSE)>>, "Image")>>,
                    <<Exported("cache", "cache"), Exported("valueOf", "cache"),
                      [name |-> "Kernel", type |-> "Kernel", isClass |-> TRUE,
                       constructs |-> <<Sig(<<>>, "Kernel")>>, statics |-> <<>>, members |-> <<>>],
                      Exported("version", "str")>>),
      Image |-> Obj("Sharp", <<>>, <<Prop("resize", "resize", FALSE), Prop("width", "num", FALSE)>>),
      resize |-> Fn(<<Sig(<<Param("num", TRUE)>>, "Image"), Sig(<<Param("Image", FALSE)>>, "Image")>>),
      cache |-> Fn(<<Sig(<<Param("mixed", FALSE)>>, "undef")>>),
      Kernel |-> Obj("typeof Kernel", <<>>, <<>>)],
   equals |-> "sharp", exports |-> <<>>]
SharpFns ==
  Fns([Sharp |-> Class("Sharp", 2, <<V("resize", "resize")>>, <<V("cache", "cache"), V("Kernel", "Kernel")>>),
       Kernel |-> F("Kernel", 0), resize |-> F("resize", 2), cache |-> F("cache", 1)])

(* Elements of a static analysis.  `simple': all are there, none contains  *)
(* itself.                                                                 *)
T(base, object, p) == [base |-> base, object |-> object, p |-> p]
Node(probs, props, params, rets) == [probs |-> probs, props |-> props, params |-> params, rets |-> rets]
E(name, id) == [name |-> name, id |-> id]
NoStatic == [nodes |-> NoField, plain |-> {}, source |-> <<>>, text |-> NoField, involved |-> NoField, simple |-> TRUE]

Nodes ==
  [parse |-> Node(<<>>, <<>>, <<"text", "options">>, <<"result", "other">>),
   escape |-> Node(<<>>, <<>>, <<"options", "scoped">>, <<>>),
   walk |-> Node(<<>>, <<>>, <<"either", "unlikely">>, <<"result">>),
   unlikely |-> Node(<<T("object", NoId, 0), T("boolean", NoId, 1000)>>, <<>>, <<>>, <<>>),
   text |-> Node(<<T("string", NoId, 600), T("array", NoId, 400)>>, <<>>, <<>>, <<>>),
   flag |-> Node(<<T("numeric", NoId, 300), T("integer", NoId, 300), T("boolean", NoId, 400)>>, <<>>, <<>>, <<>>),
   options |-> Node(<<T("object", NoId, 500), T("object", "result", 500), T("null", NoId, 0)>>,
                    <<E("flag", "flag"), E("name", "text")>>, <<>>, <<>>),
   result |-> Node(<<T("object", NoId, 1000)>>, <<E("flag", "text"), E("left", "scoped")>>, <<>>, <<>>),
   other |-> Node(<<T("null", NoId, 1000)>>, <<>>, <<>>, <<>>),
   either |-> Node(<<T("object", "options", 1000)>>, <<>>, <<>>, <<>>)]
\* two functions have the same text, one is not in the file
Text == [parse |-> "text", size |-> "of nothing", escape |-> "same", of |-> "same",
         walk |-> "steps", A |-> "hidden"]
ParserStatic ==
  [nodes |-> Nodes, plain |-> DOMAIN Nodes, simple |-> TRUE,
   source |-> EachOf(<<"walk", "parse", "size", "escape", "of">>, LAMBDA id : [text |-> Text[id], id |-> id]),
   text |-> Text,
   involved |-> [size |-> <<"size", "options">>]]

(* A recursive element and one that is missing.                            *)
TangledStatic ==
  [ParserStatic EXCEPT
     !.simple = FALSE, !.plain = @ \cup {"lost"},
     !.nodes = [@ EXCEPT !["options"].props = <<E("again", "options"), E("self", "either")>>,
                         !["result"].props = <<E("flag", "flag"), E("gone", "lost")>>]]

(* Texts.                                                                  *)
Keyed1(form, key, at, value) == [form |-> form, key |-> key, at |-> at, value |-> value]
Key(key, value) == Keyed1("plain", key, key, value)
Bound(form, key, at, binds, alias, inner) ==
  [form |-> form, key |-> key, at |-> at, binds |-> binds, alias |-> alias, inner |-> inner]
Alias(key, alias) == Bound("plain", key, key, "name", alias, <<>>)
Rest(alias) == Bound("spread", "", "", "name", alias, <<>>)
Pattern(props, init) == [id |-> "", pattern |-> props, init |-> init]
Named1(code) == FunctionOf("function", code, code)
Anonymous(form, code) == FunctionOf(form, "", code)
Export(name, expr) == Assign(Append(Exports, name), expr)
ClassOf(code) == FunctionOf("class", code, code)
FunctionDecl(code) == [tag |-> "function", id |-> code, form |-> "function", of |-> "function", code |-> code]

(* What is rewritten as it should be.                                      *)
ParserProgram ==
  <<FunctionDecl("escape"),
    Declare("const",
      <<Declares1("defaults", Literal(<<Keyed1("literal", "level", "level", Leaf("max")),
                                       Keyed1("method", "reset", "reset", FunctionOf("method", "", "reset")),
                                       Key("deep", Leaf("one")),
                                       Key("nested", Literal(<<Key("escape", Ref(<<"escape">>))>>))>>)),
        Declares1("limit", Leaf("max"))>>),
    Declare("const", <<Pattern(<<Alias("nested", "util"), Alias("deep", "deep")>>, Ref(<<"defaults">>))>>),
    Declare("let", <<Declares1("all", Literal(<<Keyed1("spread", "", "", Ref(<<"defaults">>)),
                                               Key("deep", Ref(<<"limit">>))>>))>>),
    Assign(Exports, Literal(<<>>)),
    Export("parse", Anonymous("function", "parse")),
    Export("util", Literal(<<Key("escape", Member(Ref(<<"util">>), "escape")),
                            Key("deep", Literal(<<Key("unreached", Ref(<<"escape">>))>>))>>)),
    Declare("const", <<Pattern(<<Alias("parse", "again")>>, Ref(Exports))>>),
    Export("A", ClassOf("A")),
    Export("version", Member(Ref(<<"all">>), "level")),
    Export("walk", Named1("walk"))>>

(* What it was exported with, and what is exported, is lost in part: a     *)
(* declarator, a rest, a default, a nested pattern, an alias, a method, a  *)
(* spread, a string as a key; a key in brackets is taken for its name.     *)
TangledProgram ==
  <<Declare("const", <<Declares1("limit", Leaf("max"))>>),
    Declare("let", <<Pattern(<<Alias("main", "first"), Rest("rest")>>,
                            Literal(<<Key("main", Literal(<<Key("deep", Leaf("one"))>>)),
                                      Key("of", Anonymous("function", "of"))>>)),
                    Declares1("lost", Leaf("one"))>>),
    Declare("var", <<Pattern(<<Bound("plain", "deep", "deep", "default", "level", Leaf("off")),
                              Bound("literal", "fast", "fast", "default", "fast", Leaf("on")),
                              Bound("computed", "limit", "max", "name", "most", <<>>)>>,
                            Ref(<<"first">>))>>),
    Declare("const", <<Declares1("table", Literal(<<Keyed1("computed", "limit", "max", Leaf("one"))>>))>>),
    Declare("let", <<Pattern(<<Bound("plain", "sub", "sub", "nested", "", <<Alias("max", "inner")>>)>>,
                            Literal(<<Key("sub", Ref(<<"table">>))>>))>>),
    Assign(Exports, Literal(<<Key("parse", Named1("parse")),
                             Keyed1("method", "size", "size", FunctionOf("method", "", "size")),
                             Keyed1("spread", "", "", Literal(<<Key("of", Named1("of"))>>)),
                             Keyed1("literal", "text", "text", Leaf("one"))>>)),
    Export("walk", Anonymous("arrow", "walk")),
    Export("escape", Named1("escape")),
    Export("A", ClassOf("A")),
    Export("util", Literal(<<Key("escape", Named1("escape"))>>)),
    Export("util", Literal(<<Key("old", Ref(Append(Exports, "util")))>>))>>

(* What cannot be imported once it is rewritten: a variable a pattern      *)
(* declared becomes a constant, a generator an ordinary function.          *)
LevelProgram ==
  <<Declare("let", <<Pattern(<<Alias("level", "level")>>, Literal(<<Key("level", Leaf("one"))>>))>>),
    Assign(<<"level">>, Leaf("two")), Export("parse", Named1("parse"))>>
StepsProgram == <<Export("parse", Named1("parse")), Export("walk", Anonymous("generator", "walk"))>>

(* What is known under a name of its own, and by none once it is loaded.   *)
AnonymousProgram == <<Assign(Exports, Anonymous("function", "parse")), Export("of", Named1("of"))>>

(* Only what is declared.                                                  *)
MatchedProgram == <<Export("parse", Anonymous("function", "parse")), Export("A", ClassOf("A"))>>
MatchedDecl == [ParserDecl EXCEPT !.exports = <<Exported("parse", "parse"), ClassA>>]

Library(modes, decl, program, fns, static) ==
  [modes |-> modes, decl |-> decl, program |-> program, fns |-> fns, static |-> static]

AllModes == {"decl", "dynamic", "syntest"}
Parser == Library(AllModes, ParserDecl, ParserProgram, ParserFns, ParserStatic)
Matched == Library(AllModes, MatchedDecl, MatchedProgram, ParserFns, ParserStatic)
Tangled == Library({"syntest"}, NoField, TangledProgram, ParserFns, TangledStatic)
Level == Library({"dynamic", "syntest"}, NoField, LevelProgram, ParserFns, NoStatic)
Steps == Library({"syntest"}, NoField, StepsProgram, ParserFns, NoStatic)
NoName == Library({"syntest"}, NoField, AnonymousProgram, ParserFns, ParserStatic)
Sharp == Library({"decl", "dynamic"}, SharpDecl, <<Assign(Exports, Named1("Sharp"))>>, SharpFns, NoStatic)
(* A class with a static and a method of one name.                         *)
Collision ==
  Library({"dynamic"}, NoField, ParserProgram, [ParserFns EXCEPT ![<<"A">>].props = <<V("size", "of")>>], NoStatic)

(* With what importing them, and their rewritten texts, gives.             *)
Images(libraries) ==
  {[original |-> Import(l.fns, l.program), rewritten |-> Import(l.fns, RewrittenProgram(l.program))] @@ l
     : l \in libraries}

MCLibraries == Images({Parser, Matched, Tangled, Level, Steps, NoName, Sharp})
MCCollisions == Images({Collision})
MCSkipLists == {{}, {<<"A", "size">>, <<"cache">>}, {<<"A">>, <<"util", "escape">>, <<"Sharp">>}}

=============================================================================
