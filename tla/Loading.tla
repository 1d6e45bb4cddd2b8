------------------------------- MODULE Loading -------------------------------
(***************************************************************************)
(* What a library's endpoints and its schema have in common, whatever the  *)
(* analysis the schema comes from: railcar-infer (inference/cli.ts) joins  *)
(* a schema with the functions the library exports (loadSchemaFromObject), *)
(* validates and writes it, and the worker loads what was written with the *)
(* library.  In the mode "syntest" railcar-infer imports the rewritten     *)
(* library (program-transform.ts) in place of the one the worker imports.  *)
(*                                                                         *)
(* A library is a record [modes, original, rewritten] of its modes and of  *)
(* what importing it, and its rewritten text, gives: an image              *)
(* [values, main, throws], main the value of the import (see Reflection).  *)
(* round is "infer" in railcar-infer and "load" in the worker.  What the   *)
(* declarations and the static analysis say is left open here: a schema is *)
(* prepared in any way that keeps the conventions of methods and           *)
(* constructors, and refined in any way that keeps what Refines says.      *)
(* Inference fills both in, and the rewriting.                             *)
(***************************************************************************)
EXTENDS Reflection, Readers

CONSTANTS
  Libraries,   \* the libraries analysed
  SkipLists    \* the skipMethods of the configurations

(* A property is named and has a value; those of the prototypes are        *)
(* functions.                                                              *)
PropertiesTo(S) == [name : STRING, value : S]
ImageOK(values, main) ==
  /\ main \in DOMAIN values
  /\ \A v \in DOMAIN values :
       /\ values[v].tag \in {"function", "object"} =>
            values[v].props \in Seq(PropertiesTo(DOMAIN values))
       /\ values[v].tag = "function" =>
            /\ values[v].name \in STRING /\ values[v].argc \in Nat
            /\ values[v].methods \in Seq(PropertiesTo({w \in DOMAIN values : IsFn(values, w)}))
(* A library can be imported; what it has been rewritten to may not.       *)
ASSUME LoadingAssumption ==
  \A l \in Libraries :
    /\ \A image \in {l.original, l.rewritten} : ImageOK(image.values, image.main)
    /\ ~l.original.throws

VARIABLES
  lib, mode, skip,  \* what is analysed, how, and without what
  round, stage,
  todo,             \* references still to be mapped
  st,               \* [schema, endpoints, failed]
  saved,            \* the schema of the dynamic analysis, then the one written
  files             \* the schemas written, by mode

loadingVars == <<lib, mode, skip, round, stage, todo, st, saved, files>>

-----------------------------------------------------------------------------
(* Schemas.                                                                *)

(* validateSchema: a method has its own class as receiver, a constructor   *)
(* makes its own class.                                                    *)
Certainly(guess, class) ==
  At(guess.kind, "Class") = One /\ At(guess.classType, class) = One
Keeps(id, sig) ==
  CASE sig.callconv = "Method" -> sig.args # <<>> /\ Certainly(sig.args[1], Front(id))
    [] sig.callconv = "Constructor" -> Certainly(sig.ret, id)
    [] OTHER -> sig.callconv = "Free"
Conventional(schema) == \A id \in DOMAIN schema : Keeps(id, schema[id])

IsSchema(S) == S = [id \in DOMAIN S |-> S[id]] /\ Conventional(S)

(* What an analysis that goes on from the endpoints of a schema may do to  *)
(* it: drop entries, but not a class whose methods stay, and find out more *)
(* of arguments and returned values, but not of receivers and of what is   *)
(* constructed.                                                            *)
Refines(new, old) ==
  /\ new = [id \in DOMAIN new |-> new[id]] /\ DOMAIN new \subseteq DOMAIN old
  /\ \A id \in DOMAIN new :
       /\ new[id].callconv = old[id].callconv
       /\ Front(id) \in DOMAIN old => Front(id) \in DOMAIN new
       /\ old[id].callconv = "Method" => new[id].args # <<>> /\ new[id].args[1] = old[id].args[1]
       /\ old[id].callconv = "Constructor" => new[id].ret = old[id].ret

-----------------------------------------------------------------------------
(* The steps.                                                              *)

FirstStage(m) == CASE m = "decl" -> "derive" [] m = "syntest" -> "transform" [] OTHER -> "reflect"

(* The command line names one mode, and the configuration the methods to   *)
(* skip (parseArguments, getSkipMethods).                                  *)
Prepared(m, s) ==
  /\ s = [schema |-> s.schema, endpoints |-> NoField, failed |-> FALSE]
  /\ IF FirstStage(m) = "derive" THEN IsSchema(s.schema) ELSE s.schema = NoField
LoadingInit ==
  /\ lib \in Libraries /\ mode \in lib.modes /\ skip \in SkipLists
  /\ round = "infer" /\ stage = FirstStage(mode) /\ Prepared(mode, st)
  /\ saved = NoField /\ files = NoField

(* fromFile, where an assertion may fail, or the rewriting of the text.    *)
(* One that cannot be read again is not analysed: the schema is empty.     *)
Prepare ==
  /\ \/ stage = "derive" /\ stage' \in {stage, "reflect", "failed"} /\ IsSchema(st'.schema)
     \/ stage = "transform" /\ stage' \in {stage, "reflect", "validate"} /\ st' = st
  /\ UNCHANGED <<lib, mode, skip, round, saved, files>>

(* loadSchemaFromObject.                                                   *)
Options == [skip |-> skip, onlyKnown |-> round = "load" \/ mode = "decl"]

(* What is imported: the file that was rewritten, by its analysis.         *)
ImageFor(m) == IF m = "syntest" THEN lib.rewritten ELSE lib.original
Image == IF round = "infer" THEN ImageFor(mode) ELSE lib.original

LoadLibrary ==
  /\ stage = "reflect"
  /\ \/ Image.throws /\ stage' = "failed" /\ UNCHANGED <<st, todo>>
     \/ /\ ~Image.throws /\ stage' = "map"
        /\ st' = Standard(st.schema)
        /\ todo' = References(Image.values, Image.main)
  /\ UNCHANGED <<lib, mode, skip, round, saved, files>>

MapReference ==
  /\ stage = "map" /\ todo # <<>>
  /\ st' = MapFunctionReference(Image.values, st, Options, Head(todo)[1], Head(todo)[2])
  /\ stage' = IF st'.failed THEN "failed" ELSE stage
  /\ todo' = Tail(todo)
  /\ UNCHANGED <<lib, mode, skip, round, saved, files>>

(* The end of the mapping: static inference goes on, the other modes have  *)
(* their schema.                                                           *)
Backed == RemoveInvalidEndpoints(st.schema, st.endpoints)
FinishMapping ==
  /\ stage = "map" /\ todo = <<>>
  /\ st' = [st EXCEPT !.schema = Backed]
  /\ CASE round = "load" -> stage' = "loaded" /\ saved' = saved
       [] round = "infer" /\ mode = "syntest" -> stage' = "static" /\ saved' = Backed
       [] OTHER -> stage' = "validate" /\ saved' = saved
  /\ UNCHANGED <<lib, mode, skip, round, todo, files>>

(* syntestSchema.                                                          *)
Refine ==
  /\ stage = "static" /\ stage' \in {"static", "validate"}
  /\ st' = [st EXCEPT !.schema = st'.schema] /\ Refines(st'.schema, st.schema)
  /\ UNCHANGED <<lib, mode, skip, round, todo, saved, files>>

(* validateSchema, and the file; the assertions on the guesses may fail.   *)
Write ==
  /\ stage = "validate"
  /\ \/ stage' = "failed" /\ files' = files
     \/ stage' = "written" /\ Conventional(st.schema) /\ files' = OrElse([m \in {mode} |-> st.schema], files)
  /\ saved' = st.schema
  /\ UNCHANGED <<lib, mode, skip, round, todo, st>>

(* SequenceExecutor.init, with the file that was written.                  *)
WorkerLoads ==
  /\ stage = "written"
  /\ round' = "load" /\ stage' = "reflect"
  /\ st' = [schema |-> saved, endpoints |-> NoField, failed |-> FALSE]
  /\ UNCHANGED <<lib, mode, skip, todo, saved, files>>

(* railcar-infer again, in a mode it has not been run in.                  *)
AnalyseAgain ==
  /\ stage = "loaded" /\ mode' \in lib.modes \ DOMAIN files
  /\ stage' = FirstStage(mode') /\ Prepared(mode', st') /\ round' = "infer" /\ saved' = NoField
  /\ UNCHANGED <<lib, skip, files>>

LoadingNext ==
  \/ Prepare
  \/ LoadLibrary
  \/ MapReference
  \/ FinishMapping
  \/ Refine
  \/ Write
  \/ WorkerLoads
  \/ AnalyseAgain

(* A schema is joined with a library's endpoints, written and loaded as    *)
(* above, whatever prepared it.  This is what railcar-infer and the worker *)
(* promise, and what Inference is checked to implement.                    *)
LoadingSpec == LoadingInit /\ [][LoadingNext]_loadingVars

-----------------------------------------------------------------------------
(* Properties.                                                             *)

(* Schemas keep the conventions in every state: a method has its own class *)
(* as its receiver and a constructor makes its own class, through the      *)
(* mapping, the static analysis and the file.  validateSchema asserts it   *)
(* once, before the file is written.                                       *)
ConventionsHold == Conventional(st.schema) /\ \A m \in DOMAIN files : Conventional(files[m])

(* What mapping an image adds to a schema depends on: the names of its     *)
(* references, of their methods and of their own properties, and which of  *)
(* these are functions.                                                    *)
Outline(image) ==
  LET Shape(props) == Mapped(props, LAMBDA p : <<p.name, IsFn(image.values, p.value)>>)
  IN Mapped(References(image.values, image.main),
            LAMBDA r : <<r[1], Shape(image.values[r[2]].methods), Shape(image.values[r[2]].props)>>)
Alike(a, b) == Outline(a) = Outline(b)

(* The schema and the endpoints of the worker agree: loading the written   *)
(* file adds nothing to it and changes no signature but those of the       *)
(* built-ins, every entry has an endpoint, and a method the configuration  *)
(* skips has neither.  No assertion fails and no entry is lost, unless     *)
(* railcar-infer has looked at a rewritten library that is not like the    *)
(* one the worker loads (syntest-infer.ts:221,244).                        *)
LoadKeeps ==
  /\ stage = "loaded" =>
       /\ DOMAIN st.schema \subseteq DOMAIN saved \cup StdNames
       /\ DOMAIN st.schema \subseteq DOMAIN st.endpoints
       /\ \A id \in DOMAIN st.schema \ StdNames : st.schema[id] = saved[id]
       /\ (DOMAIN st.schema \cup DOMAIN st.endpoints) \cap skip \subseteq StdNames
  /\ (mode # "syntest" \/ Alike(lib.rewritten, lib.original)) =>
       /\ (round = "load") => stage # "failed"
       /\ stage = "loaded" => DOMAIN st.schema = DOMAIN saved \cup StdNames

(* What the comparison of the modes asserts of the endpoints, whatever the *)
(* declarations say (analyze-api-surface.ts:87-91): dynamic analysis knows *)
(* nothing of any API, so that no mode can know less, and no mode has an   *)
(* API that dynamic analysis has not, if its constructors have names       *)
(* dynamic analysis takes for those of constructors and it has looked at a *)
(* library like the original.                                              *)
EndpointsCompare ==
  "dynamic" \in DOMAIN files =>
    /\ \A id \in DOMAIN files["dynamic"] \ StdNames : IsNoInfoSignature(files["dynamic"][id])
    /\ \A m \in DOMAIN files :
         (/\ m = "syntest" => Alike(lib.rewritten, lib.original)
          /\ \A id \in DOMAIN files[m] \ StdNames :
               files[m][id].callconv = "Constructor" => IsConstructor(id))
         => DOMAIN files[m] \subseteq DOMAIN files["dynamic"]

=============================================================================
