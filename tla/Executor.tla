------------------------------- MODULE Executor -------------------------------
(***************************************************************************)
(* What the worker does with one input (worker/sequence.ts, bytes.ts,      *)
(* common.ts, worker.ts and support/index.ts): a target reads typed values *)
(* off the bytes itself, or a sequence of calls is interpreted, one call   *)
(* at a time and each awaited; the oracle judges what was thrown; hits of  *)
(* instrumented edges and the verdict are written to shared memory.        *)
(*                                                                         *)
(* A type is a record with a `kind', an object type has `fields', an array *)
(* type an `element' and a `sizeHint', -1 if there is none.  The value a   *)
(* call returns is represented by the call's ID, a constant by the values  *)
(* the provider handed out for it.                                         *)
(***************************************************************************)
EXTENDS DataProvider, FiniteSets

CONSTANTS
  Buffers,      \* the byte strings the fuzzer may send
  Reads,        \* the provider calls a target may make: [op, ...]
  Seqs,         \* the sequences the fuzzer may send, valid in the sense of seq.rs
  Ignored,      \* messages the configuration lists as no bugs
  Errors,       \* what targets throw: [class, message]
  MaxLength,    \* MAX_ARRAY_LENGTH and STRING_MAX_LENGTH
  MaxDepth,     \* bound: how deep the types of constants nest
  MaxEdges,     \* bound: instrumented edges in a behaviour
  MapSize,      \* counters of the coverage map
  HitLimit      \* largest hit count, 255

VARIABLES
  mode,     \* "bytes" or "sequence": the executor init has set up
  attached, \* FALSE in a replay: there is no shared memory
  phase,    \* "idle", "call", "target" or "settle"
  fdp,      \* the provider of the input that runs
  used,     \* the latest read: [op, before, out, threw, read]
  seq, at,  \* the sequence and the call it is at
  objects,  \* ctx.objects: call ID -> what the call returned
  passed,   \* the arguments of the call in progress
  made,     \* _num_executed
  thrown,   \* what the run threw: [class, message, own]
  shm,      \* [valid, calls, total, coverage] of ShMemView
  edges,    \* nextEdgeId: edges inserted so far
  hit       \* edges hit by the run

(* The constants of the configuration, of which the length is one that an  *)
(* ordinary integral can represent.                                        *)
ASSUME BoundsAssumption ==
  /\ {MaxLength, MaxDepth, MaxEdges} \subseteq Nat /\ {MapSize, HitLimit} \subseteq Nat \ {0}
  /\ MaxLength < ValuesOf(MaxBytes)

ASSUME BuffersAssumption == Buffers \subseteq Bytes

(* The calls a target makes have arguments of the declared types; those of *)
(* pickValue and of readers of arrays are no empty widths.  The bounds of  *)
(* a floating range are finite, and so is its width unless it is split.    *)
Readings ==
  [op : {"integral"}, n : Int, signed : {FALSE}] \cup [op : {"integral"}, n : Int \ {0}, signed : {TRUE}]
    \cup [op : {"bigIntegral"}, n : Nat, signed : {FALSE}]
    \cup [op : {"bigIntegral"}, n : Nat \ {0}, signed : {TRUE}]
    \cup [op : {"inRange", "bigInRange"}, min : Int, max : Int]
    \cup {c \in [op : {"floating"}, min : Doubles, max : Doubles, n : {FloatBytes, DoubleBytes}] :
            Span(c.min, c.max, c.n) <= MaxDouble}
    \cup [op : {"boolean", "number", "rest"}]
    \cup [op : {"pick"}, n : Nat] \cup [op : {"picks"}, size : Nat, n : Int]
    \cup [op : {"booleans", "bytes", "numbers"}, n : Int]
    \cup [op : {"string"}, n : Int, printable : BOOLEAN] \cup [op : {"restString"}, printable : BOOLEAN]
    \cup [op : {"integrals", "bigIntegrals"}, max : Int, n : Nat \ {0}, signed : BOOLEAN]
    \cup [op : {"strings"}, max : Int, n : Int]

ASSUME ReadsAssumption == Reads \subseteq Readings

run  == <<fdp, used, seq, at, objects, passed, made, thrown>>
vars == <<mode, attached, phase, run, shm, edges, hit>>

Nothing     == [class |-> "none", message |-> "", own |-> FALSE]
OwnFailure  == [class |-> "AssertionError", message |-> "", own |-> TRUE]
NotRead     == [op |-> "none"]
Empty       == [id \in {} |-> id]

-----------------------------------------------------------------------------
(* Constants of a type.                                                    *)

Unit(p) == Result(p, <<>>, {})

(* The types of constants whose terms nest at most n deep.                 *)
Types[n \in 0..MaxDepth] ==
  [kind : {"Number", "String", "Boolean", "Undefined", "Null", "Function"}]
    \cup IF n = 0 THEN {}
         ELSE [kind : {"Object"}, fields : Seq(Types[n-1])]
                \cup [kind : {"Array"}, element : Types[n-1], sizeHint : Nat \cup {-1}]

(* constant; `inner' makes the values of the fields and the elements.      *)
Level(inner, type, p) ==
  CASE type.kind = "Number"  -> ConsumeNumber(p)
    [] type.kind = "String"  -> ConsumeString(p, MaxLength, TRUE)
    [] type.kind = "Boolean" -> ConsumeBoolean(p)
    [] type.kind \in {"Undefined", "Null", "Function"} -> Unit(p)
    [] type.kind = "Object"  -> InTurn([k \in DOMAIN type.fields |-> inner[type.fields[k]]], p)
    [] type.kind = "Array"   ->
         LET length == IF type.sizeHint >= 0 THEN Returns(p, type.sizeHint)
                                             ELSE ConsumeIntegralInRange(p, 0, MaxLength)
         IN Then(length, Repeat(inner[type.element], length.fdp, length.out[1]))
    [] OTHER -> Throws(p)

constant[n \in 0..MaxDepth] ==
  [type \in Types[n] |-> [p \in Providers |-> Level(constant[n-1], type, p)]]

Constant(p, type) == constant[MaxDepth][type][p]

(* Sequences as is_valid (seq.rs) accepts them: no ID twice, no argument   *)
(* missing, outputs of earlier calls only, and a method has an object.     *)
Arguments == [Output : Nat] \cup [Constant : Types[MaxDepth]]
Calls == [id : Nat, conv : {"Constructor", "Free", "Method"}, args : Seq(Arguments)]

IsValid(s) ==
  \A i \in 1..Len(s) :
    /\ s[i].conv = "Method" => s[i].args # <<>>
    /\ \A j \in 1 .. i - 1 : s[j].id # s[i].id
    /\ \A k \in DOMAIN s[i].args : "Output" \in DOMAIN s[i].args[k] =>
         \E j \in 1 .. i - 1 : s[j].id = s[i].args[k].Output

ASSUME SeqsAssumption == \A s \in Seqs : s \in Seq(Calls) /\ IsValid(s)

(* Mutant of GetArg: an argument is the latest result, whatever it names.  *)
GetLatest(p, arg) ==
  IF "Output" \in DOMAIN arg
  THEN IF objects = Empty THEN Throws(p) ELSE Result(p, <<seq[at - 1].id>>, {})
  ELSE Constant(p, arg.Constant)

(* getArg; Throws stands for its failed assertions.                        *)
GetArg(p, arg) ==
  IF "Output" \in DOMAIN arg
  THEN IF arg.Output \in DOMAIN objects THEN Result(p, <<objects[arg.Output]>>, {}) ELSE Throws(p)
  ELSE Constant(p, arg.Constant)

(* The arguments of a call, evaluated from left to right.                  *)
GetArgs(p, args) ==
  LET upTo[k \in 0..Len(args)] ==
        IF k = 0 THEN [r |-> Unit(p), values |-> <<>>]
        ELSE LET r == GetArg(upTo[k-1].r.fdp, args[k])
             IN [r |-> Then(upTo[k-1].r, r), values |-> Append(upTo[k-1].values, r.out)]
  IN upTo[Len(args)]

-----------------------------------------------------------------------------
(* The oracle (support/index.ts).                                          *)

ShouldIgnore(message) ==
  message # "" /\ (message \in Ignored \/ "RAILCAR_IGNORE_ALL" \in Ignored)

(* An exception that is neither an Error nor a string has no message, "".  *)
IsBug(err) ==
  \/ err.class = "AssertionError"
  \/ err.class \notin {"TypeError", "RangeError"} /\ ~ShouldIgnore(err.message)

-----------------------------------------------------------------------------
Settles == phase' = "settle"

(* A 'bytes' target starts with the whole buffer; interpret with the first *)
(* call.  Before either, the client zeroes the coverage map.               *)
Execute ==
  /\ phase = "idle"
  /\ \E b \in Buffers : fdp' = New(b)
  /\ used' = NotRead /\ objects' = Empty /\ passed' = <<>> /\ made' = 0 /\ at' = 1
  /\ thrown' = Nothing /\ hit' = {}
  /\ shm' = IF attached THEN [shm EXCEPT !.coverage = [k \in 0..MapSize-1 |-> 0]] ELSE shm
  /\ IF mode = "bytes"
     THEN phase' = "target" /\ seq' = <<>>
     ELSE \E s \in Seqs : seq' = s /\ phase' = IF s = <<>> THEN "settle" ELSE "call"
  /\ UNCHANGED <<mode, attached, edges>>

(* A provider call of a 'bytes' target.                                    *)
Perform(p, c) ==
  CASE c.op = "integral"     -> ConsumeIntegral(p, c.n, c.signed)
    [] c.op = "bigIntegral"  -> ConsumeBigIntegral(p, c.n, c.signed)
    [] c.op = "inRange"      -> ConsumeIntegralInRange(p, c.min, c.max)
    [] c.op = "bigInRange"   -> ConsumeBigIntegralInRange(p, c.min, c.max)
    [] c.op = "boolean"      -> ConsumeBoolean(p)
    [] c.op = "number"       -> ConsumeNumber(p)
    [] c.op = "floating"     -> FloatingInRange(p, c.min, c.max, c.n)
    [] c.op = "pick"         -> PickValue(p, c.n)
    [] c.op = "picks"        -> PickValues(p, c.size, c.n)
    [] c.op = "booleans"     -> ConsumeBooleans(p, c.n)
    [] c.op = "bytes"        -> ConsumeBytes(p, c.n)
    [] c.op = "rest"         -> ConsumeRemainingAsBytes(p)
    [] c.op = "string"       -> ConsumeString(p, c.n, c.printable)
    [] c.op = "restString"   -> ConsumeRemainingAsString(p, c.printable)
    [] c.op = "integrals"    -> ConsumeIntegrals(p, c.max, c.n, c.signed)
    [] c.op = "bigIntegrals" -> ConsumeBigIntegrals(p, c.max, c.n, c.signed)
    [] c.op = "numbers"      -> ConsumeNumbers(p, c.n)
    [] c.op = "strings"      -> ConsumeStringArray(p, c.max, c.n)

ReadBytes ==
  /\ mode = "bytes" /\ phase = "target"
  /\ \E c \in Reads :
       LET r == Perform(fdp, c)
       IN /\ fdp' = r.fdp
          /\ used' = [op |-> c.op, call |-> c, before |-> fdp, out |-> r.out,
                      threw |-> r.threw, read |-> r.read]
  /\ UNCHANGED <<mode, attached, phase, seq, at, objects, passed, made, thrown, shm, edges, hit>>

(* The next call of the sequence: its arguments, then invokeEndpoint.      *)
Call ==
  /\ phase = "call"
  /\ LET args == GetArgs(fdp, seq[at].args)
         bad  == args.r.threw \/ (seq[at].conv = "Method" /\ seq[at].args = <<>>)
     IN /\ fdp' = args.r.fdp
        /\ used' = [op |-> "args", before |-> fdp, out |-> args.r.out,
                    threw |-> args.r.threw, read |-> args.r.read]
        /\ passed' = IF bad THEN <<>> ELSE args.values
        /\ thrown' = IF bad THEN OwnFailure ELSE thrown
        /\ phase' = IF bad THEN "settle" ELSE "target"
  /\ UNCHANGED <<mode, attached, seq, at, objects, made, shm, edges, hit>>

(* The awaited call returns, and its result is filed under the call's ID.  *)
Returned ==
  /\ phase = "target"
  /\ IF mode = "bytes" THEN Settles /\ UNCHANGED <<at, objects, made, thrown>>
     ELSE /\ made' = made + 1
          /\ IF seq[at].id \in DOMAIN objects
             THEN Settles /\ thrown' = OwnFailure /\ UNCHANGED <<at, objects>>
             ELSE /\ objects' = [id \in DOMAIN objects \cup {seq[at].id} |->
                                   IF id = seq[at].id THEN id ELSE objects[id]]
                  /\ at' = at + 1
                  /\ phase' = IF at = Len(seq) THEN "settle" ELSE "call"
                  /\ thrown' = thrown
  /\ passed' = <<>> /\ used' = NotRead
  /\ UNCHANGED <<mode, attached, fdp, seq, shm, edges, hit>>

Threw ==
  /\ phase = "target"
  /\ \E e \in Errors : thrown' = [class |-> e.class, message |-> e.message, own |-> FALSE]
  /\ Settles
  /\ passed' = <<>> /\ used' = NotRead
  /\ UNCHANGED <<mode, attached, fdp, seq, at, objects, made, shm, edges, hit>>

(* withOracle, and the number of calls that execute publishes; the context *)
(* of the run is garbage.                                                  *)
Settle ==
  /\ phase = "settle"
  /\ shm' = IF attached
            THEN [shm EXCEPT !.valid = (thrown = Nothing \/ IsBug(thrown)),
                             !.calls = IF mode = "bytes" THEN @ ELSE made]
            ELSE shm
  /\ phase' = "idle"
  /\ fdp' = New(<<>>) /\ used' = NotRead /\ seq' = <<>> /\ at' = 1 /\ objects' = Empty
  /\ thrown' = Nothing
  /\ UNCHANGED <<mode, attached, passed, made, edges, hit>>

-----------------------------------------------------------------------------
(* The load hook: a module that is intercepted gets n counters, whenever   *)
(* the target imports it.                                                  *)
Load(intercepted, n) ==
  /\ attached /\ phase = "target" /\ edges + n <= MaxEdges
  /\ edges' = IF intercepted THEN edges + n ELSE edges
  /\ UNCHANGED <<mode, attached, phase, run, shm, hit>>

(* Mutant of Bumped: the counter wraps to zero.                            *)
Wraps(hits) == (hits + 1) % (HitLimit + 1)

(* The counter of an edge is eight bits wide and skips zero when it wraps. *)
Bumped(hits) == IF hits = HitLimit THEN 1 ELSE hits + 1

(* record_hit, called by instrumented code.                                *)
RecordHit(e) ==
  /\ attached /\ phase = "target" /\ e < edges
  /\ shm' = [shm EXCEPT !.total = edges, !.coverage[e % MapSize] = Bumped(@)]
  /\ hit' = hit \cup {e}
  /\ UNCHANGED <<mode, attached, phase, run, edges>>

-----------------------------------------------------------------------------
Init ==
  /\ mode \in {"bytes", "sequence"} /\ attached \in BOOLEAN
  /\ phase = "idle" /\ fdp = New(<<>>) /\ used = NotRead
  /\ seq = <<>> /\ at = 1 /\ objects = Empty /\ passed = <<>> /\ made = 0 /\ thrown = Nothing
  /\ shm = [valid |-> FALSE, calls |-> 0, total |-> 0, coverage |-> [k \in 0..MapSize-1 |-> 0]]
  /\ edges = 0 /\ hit = {}

Next ==
  \/ Execute \/ ReadBytes \/ Call \/ Returned \/ Threw \/ Settle
  \/ \E intercepted \in BOOLEAN, n \in 1..MaxEdges : Load(intercepted, n)
  \/ \E e \in 0..MaxEdges-1 : RecordHit(e)

Spec == Init /\ [][Next]_vars

-----------------------------------------------------------------------------
(* Every byte of an input is used once: a call of the provider reads only  *)
(* bytes that remain, and exactly those it takes away, whichever of the    *)
(* two ends it, and the calls before it, read from.                        *)
BytesOnce ==
  [][fdp'.data = fdp.data /\ phase # "idle" /\ fdp' # fdp
       => /\ Window(fdp') \subseteq Window(fdp)
          /\ used'.read = Window(fdp) \ Window(fdp')]_vars

(* What the comments of FuzzedDataProvider promise of a call c and the     *)
(* values r it returned, but for a floating value: `result + range * prob' *)
(* rounds, and can lie above max, where the comments say "in the range     *)
(* [min, max]" (lines 200 and 239).  The operations on the way to it add   *)
(* up to no more than RoundingErrors units in the last place of the larger *)
(* bound.                                                                  *)
RoundingErrors == 3

Within(out, lo, hi) == \A i \in DOMAIN out : out[i] \in lo..hi
AtMost(out, n) == Len(out) <= IF n < 0 THEN 0 ELSE n
Larger(a, b) == IF a < b THEN b ELSE a

Promise(c, r) ==
  CASE c.op = "integral" ->
         Within(r.out, Lowest(c.n, c.signed), Lowest(c.n, c.signed) + ValuesOf(c.n) - 1)
    [] c.op = "bigIntegral" ->
         ByteBits * c.n <= Mantissa =>
           /\ Within(r.out, Lowest(c.n, c.signed), Lowest(c.n, c.signed) + ValuesOf(c.n) - 1)
           /\ Cardinality(r.read) <= c.n
    [] c.op \in {"inRange", "bigInRange"} -> Within(r.out, c.min, c.max)
    [] c.op = "floating" ->
         Within(r.out, c.min, c.max + RoundingErrors * Ulp(Larger(Magnitude(c.min), Magnitude(c.max))))
    [] c.op = "pick"     -> Within(r.out, 0, c.n - 1)
    [] c.op = "picks"    -> Len(r.out) = c.n /\ IsInjective(r.out) /\ Within(r.out, 1, c.size)
    [] c.op = "string"   -> AtMost(r.out, c.n) /\ (c.printable => Within(r.out, 32, 126))
    [] c.op \in {"booleans", "bytes"} -> AtMost(r.out, c.n)
    [] c.op \in {"integrals", "bigIntegrals"} -> AtMost(r.out, c.max)
    [] c.op = "numbers"  -> AtMost(r.out, c.n * DoubleBytes)
    [] c.op = "strings"  -> AtMost(r.out, c.max) /\ Within(r.out, 0, c.n)
    [] OTHER -> TRUE

(* The values a target reads are in the ranges it asked for, a floating    *)
(* one beyond its largest by a rounding error at most, arrays and strings  *)
(* no longer than it asked for, picks distinct; and the ordinary and the   *)
(* big reader of a range read the same number.                             *)
AsPromised ==
  /\ used.op \notin {"none", "args"} => used.threw \/ Promise(used.call, used)
  /\ used.op \in {"inRange", "bigInRange"} =>
       LET ordinary == ConsumeIntegralInRange(used.before, used.call.min, used.call.max)
           big      == ConsumeBigIntegralInRange(used.before, used.call.min, used.call.max)
       IN ordinary.threw \/ (ordinary.out = big.out /\ ordinary.fdp = big.fdp)

(* A call is made with the results of the very calls its arguments name,   *)
(* which have all returned, and a sequence that is valid for the fuzzer    *)
(* never fails an assertion of the interpreter, which the oracle would     *)
(* report as a bug of the target.                                          *)
CallsAsWritten ==
  /\ ~thrown.own
  /\ mode = "sequence" /\ phase = "target" =>
       \A i \in DOMAIN seq[at].args :
         "Output" \in DOMAIN seq[at].args[i] =>
           /\ passed[i] = <<seq[at].args[i].Output>>
           /\ \E j \in 1 .. at - 1 : seq[j].id = seq[at].args[i].Output

(* A counter of the coverage map is zero iff no edge that shares it was    *)
(* hit by the run, however often edges are hit; the number of edges that   *)
(* was published never exceeds that of the counters handed out.            *)
HitsShow ==
  /\ shm.total <= edges
  /\ \A k \in 0..MapSize-1 :
       attached => (shm.coverage[k] # 0 <=> \E e \in hit : e % MapSize = k)

=============================================================================
