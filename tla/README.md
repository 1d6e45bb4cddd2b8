# A verification project for railcar

railcar is a coverage-guided fuzzer for JavaScript libraries. A Rust process
(LibAFL) generates inputs and keeps a corpus; a Node process runs the library
under test on them. Before a campaign, `railcar-infer` derives a schema of the
library; after it, scripts measure what the campaign covered. This directory
holds TLA+ models of these parts, TLC configurations that check them on small
instances, and proofs that hold for instances of every size.

Paths below are relative to `src/packages/` unless they start with `src/`.

## 1. Inventory

### The system

```
 railcar-infer ── schema.json ──────────────┐
   declarations | loaded library | analysis │
                                            ▼
 cli ── launcher ──┬── broker: monitor + heartbeat.csv
                   └── client (one per core; respawned when it dies)
                         │  corpus, solutions, statistics, coverage histories
                         │  generator / mutators ──> ApiSeq or bytes
                         │  executor: observers reset, timer armed
                         │  harness: Worker::invoke
                         │     │  stdin / stdout pipes (msgpack)
                         │     ▼
                         │   Node worker: hooks, executor, oracle, target library
                         │     │
                         └── shared memory: validity, edge count, coverage map

 results ── post-process ── heartbeat.db          library ── make-metrics-db ── metrics.db
         └─ replays under c8 ── V8 dumps ── coverage-to-sqlite ─────────────────────┘
                             └─ lcov.info ── lcov-diff ── lcov-to-html
```

| component | state | operations | hard because |
|---|---|---|---|
| **Client harness** `fuzzer/src/worker.rs` | child, its pipes, schema, shared memory | `new`, `invoke`, `terminate`; `send`, `recv`, `restart_child_process`, `stop_child_process` | the child may hang, die or write garbage at any point; the timer kills the client between any two steps; a wait without bound |
| **Worker process** `worker/worker.ts`, `common.ts` | `_recvBuf`, the executor, work the target left behind | `recv`, `handleMessage` (not awaited), `init`, `invoke`, `withOracle` | messages in pieces or joined; handlers that could overlap; asynchronous leftovers of earlier inputs |
| **Feedbacks** `fuzzer/src/feedback.rs`, `observer.rs` | three coverage histories, four counters (saved with the state), last results and `edges` (lost with the process) | `is_interesting` and `append_metadata` of UniqCrashFeedback and StdFeedback | state with three different lifetimes; the same run counted by several objects; merged under different conditions |
| **API sequences** `fuzzer/src/seq.rs` | calls with IDs and arguments, the worklist of a completion | `create`, `create_single`, `complete`, `remove`, `append`, `generate_fresh_ids`, `is_valid` | references by ID across insertion and removal; a loop that adds to its own worklist |
| **Mutators** `fuzzer/src/mutations.rs` | none | seven mutators | long chains of them; crossover of a sequence with itself; only debug builds check the result |
| **Schema** `fuzzer/src/schema.rs`, `rng.rs` | guesses: distributions of kinds, shapes | `assignable_to`, `is_const_able`, `sample_const_type` | recursion over two types at once, optional properties, probabilities |
| **Executors** `worker/sequence.ts`, `bytes.ts`, `support/` | results by call ID, the bytes left, the oracle | `interpret`, `getArg`, `constant`, `FuzzedDataProvider` | awaits between calls; failures of its own that look like the target's; bytes taken from both ends |
| **Coverage map** `fuzzer/src/shmem.rs`, `worker-sys/src/lib.rs` | 2^15 bytes, edge count, validity, calls executed | `record_hit`, `set_valid` | 8-bit counters that must not wrap to zero; modules loaded late |
| **Instrumentation** `worker/instrument.ts` | the number of counters handed out | `resolve` and `load` hooks, the Babel visitor | what has no counter is never sought |
| **Monitor, metrics** `fuzzer/src/monitor.rs`, `metrics.rs` | the latest statistics of each client, a CSV writer | `display`, `record` | clients that interleave and restart; launches that repeat |
| **Schema inference** `inference/` | entries found so far, endpoints, memo of object shapes | `fromFile`, `loadSchemaFromObject`, `syntestSchema`, `transform`, `validateSchema` | overloads merged by probability; names that collide; circular shapes; a rewritten library analysed in place of the one that is run |
| **Readers of schemas** `src/scripts/analyze-*.ts`, `standalone.ts` | counts by mode | comparison of modes, calls without the fuzzer | assertions that stop a whole evaluation |
| **Post-processing** `src/scripts/post-process.ts`, `heartbeat-to-sqlite.ts` | heartbeat.db, runs skipped | checks of directories, import, checks of rows | repeated, interrupted, preceded by an import by hand |
| **Metrics database** `src/scripts/make-metrics-db.ts`, `analyzers/` | arms, functions, counts | plugins that share one traversal | a plugin that changes the tree; paths of predicates |
| **Coverage of replays** `src/scripts/v8-to-canonical.ts`, `coverage-to-sqlite.ts` | merged dumps, rows | merge, join | ranges V8 leaves out; points at the end of constructs |
| **Coverage reports** `src/scripts/lcov*.ts` | none | parse, print, diff, convert | keys that differ between two reports |
| **cli**, **reporter**, **tools** (Rust), **infra**, **examples** | | launching, replaying; web pages; merging of Istanbul reports; containers; targets | see "Not modelled" |

### What makes each part correct

* Harness and worker: a verdict and the validity flag belong to the input they
  are reported for; "Ok" is only said of a run that ended; one child at a time;
  every invocation ends.
* Feedbacks: a history claims what was kept and nothing else; valid crashes and
  corpus stay apart; counters agree; nothing is lost when a client dies.
* Sequences: whatever is executed or kept is valid and fits the schema;
  completion ends and does no more than needed.
* Executors: a sequence is interpreted as written; every byte is used once; no
  assertion of the interpreter fails for an input that is valid; no hit is lost.
* Inference: what an entry says admits what was declared; the schema and the
  endpoints agree, through the file and into the worker; the order in which
  entries are met does not matter; the rewritten library leaves behind what the
  library does, within what the rewriting takes for granted.
* Campaign and post-processing: the rows satisfy the checks made of them, are
  in the database once, and catch up with the clients.
* Evaluation: a stored count is how often the arm ran, its path held whenever
  it ran, a counter tells it apart, and a comparison shows what is new.

`PROJECT.json` lists every hazard at its line with the properties that would
catch it.

## 2. Modules

| module | what it models | state and code |
|---|---|---|
| `Worker` | one client and its children | `pc`, `proc`, `last`: `Worker` and where `invoke` is; `child`: processes; `task`, `job`, `left`: the handler that runs, and leftovers; `stdin`/`got`: fragments in the pipe and in `_recvBuf`; `stdout`: answers in the pipe; `valid`: `ShMemView.is_valid`; `ended`: history variable, the last run that came to its end |
| `Harness` | what LibAFL's executor is promised | `phase`, `call`, `last`, `ended` |
| `Feedback` | the feedbacks of one client and the state its successors inherit | the histories, counters, `corpus`, `solutions`; `edges` (feedback object), `total` (shared memory), `instr` (child) |
| `ApiSeq` | generation, completion and mutation of sequences | `seq` and `worklist`: the sequence being made; `limit`: `max_len`; `corpus` |
| `DataProvider` | `FuzzedDataProvider`, as operators | a provider is `data` with the two ends that were reached |
| `Executor` (extends `DataProvider`) | an input run by the worker in either mode | `fdp`, `seq`, `at`, `objects`: the locals of `interpret`; `shm`, `edges`: what the client sees; `used`, `passed`, `hit`: history variables |
| `Guess` | type guesses and the built-in entries of every schema | records; probabilities in thousandths |
| `Merging` (extends `Guess`) | unions and intersections of guesses, and what the fuzzer reads in one | operators, recursive over types |
| `Reflection`, `Readers` | the loaded library and its endpoints; what the comparison counts and asserts | operators |
| `Loading` (extends `Reflection`, `Readers`) | a schema joined with a library's endpoints, written, and loaded by the worker, whatever prepared it | `stage`, `round`, `todo`, `st` (schema and endpoints), `saved`, `files` |
| `Derive`, `Syntest` | schemas from declarations and from static analysis | operators |
| `Transform` | the rewriting before the static analysis, and what a program of the statements it rewrites leaves behind (external) | operators |
| `Inference` (extends `Loading` and these) | `railcar-infer` in each mode, the worker, the comparison | those of `Loading`; `source`, `entries`, `builtins`, `memo`, `rows` |
| `Campaign` | clients, broker and monitor, launches | `st`, `out` (messages), `seen`, `writer`, `csv`, `panics` |
| `PostProcess` (extends `Campaign`) | the scripts over the results | `step`, `skip`, `errors`, `db`, `stats` |
| `Source` | JavaScript's trees and how control moves (external) | a file is a sequence of nodes; `Tree` and `Grammar` say what the parser guarantees of one |
| `Branches` (extends `Source`) | arms, paths, functions, counts | `Visit`: one step of the shared traversal |
| `Hits` (extends `Branches`) | dumps, merge, join, counters | |
| `Lcov` | lcov files, their difference, the report | |
| `Coverage` (extends `Hits`, `Lcov`) | extraction, replays, conversion, comparison | `extract`, `db`; `at`, `frame`, `outcome`, `seen`: a process; `dumps`, `ran`; `rows`, `report` |
| `MC*` | instances for TLC | |
| `Worker_proofs` (of `Worker` and `Loading`), `Feedback_proofs`, `ApiSeq_proofs`, `Executor_proofs`, `PostProcess_proofs`, `Coverage_proofs`, `Counts_proofs` (extends `Coverage_proofs`) | theorems about the components | |
| `Inductions` | facts about natural numbers, functions defined step by step, greatest and least elements, sums, sequences | |

**Worker.** One action per step at which another party may interfere: the
client writes, reads, waits, spawns; Node reads some of what is in the pipe and
handles it if it is exactly one message; the target finishes, throws, dies,
hangs, writes to standard output, or leaves work behind that may do the same
later. A message that carries an input arrives in up to two pieces, and `Read`
takes any amount of what was written, so splitting and joining of messages both
happen. `decode` fails in the same way for missing and for surplus bytes, as in
the code. The timer (`Timeout`) may fire in any phase in which the harness
runs. The client's death takes its child along (`PR_SET_PDEATHSIG`).

**Harness** is abstract: begin, the target's run ends, a verdict is returned,
the client comes up or goes down. `Worker` maps to it through `PhaseOf`.
`ImplementsHarness` is the whole of it, fairness of `Return` included.

**Feedback** reduces an execution to what the observers show: any coverage map,
any validity, any exit kind, restricted only by what `Worker` guarantees (an
`Ok` run is valid and its child was not replaced). Deaths of the client may
happen with any coverage and either validity. LibAFL's map feedback is modelled
from how the code uses it: compare in `is_interesting`, merge in
`append_metadata`, which is called for kept inputs only. `CorpusErrors` and
`CrashErrors` are the checks that `post-process.ts` makes of the files.

**ApiSeq** takes from the schema only what this code asks of it: which
endpoints produce something assignable to a guess, which guesses can be
constants, and which constants can be sampled. The random number generator is
nondeterminism. Completion is one action per argument, because its loop may be
long. UUIDs are IDs that occur in no sequence at hand.

**Executor.** Sequences are those that `is_valid` accepts, an empty one included
(crossover makes them). A constant is made level by level of its type
(`constant`), types nest at most `MaxDepth` deep. The target of a call may import modules (`Load`) and hit edges
(`RecordHit`) until it returns or throws; a `bytes` target reads its input
through any calls of the provider in any order. A computed double is an integer
that counts the smallest double, and every operation on doubles gives the
double nearest to its exact result (`Rounded`). The oracle judges failures of
the interpreter like those of the target, as in the code.

**Loading** is what the modes of `railcar-infer` and the worker have in common.
A schema is prepared in any way that keeps the conventions of methods and
constructors, joined with the library's functions (`loadSchemaFromObject`, one
action per reference), refined in any way that leaves receivers and classes
alone (`Refines`), validated and written; the worker joins what was written
with the library. A library has two images: what importing it gives
(`original`), and what importing its rewritten text gives (`rewritten`). In the
mode `syntest` `railcar-infer` imports `<file>.transformed.js`
(`syntest-infer.ts:221,244`), so that `ImageFor` is the rewritten one there; the
worker and the other modes see the original. `Loading` is the abstract
specification of `Inference`. It says nothing of types and leaves the relation
of the two images open, so that it can be proved about.

**Transform** has both traversals of `program-transform.ts` for the statements
of a module: an anonymous function or an arrow assigned to a property becomes an
ordinary declared function, generators included; patterns become constants,
which lose rests, defaults and what is nested; objects become assignments of
their properties with an identifier as the key, in brackets or not, and one that
is assigned loses all others. `Outcome` is what the language makes of such a
program: values at paths, constants, exceptions. Values are compared by their
structure; that two names share an object is not told.

**Inference** fills in where a schema comes from: one action per export,
reference, statement or entry that the code handles in turn. What is loaded is
the `Import` of the program itself or of the one `TransformStatement` has put
together. The checker, the
analysis and Babel are external: their results are the constants of a library.
Static inference may meet its entries in any order. The run `inference` checks
that it implements `LoadingSpec`.

**Campaign.** A client's messages are handled one at a time and interleave with
other clients'; a heartbeat may fall between them. A client waits for the
broker before its next execution, which loses no interleaving: it only reads
what others found. `Dies` is a timeout or a panic, in which only the objective
is judged. `logs.txt` is appended to, so a panic stays; whether a launch ran
for its whole time is read from logs and is any.

**Coverage.** `Source` gives trees and the control flow of the language; a
process loads the file and calls its functions, and its counts are what V8
sees. V8's dump is modelled from the comments of `v8-to-canonical.ts`: nested
half-open ranges, a continuation after whatever control may not come out of at
its end, no range that counts like the range around it. Calls that throw inside expressions, hoisting, and block
ranges of logical operators beyond their right operand are abstracted.

## 3. Runs

| run | question | result |
|---|---|---|
| `worker` | Do verdict, validity flag, pipes and children fit together whatever the target does; does the client implement `Harness`, liveness included; does `terminate` return unless the child hangs? | holds |
| `worker_timerless` | Does every invocation end without the timer if inputs end and leftovers do not write? | holds |
| `worker_wedge` | Is what `_recvBuf` keeps always an incomplete message? | violated |
| `feedback` | Do histories, counters, corpus and solutions agree across restarts, and satisfy the checks of the post-processing? | holds |
| `feedback_edges` | Is the number of instrumented edges non-decreasing while a client lives? | violated |
| `apiseq` | Is everything that is executed and kept valid, typed, completed without waste, and does completion end? | holds |
| `executor` | Are sequences interpreted as written, bytes used once, values as promised, hits seen? | holds |
| `inference` | Are schemas well-formed, do they admit what was declared, do the worker and the scripts read what was written, does the rewriting keep what it should, and does each mode implement `LoadingSpec`? | holds |
| `inference_collision` | Is a method kept when a static method has its name? | violated |
| `campaign` | Do the monitor's rows satisfy the checks, once in the database, and catch up with the clients? | holds |
| `coverage` | Are arms, counts, paths, counters, per-function metrics and comparisons true of what ran? | holds |
| `coverage_merge` | Has an arm that ran in some process of a run a hit? | violated |

### The violated ones

* **worker_wedge.** `worker.ts:248` and `:160` take every `RangeError` for an
  incomplete message. The target writes garbage to standard output, the parent
  stops waiting for the answer and writes `Terminate` right behind an `Invoke`
  the child has not read. Read together they never decode. The parent's
  `waitpid` only ends with the timer, which ends the client.
  `worker_timerless` shows that this needs garbage while the child is not
  running an input: with leftovers that cannot write, no timer is needed.
* **feedback_edges.** "total number of instrumented edges must not decrease"
  (`feedback.rs:226`) compares a number that restarts with every child with one
  that lives as long as the client; after a restart of a child that had loaded
  a module lazily the client ends with an error.
* **inference_collision.** "Keep the method" (`reflection.ts:196-199`): the
  schema does keep it, but by then the endpoint is the static function.
* **coverage_merge.** Merging adds identical ranges only, while V8 leaves out
  the ranges that count like the one around them: an arm one process never ran
  and another ran every time keeps the count 0.

### Exceptions the properties name

Each was met as a counterexample, and is stated in the comment of the property:

* `terminate` (`worker.rs:313`) does not return while leftover work keeps the
  child busy for ever; `TerminateReturns` excepts a hung child.
* "seq must have at least one call" (`seq_integration.rs:144`, after twenty
  mutations): the removing mutators keep to it, Crossover's cut points may leave
  nothing. No property demands it; an empty sequence is executed as any other.
* `consumeBigIntegral` (`FuzzedDataProvider.ts:125`) may read more bytes than it
  was asked to when the range exceeds what a double holds exactly.
* `consumeFloatInRange` and `consumeDoubleInRange` promise a number "in the
  range [min, max]" (`FuzzedDataProvider.ts:200,239`). `result + range * prob`
  rounds: `consumeDoubleInRange(-0.1, 0.2)` on bytes that are all `0xff` returns
  0.20000000000000004. `AsPromised` allows three units in the last place of the
  larger bound beyond `max`, and nothing below `min`.
* `module.exports = function () {}` is declared as `___railcar_anon_func_0___`
  by the rewriting and called so in the schema of the mode `syntest`; in the
  library the worker loads it has no name, so that the worker drops the entry,
  and a schema is not always idempotent as `check-schemas.test.ts:9` has it. A
  library whose rewritten text throws fails to be analysed at all. `LoadKeeps`
  promises that no entry is lost and no assertion fails where the two images
  have the same names (`Alike`); that schema and endpoints of the worker agree
  it promises of all libraries. `EndpointsCompare` has the same exception.
* `analyze-api-surface.ts:87-88` asserts that all modes have found equally many
  endpoints. A library that exports what it does not declare has fewer in the
  mode `decl`, and the script stops. `SurfacesCompare` says that it goes on
  where the modes have the same endpoints, and that nothing but the totals can
  stop it.
* The rewriting changes what a program means beyond what `Rewritable` allows:
  methods, spreads and keys in quotes are lost when the object is assigned
  (`module.exports = {m() {}, ...rest, 'k': v}`); a key in brackets is taken for
  its name; a variable declared by a pattern becomes a constant; rests,
  defaults and nested patterns are lost, as are the other declarators of the
  statement; arrows become ordinary functions, and a generator one that does
  not parse. `TransformKeeps` is about programs without these, and the checked
  libraries have each of them once.
* `valid_corpus <= corpus` fails for a row written between the two messages of
  one input.
* A construct that ends exactly where the arm around it ends has no range of
  its own after it. An arm that is a function itself (`a ? () => 1 : b`) is
  looked up by its extent, and gets the number of the function's calls. An
  operand in the test of a loop is evaluated at every turn; without a range of
  its own it counts like the arm around the loop.
* A class declared with a lower-case name is a constructor for the declarations
  but not for dynamic analysis, which then has fewer endpoints
  (`EndpointsCompare`).
* Functions that share a name overwrite each other in `lcov-diff`.
* `opts = {a: opts.a}` and patterns that assign what they read change meaning
  when they are rewritten; `TransformKeeps` excepts them, too.

### Bounds, and why they are enough

* `Pids` = 2: the client holds one child; the second identifier is its
  replacement, and the first becomes free when it was waited for. Nothing in
  the code compares identifiers of more than two processes.
* `MaxCalls` (Worker) = 3: the input before, the one that fails, and the one
  after. `MaxNoise` = 2 unread messages: one before and one behind an answer.
  `CHECK_DEADLOCK FALSE`: a client that has terminated stops, and one that
  waits for a hung child after its last input does, too.
* `Target` and `Stray` are sets of what the target and its leftovers may do:
  the runs differ in them, and each says which behaviours its result needs.
* Feedback: two edges and two hit count classes tell "more hits", "another
  edge" and "both" apart; four executions let an input be novel, old, invalid
  and crashing in any order, with a restart anywhere. The edges are
  symmetric. `CHECK_DEADLOCK FALSE`: the model stops at `MaxExecs`.
* ApiSeq: three sequences in the corpus, `MaxSeqLen` 2 in place of 15: calls
  that are needed and extensions make sequences of three and more, so that the
  limit is reached and passed. Four endpoints cover a constructor, a method, a
  class nobody produces and an endpoint that is not the library's. Twelve IDs
  are more than a behaviour uses: sixteen give the same states.
* Executor: bytes of two bits, doubles of three bytes with four exact bits and
  buffers of four bytes in place of eight bits, eight bytes and 53 bits: every
  reader meets an empty, a short and a sufficient buffer, and ranges of no, one
  and more bytes. `Fraction` 6 and `MaxDouble` 240: 1.0 is 64 times the smallest
  double, so that spacings of one to sixteen occur; `MaxFloat` 64 makes one range
  be split. One range has a width that is no double, the range from 0 to 1.0
  shows probabilities as they are. `RoundingErrors` = 3 units bounds what the
  rounding adds; the run meets values above `max`. A number beyond `MaxDouble`
  stands for Infinity. `HitLimit` 1 stands for 255: every further hit is a wrap.
  `MapSize` 2 with three edges: two of them share a counter. `MaxDepth` 2 is an
  array within an object.
* Inference: seven libraries of a few exports that between them use every
  construct: `Parser` is analysed in all modes and exports more than it
  declares, `Matched` what it declares, so that the comparison runs to its end;
  `Tangled` has every construct the rewriting loses; the rewritten text of
  `Level` throws and that of `Steps` does not parse; `NoName` exports an
  anonymous function, `Sharp` a class with declarations of `export =`.
  `MaxProperties` 2 and `MaxMappingDepth` 2 are exceeded by one of them.
  `MaxTypeDepth` 6 is passed by the recursive types.
* Campaign: two clients (symmetric), two directories, two executions,
  heartbeats, launches and posts shared among them: two messages of two clients
  interleave with a beat, a launch meets the rows of an earlier one, a
  processing meets the database of an earlier one. `CHECK_DEADLOCK FALSE`: the
  model stops at the bounds.
* Coverage: eight files that between them nest every construct of the traversal
  in each other; two calls, two turns of a loop, two dumps. Runs are symmetric.
  `CHECK_DEADLOCK FALSE`: the evaluation ends.

### Fairness

* The steps of the client (`ClientFairness`) are those of a running thread that
  does not wait for anything but what the guards say. `Invoke` and `Terminate`
  have none: the fuzzer may end.
* Node (`NodeFairness`) serves its event loop as long as synchronous code does
  not keep it: pending input is read, and `init` ends. The end of the target's
  run (`Finish`) is only fair in `TimerlessSpec`, which asks what holds if
  inputs end.
* `Timeout` is fair in `FairSpec`: LibAFL arms a timer before each run.
* Completion is a loop of one thread that waits for nothing (`WF(Completion)`).

The other specifications are of safety: what they promise is about what is
written whenever it is written.

## 4. Proofs

All are proved by `tlapm` for every value of the constants, under the named
assumptions of the modules only:

* `Worker`: `PidsAssumption`, `BoundAssumption`, `TargetAssumption`; `Feedback`:
  `ClassesAssumption`, `EdgesAssumption`: bounds are natural numbers, the
  process that is none is not one of the identifiers.
* `ApiSeq`: `ApisAssumption`, `SigAssumption`: signatures are sequences of
  types; `SamplesAssumption`: every type has something it can be sampled as;
  `BoundsAssumption`: natural bounds, finitely many IDs (in a behaviour: UUIDs).
* `Executor`: `WidthAssumption` (the widest ordinary integral is exact in a
  double, as 6 bytes are in 53 bits, and a probability is no wider than it),
  `LargestAssumption` (the largest numbers are beyond those spaced like the
  smallest double),
  `BoundsAssumption` (lengths can be read as an ordinary integral),
  `BuffersAssumption`, `ReadsAssumption` (a target calls readers with arguments
  of their declared types, no widths of zero bytes where the code divides by
  it), `SeqsAssumption` (sequences as `ApiSeq_proofs` shows them to be).
* `Reflection`, `Loading`: `ReflectionAssumption` (natural bounds),
  `LoadingAssumption`: an image's values refer to values of the image, functions
  have a name and a number of parameters, and a library itself can be imported.
* `Campaign`, `PostProcess`: `CampaignAssumption`, `PostAssumption`: finitely
  many clients and edges, natural bounds.
* `Coverage`: `CoverageAssumption`: natural bounds, and files are trees (`Tree`:
  one root, parents before their children) of the grammar (`Grammar`: which
  slots the children of a construct have, that functions and handlers have a
  body and operations one left operand, which is no function) and of the shape
  a parser gives them (`Shape`: parts in the order of the text, statements where
  statements stand, constructs with the parts they need); finitely many runs.
  `Shape` leaves out returned values, defaults of parameters and what a loop
  runs over (`Slots`): "every file" and "every tree" in the theorems are those
  trees.

TLC evaluates each of them for the instance of every run.

**Worker_proofs, of Worker.** `TypeCorrect`, then `Invariant`: the inductive invariant is
`Inv == TypeOK /\ ConversationOK`. The safety properties alone are not
inductive: that an unread answer belongs to the current invocation depends on
where the input is. `ConversationOK` says for every phase of the client what
may be undecoded in the pipe, whether the child runs, and whether it has
answered: the input is in at most one of these places. Each action is one
lemma. `AtMostOneChild`, `NoAnswerIsStale`, `OkIsTrue`, `ValidityIsAttributed`,
`PipeIsCleanWhenIdle`, `HandlersDoNotOverlap` follow from it, and
`RefinesHarness`: every step of `Worker` is one of `Harness` or a stutter.

**Feedback_proofs.** `TypeCorrect`, then `KeptInvariant`. Its four conjuncts
need each other: what is novel to a history is novel to all that was kept for
it (`NovelAdds`) because the history is witnessed. From it
`HistoriesAreWitnessed`, `ValidStaysBelowTotal`, `CrashesStayApart` and
`NothingIsKeptTwice`; `NothingIsForgotten` (an action property) and
`StatisticsAgree`, which counts the valid entries of the corpus, need only the
types.

**ApiSeq_proofs.** `IInv` says that every kept sequence is whole and sound, the
one that is made is sound (well-formed, no ID twice, every argument that is
there fits and names an earlier call: `Sound`), and that every call with a
missing argument is on the worklist (`WorkInv`), in every phase.
Soundness has to be stated of incomplete sequences: the mutators cut, splice
and rename sequences first and complete them afterwards, so each operator of
`seq.rs` and `mutations.rs` has a lemma that it keeps `Sound`, or what it adds
to the worklist. `InputsAreValid`, `NeverPanics`, `ArgumentsAreTyped` and
`WorklistIsComplete` follow; `GrowthForced` is an action property.

**Executor_proofs.** A method of `FuzzedDataProvider` maps a provider into
`UsedUp(p)`: results that read exactly the bytes that are no longer in the
window. It is proved of each reader, of reads in turn (`InTurnFacts`,
`RepeatFacts`) and of constants, by induction over the depth of their type
(`ConstantFacts`, which also shows that no constant throws). `Kept` adds the
promise of range, length and distinctness; `PerformKept` covers all readers.
The ordinary reader adds up weighted bytes from the least significant one, the
big one shifts them in from the most significant one: `SameDigits` shows these
to be one number, whence `SameRange`. Of the rounding to doubles it is proved
that it keeps the order whatever the exponents (`NearestMonotone`), leaves
doubles alone (`NearestExact`) and errs by half a unit (`RoundedError`). So a
probability is at most 1.0, a product at most the range, and what each operation
may add is bounded in units of the larger bound, also where the range is halved,
whose units are far below that bound's. The invariant (`UsedInv`, `CallsInv`,
`HitsInv`) relates the latest read to the provider before it, the results filed
to the calls before `at`, and counters to hits. `ReadsOnce` (an action property),
`ReadsPromised`, `CallsHold` and `HitsHold` follow.

**Worker_proofs, of Loading:** the schema the worker loads when it starts. The
references of a library come in an order (`Refs`), each with the items it is
mapped to, names and the conventions they admit, which may be others for the
rewritten library than for the original. Images that are `Alike` have the same
references and items (`AlikeRefs`, `AlikeItems`). `LoadingInv` says what schema and endpoints
have in common after each reference (`Partly`): an item met whose name the
schema has also has an endpoint, and the entry one of its conventions; an
endpoint is a built-in or such an item; where nothing was known before, every
item met has an entry. At the end of the mapping the schema is `Joined`: it
agrees with the items (`Agrees`), names only items (`Reached`), all of them in
dynamic analysis (`Complete`). `LoadKeeps` alone is not inductive: that loading
fails no assertion depends on the conventions of entries that were written
several stages earlier. `Refines` keeps `Joined`. What the worker loads it with
any image, it ends with entries that all have an endpoint and were written
(`LoadedAtEnd`); if the image is the one the schema was joined with, or one like
it (`Faithful`), the loading finds each entry again (`AllIsLoaded`,
`LoadDoesNotFail`), because what is joined with an image is joined with all
alike (`JoinedWithOriginal`). `LoadKeepsHolds`,
`ConventionsHoldAlways` and `EndpointsCompareAlways` (the part of
`SurfacesCompare` that is about endpoints) follow.

**PostProcess_proofs.** `IInv == CampaignInv /\ PostInv`. What the monitor shows
of a client is never more than what the client counted, and for every statistic
it is either the same or a message with the current value is on its way
(`Known`); the messages of an execution come in an order (`Rank`) in which
every prefix keeps the relations between the columns, but that of `validcorpus`
and `corpus`. The last row of a running launch is below what the monitor shows
(`DirsInv`). `PostInv` adds
that the database consists of blocks, each a directory's rows in order
(`Holds`). `MonitorIsExact`, `ChecksPass` and `ImportIsExact` follow.

**Coverage_proofs.** The traversal's state is determined by the
place it is at (`Extracting`): the function stack is the functions of the path
from the root, the tables are those of the nodes reached, and lists are only
reversed below the place, so that what is reached is the same set for the
reversed tree. From it `Attribution`. `CallInv` says that the guard of every
node between the frame and the control held when it was last tested
(`Guarded`), each kind of step of the language keeping it: `Paths`. `SeenInv`
counts an operation like its left operand, which is why the counter of the
enclosing arm stands for it: `Counters`.

Reports are read line by line: a text continues the reading of the text before
it (`Reads`), what `FormatLcov` writes of a file is read as that file
(`ReadsFile`), and so c8's text of a run as the run's counts (`LinesRead`).
`Picked` keeps each place of a list once and in order (`PickedFacts`), which
gives the difference file by file (`DiffFacts`) and what its report shows
(`CompareShows`). With `ResultsInv` (the runs' counts are typed, there are none
before the first dump, and nothing runs once a report is made): `Differences`.

**Coverage_proofs, then Counts_proofs:** `Hitcounts` (`CountsFollow`) is the
longest argument. First, the text: extents nest like the tree (`TextFacts`), so
do the ranges of a function's dump, gaps behind constructs included
(`RangesNested`). Second, control: what leaves a node enters exactly one other,
so that counts are conserved from one statement to the next; `FlowInv` states
it with the one transition that is under way (`Once`), each kind of step
keeping it (`Flow`), and in an idle process it is `Follows`. Third
(`Counts_proofs`), the innermost of all ranges that cover a node, or the point
behind a construct, has the count of that node (`Levels`); leaving out ranges
that count like the one around them changes the count found nowhere (`Kept`),
and neither do functions that were never defined or that lie in each other
(`DumpAnswersAll`). Fourth, the order in which the join prefers ranges
(`Ahead`): what it finds is foremost in it (`JoinAnswers`), and what is
foremost in a merge was so in one of the two dumps, or in both with the counts
added (`MergeAnswers`), whence at most what ran. `TalliesInv` keeps this for
the dumps of every run, merged from the first to the last.

**Inductions.** The prover instantiates no operator parameters, so induction is
stated of sets (`LeastNatural`, from the library's well-founded induction, and
`Induction`). A recursively defined function is a CHOICE: `IterationTo` shows
that one exists for every length, after which its clauses can be used; sums,
greatest elements, digits and levels of types are reasoned about in this way.

The type invariants of `Worker` and `Feedback`, `ConversationOK`,
`ValidBelowTotal` and the invariants `IInv` are in no run: they are proved.

**Only model-checked:** everything temporal that needs fairness
(`ImplementsHarness` beyond its safety part, `TerminateReturns`,
`EndsWithoutTimer`, `CompletionEnds`), since the prover does not handle
ENABLED and fairness; what `Inference` says of types (`TypeOK`, `OverloadsFit`,
`MemoIsFresh`, `TransformKeeps`, the counts of `SurfacesCompare`), whose
recursion over types is by RECURSIVE operators, and with it that `Inference`
implements `LoadingSpec`.

## 5. Not modelled

* Bytes of messages and coverage keys, serialisation, logging, printed tables.
* LibAFL's scheduling, its power schedules and its broker's transport; the
  weight `scheduler.rs` multiplies by 1.0. An input imported from another client
  is executed like any other.
* Babel's printing, the TypeScript checker, SynTest's analysis, V8, c8:
  external, modelled by what the code relies on.
* `computePathCNF` and its helpers: `USE_CNF_CONVERSION` is false. Statistics of
  a path's text in `make-metrics-db.ts`.
* The reporter opens the metrics file as an SQLite database, while the fuzzer
  writes CSV: it stops before it serves anything.
* The Rust tools merge and subtract Istanbul reports sequentially; the
  evaluation uses the TypeScript ones, which are modelled. The Python
  infrastructure starts containers and cluster jobs. Argument parsing.
* Floating-point sampling (`rng.rs`): guesses are checked to be ones it can
  sample, the choice itself is nondeterminism.
* A schema in which producing a class needs an object of that class makes
  completion run on: the model checks well-founded schemas only.

## 6. Plan

What is left, in order of importance.

1. `Client`: `Worker` composed with `Feedback`, so that the observers show what
   the worker wrote; the order of timeout, objective, save and respawn.
2. `ApiSeq`'s constants instantiated from a schema of `Guess`.
3. `Merging` with recursive functions in place of RECURSIVE operators, for
   lemmas about it.
