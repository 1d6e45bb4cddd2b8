------------------------------- MODULE Worker -------------------------------
(***************************************************************************)
(* One fuzzing client and its Node worker: the harness that sends an input *)
(* to the worker and turns the answer into an exit kind (fuzzer/src/       *)
(* worker.rs), and the worker's message loop (worker/worker.ts).           *)
(*                                                                         *)
(* The client owns at most one child process at a time (`proc') and talks  *)
(* to it over two pipes.  The target library runs inside the child and may *)
(* finish, throw, loop forever, kill the process, write to standard output *)
(* or leave work behind that runs after the answer was sent.  The LibAFL   *)
(* timer kills the whole client, whose supervisor then starts a new one.   *)
(***************************************************************************)
EXTENDS Naturals, Sequences, FiniteSets

CONSTANTS
  Pids,      \* process identifiers the operating system hands out
  NoProc,    \* "this client has not spawned a child yet"
  MaxCalls,  \* bound: invocations of the harness in a behaviour
  MaxNoise,  \* bound: unread messages on a child's standard output
  Target,    \* what the target may do to its process while a handler runs
  Stray      \* what work an input left behind may do to it afterwards

Mischief == {"chatter", "die", "hang"}

ASSUME PidsAssumption  == NoProc \notin Pids
ASSUME BoundAssumption == MaxCalls \in Nat /\ MaxNoise \in Nat
ASSUME TargetAssumption == Target \subseteq Mischief /\ Stray \subseteq Mischief

VARIABLES
  pc,      \* where the client is (see Phases)
  call,    \* serial number of the latest invocation
  proc,    \* Worker.proc: the child the client talks to
  last,    \* the latest verdict of the harness: [call, kind]
  valid,   \* ShMemView.is_valid
  child,   \* life cycle of every process: see Lives
  task,    \* what the child's handler is doing: "none", "init" or "run"
  job,     \* serial number of the invocation the child runs
  left,    \* TRUE iff earlier inputs left asynchronous work in the child
  stdin,   \* to the child: fragments written and not yet decoded
  got,     \* how many of them the child has read: the rest is in the pipe
  stdout,  \* pipe from the child: messages written and not yet read
  ended    \* the last invocation a child ran to its end: [call, ok, valid]

parent == <<pc, call, proc, last>>
node   == <<child, task, job, left, got>>
vars   == <<parent, valid, node, stdin, stdout, ended>>

(* "starting" is init_child_process inside Worker::new, "restarting" the   *)
(* same inside a running invocation.  "down" is a client process that has  *)
(* not started yet, or died and is about to be respawned; "failed" is one  *)
(* that will not be.                                                       *)
Phases == {"starting", "idle", "awaiting", "stopping", "restarting",
           "returned", "terminating", "down", "failed", "done"}

(* The phases in which the LibAFL timer is armed: the harness is running.  *)
InHarness == {"awaiting", "stopping", "restarting"}

(* "hung" is a process stuck in synchronous code: alive, it never returns  *)
(* to its event loop.  "dead" is a zombie until the client waits for it.   *)
Lives == {"none", "up", "hung", "dead"}
Alive(p) == child[p] \in {"up", "hung"}

-----------------------------------------------------------------------------
(* Messages.  An answer carries the serial number of its invocation and    *)
(* its validity only so that properties can speak of them.                 *)

Requests == [type : {"Init", "Terminate"}, call : {0}]
              \cup [type : {"Invoke"}, call : 1..MaxCalls]
Replies  == [type : {"InitOk", "Noise"}, call : {0}, ok : {TRUE}]
              \cup [type : {"InvokeOk"}, call : 0..MaxCalls, ok : BOOLEAN]

Request(type, c)   == [type |-> type, call |-> c]
Reply(type, c, ok) == [type |-> type, call |-> c, ok |-> ok]

(* A pipe delivers an Invoke, which carries the input, in two fragments    *)
(* that may arrive apart; the other requests are small.                    *)
Frags(m) ==
  IF m.type = "Invoke" THEN <<[msg |-> m, part |-> 1], [msg |-> m, part |-> 2]>>
                       ELSE <<[msg |-> m, part |-> 1]>>

(* msgpack's decode: a RangeError, which recv takes for "incomplete", both *)
(* when bytes are missing and when bytes follow a whole message.           *)
Decodes(buffer, m) == buffer = Frags(m)

-----------------------------------------------------------------------------
(* The client.                                                             *)

(* Child::spawn and the Init message of init_child_process, with fresh     *)
(* pipes.  `others' is the state of the processes just before.             *)
Spawn(others) ==
  \E p \in {q \in Pids : others[q] = "none"} :
    /\ proc'   = p
    /\ child'  = [others EXCEPT ![p] = "up"]
    /\ task'   = [task EXCEPT ![p] = "none"]
    /\ job'    = [job EXCEPT ![p] = 0]
    /\ left'   = [left EXCEPT ![p] = FALSE]
    /\ got'    = [got EXCEPT ![p] = 0]
    /\ stdout' = [stdout EXCEPT ![p] = <<>>]
    /\ stdin'  = [stdin EXCEPT ![p] = Frags(Request("Init", 0))]

(* send: a write to a pipe nobody reads any more fails with EPIPE.         *)
Sends(m) ==
  stdin' = IF child[proc] = "dead" THEN stdin
                                   ELSE [stdin EXCEPT ![proc] = @ \o Frags(m)]

Verdict(kind) == last' = [call |-> call, kind |-> kind]

(* The harness's recv fails when the child's output is exhausted and       *)
(* closed, or when what it holds is not the expected message.              *)
RecvFails(expected) ==
  IF stdout[proc] = <<>> THEN child[proc] = "dead"
                         ELSE Head(stdout[proc]).type # expected

RecvOk(expected) ==
  /\ stdout[proc] # <<>>
  /\ Head(stdout[proc]).type = expected
  /\ stdout' = [stdout EXCEPT ![proc] = Tail(@)]

(* Worker::new of a fresh client: new shared memory, new child.            *)
Start ==
  /\ pc = "down"
  /\ pc' = "starting"
  /\ valid' = FALSE
  /\ Spawn(child)
  /\ UNCHANGED <<call, last, ended>>

StartOk ==
  /\ pc = "starting"
  /\ RecvOk("InitOk")
  /\ pc' = "idle"
  /\ UNCHANGED <<call, proc, last, valid, node, stdin, ended>>

(* Worker::new returns an error: the client process ends, and with it its  *)
(* child (PR_SET_PDEATHSIG).                                               *)
StartFails ==
  /\ pc = "starting"
  /\ RecvFails("InitOk")
  /\ pc' = "failed"
  /\ proc' = NoProc
  /\ child' = [p \in Pids |-> "none"]
  /\ UNCHANGED <<call, last, valid, task, job, left, stdin, got, stdout, ended>>

(* Mutant of Invoke: the observers keep the previous input's validity.     *)
InvokeKeepsValidity ==
  /\ pc = "idle"
  /\ call < MaxCalls
  /\ call' = call + 1
  /\ Sends(Request("Invoke", call + 1))
  /\ pc' = IF child[proc] = "dead" THEN "stopping" ELSE "awaiting"
  /\ UNCHANGED <<proc, last, valid, node, stdout, ended>>

(* The executor resets the observers (an input is valid unless we learn    *)
(* otherwise) and calls invoke, which writes the input to the child.       *)
Invoke ==
  /\ pc = "idle"
  /\ call < MaxCalls
  /\ call' = call + 1
  /\ valid' = TRUE
  /\ Sends(Request("Invoke", call + 1))
  /\ pc' = IF child[proc] = "dead" THEN "stopping" ELSE "awaiting"
  /\ UNCHANGED <<proc, last, node, stdout, ended>>

(* throwing_invoke returns the child's answer.                             *)
Answer ==
  /\ pc = "awaiting"
  /\ RecvOk("InvokeOk")
  /\ Verdict(IF Head(stdout[proc]).ok THEN "Ok" ELSE "Crash")
  /\ pc' = "returned"
  /\ UNCHANGED <<call, proc, valid, node, stdin, ended>>

(* Mutants of NoAnswer: the failure is reported at once, without a new     *)
(* child; the child is not asked to terminate before it is waited for.     *)
NoAnswerGivesUp ==
  /\ pc = "awaiting"
  /\ RecvFails("InvokeOk")
  /\ Verdict("Crash")
  /\ pc' = "returned"
  /\ UNCHANGED <<call, proc, valid, node, stdin, stdout, ended>>

NoAnswerOnlyWaits ==
  /\ pc = "awaiting"
  /\ RecvFails("InvokeOk")
  /\ pc' = "stopping"
  /\ UNCHANGED <<call, proc, last, valid, node, stdin, stdout, ended>>

(* throwing_invoke fails; restart_child_process begins by asking the child *)
(* to terminate.                                                           *)
NoAnswer ==
  /\ pc = "awaiting"
  /\ RecvFails("InvokeOk")
  /\ Sends(Request("Terminate", 0))
  /\ pc' = "stopping"
  /\ UNCHANGED <<call, proc, last, valid, node, stdout, ended>>

(* Mutant of Restart: the old child is not waited for.                     *)
RestartAtOnce ==
  /\ pc = "stopping"
  /\ Spawn(child)
  /\ pc' = "restarting"
  /\ UNCHANGED <<call, last, valid, ended>>

(* waitpid returns and restart_child_process spawns the replacement.       *)
Restart ==
  /\ pc = "stopping"
  /\ child[proc] = "dead"
  /\ Spawn([child EXCEPT ![proc] = "none"])
  /\ pc' = "restarting"
  /\ UNCHANGED <<call, last, valid, ended>>

(* Mutant of RestartOk: a recovered invocation counts as a success.        *)
RestartForgives ==
  /\ pc = "restarting"
  /\ RecvOk("InitOk")
  /\ Verdict("Ok")
  /\ pc' = "returned"
  /\ UNCHANGED <<call, proc, valid, node, stdin, ended>>

(* The replacement is ready: the invocation that broke its predecessor is  *)
(* reported as a crash.                                                    *)
RestartOk ==
  /\ pc = "restarting"
  /\ RecvOk("InitOk")
  /\ Verdict("Crash")
  /\ pc' = "returned"
  /\ UNCHANGED <<call, proc, valid, node, stdin, ended>>

(* LibAFL reads the observers and runs the feedbacks on them.              *)
Evaluate ==
  /\ pc = "returned"
  /\ pc' = "idle"
  /\ UNCHANGED <<call, proc, last, valid, node, stdin, stdout, ended>>

(* The client process dies during an invocation and its child with it.     *)
Exit(kind) ==
  /\ Verdict(kind)
  /\ pc' = "down"
  /\ proc' = NoProc
  /\ child' = [p \in Pids |-> "none"]
  /\ UNCHANGED <<call, valid, task, job, left, stdin, got, stdout, ended>>

(* restart_child_process fails: the harness panics, and LibAFL's panic     *)
(* hook reports a crash.                                                   *)
RestartFails == pc = "restarting" /\ RecvFails("InitOk") /\ Exit("Crash")

(* Mutant of Timeout: the timer only guards the wait for an answer.        *)
TimeoutOfAnswer == pc = "awaiting" /\ Exit("Timeout")

(* The timer fires while the harness runs.                                 *)
Timeout == pc \in InHarness /\ Exit("Timeout")

(* Mutant of Terminate: the child is waited for, never told to end.        *)
TerminateOnlyWaits ==
  /\ pc = "idle"
  /\ pc' = "terminating"
  /\ UNCHANGED <<call, proc, last, valid, node, stdin, stdout, ended>>

(* Worker::terminate, after the last iteration: no timer runs any more.    *)
Terminate ==
  /\ pc = "idle"
  /\ Sends(Request("Terminate", 0))
  /\ pc' = "terminating"
  /\ UNCHANGED <<call, proc, last, valid, node, stdout, ended>>

Terminated ==
  /\ pc = "terminating"
  /\ child[proc] = "dead"
  /\ proc' = NoProc
  /\ child' = [child EXCEPT ![proc] = "none"]
  /\ pc' = "done"
  /\ UNCHANGED <<call, last, valid, task, job, left, stdin, got, stdout, ended>>

-----------------------------------------------------------------------------
(* The child.                                                              *)

(* handleMessage up to its first await.                                    *)
Handle(p, m) ==
  /\ child' = IF m.type = "Terminate" THEN [child EXCEPT ![p] = "dead"] ELSE child
  /\ task'  = CASE m.type = "Init"   -> [task EXCEPT ![p] = "init"]
                [] m.type = "Invoke" -> [task EXCEPT ![p] = "run"]
                [] OTHER             -> task
  /\ job'   = IF m.type = "Invoke" THEN [job EXCEPT ![p] = m.call] ELSE job

(* Mutant of Read: _recvBuf is not emptied once a message is decoded.      *)
ReadKeepsBuffer(p) ==
  /\ child[p] = "up"
  /\ \E n \in got[p] + 1 .. Len(stdin[p]) :
       \/ \E m \in Requests :
            /\ Decodes(SubSeq(stdin[p], 1, n), m)
            /\ Handle(p, m)
            /\ stdin' = [stdin EXCEPT ![p] = SubSeq(@, n + 1, Len(@))]
            /\ got' = got
       \/ /\ \A m \in Requests : ~Decodes(SubSeq(stdin[p], 1, n), m)
          /\ got' = [got EXCEPT ![p] = n]
          /\ UNCHANGED <<child, task, job, stdin>>
  /\ UNCHANGED <<parent, valid, left, stdout, ended>>

(* A 'data' event: some of what is in the pipe is appended to _recvBuf,    *)
(* and the buffer is handled if it is exactly one message.                 *)
Read(p) ==
  /\ child[p] = "up"
  /\ \E n \in got[p] + 1 .. Len(stdin[p]) :
       \/ \E m \in Requests :
            /\ Decodes(SubSeq(stdin[p], 1, n), m)
            /\ Handle(p, m)
            /\ stdin' = [stdin EXCEPT ![p] = SubSeq(@, n + 1, Len(@))]
            /\ got' = [got EXCEPT ![p] = 0]
       \/ /\ \A m \in Requests : ~Decodes(SubSeq(stdin[p], 1, n), m)
          /\ got' = [got EXCEPT ![p] = n]
          /\ UNCHANGED <<child, task, job, stdin>>
  /\ UNCHANGED <<parent, valid, left, stdout, ended>>

(* init succeeds and the schema is sent back.                              *)
InitDone(p) ==
  /\ child[p] = "up" /\ task[p] = "init"
  /\ task' = [task EXCEPT ![p] = "none"]
  /\ stdout' = [stdout EXCEPT ![p] = Append(@, Reply("InitOk", 0, TRUE))]
  /\ UNCHANGED <<parent, valid, child, job, left, stdin, got, ended>>

(* withOracle: the target returns (a valid run) or throws, and then the    *)
(* oracle decides whether the exception makes the run valid (a bug) or     *)
(* not.  The answer is sent; asynchronous work may be left behind.         *)
Finish(p, ok, isBug, leaves) ==
  /\ child[p] = "up" /\ task[p] = "run"
  /\ task' = [task EXCEPT ![p] = "none"]
  /\ valid' = (ok \/ isBug)
  /\ left' = [left EXCEPT ![p] = @ \/ leaves]
  /\ stdout' = [stdout EXCEPT ![p] = Append(@, Reply("InvokeOk", job[p], ok))]
  /\ ended' = [call |-> job[p], ok |-> ok, valid |-> (ok \/ isBug)]
  /\ UNCHANGED <<parent, child, job, stdin, got>>

(* What the target may do to its own process, while a handler runs or from *)
(* work an earlier input left behind.                                      *)
May(p, what) ==
  /\ child[p] = "up"
  /\ \/ task[p] # "none" /\ what \in Target
     \/ left[p] /\ what \in Stray

Die(p) ==
  /\ May(p, "die")
  /\ child' = [child EXCEPT ![p] = "dead"]
  /\ UNCHANGED <<parent, valid, task, job, left, stdin, got, stdout, ended>>

Hang(p) ==
  /\ May(p, "hang")
  /\ child' = [child EXCEPT ![p] = "hung"]
  /\ UNCHANGED <<parent, valid, task, job, left, stdin, got, stdout, ended>>

(* Bytes on standard output that are no message of the protocol.  Console  *)
(* output is redirected to standard error; direct writes are not.          *)
Chatter(p) ==
  /\ May(p, "chatter")
  /\ Len(stdout[p]) < MaxNoise
  /\ stdout' = [stdout EXCEPT ![p] = Append(@, Reply("Noise", 0, TRUE))]
  /\ UNCHANGED <<parent, valid, child, task, job, left, stdin, got, ended>>

LeftoverEnds(p) ==
  /\ child[p] = "up" /\ left[p]
  /\ left' = [left EXCEPT ![p] = FALSE]
  /\ UNCHANGED <<parent, valid, child, task, job, stdin, got, stdout, ended>>

-----------------------------------------------------------------------------
Init ==
  /\ pc = "down"
  /\ call = 0
  /\ proc = NoProc
  /\ last = [call |-> 0, kind |-> "None"]
  /\ valid = FALSE
  /\ child = [p \in Pids |-> "none"]
  /\ task = [p \in Pids |-> "none"]
  /\ job = [p \in Pids |-> 0]
  /\ left = [p \in Pids |-> FALSE]
  /\ stdin = [p \in Pids |-> <<>>]
  /\ got = [p \in Pids |-> 0]
  /\ stdout = [p \in Pids |-> <<>>]
  /\ ended = [call |-> 0, ok |-> TRUE, valid |-> TRUE]

Client ==
  \/ Start \/ StartOk \/ StartFails
  \/ Invoke \/ Answer \/ NoAnswer \/ Evaluate
  \/ Restart \/ RestartOk \/ RestartFails
  \/ Timeout \/ Terminate \/ Terminated

Node(p) ==
  \/ Read(p) \/ InitDone(p)
  \/ \E ok, isBug, leaves \in BOOLEAN : Finish(p, ok, isBug, leaves)
  \/ Die(p) \/ Hang(p) \/ Chatter(p) \/ LeftoverEnds(p)

(* A client that is done or has failed stays so.                           *)
Over == pc \in {"done", "failed"} /\ UNCHANGED vars

Next == Client \/ (\E p \in Pids : Node(p)) \/ Over

Spec == Init /\ [][Next]_vars

(* The client is a running process, and Node serves its event loop: unless *)
(* the target hangs or dies, pending requests are read and init ends.  The *)
(* target itself owes nothing: Finish has no fairness.                     *)
ClientFairness ==
  /\ WF_vars(Start) /\ WF_vars(StartOk) /\ WF_vars(StartFails)
  /\ WF_vars(Answer) /\ WF_vars(NoAnswer) /\ WF_vars(Evaluate)
  /\ WF_vars(Restart) /\ WF_vars(RestartOk) /\ WF_vars(RestartFails)
  /\ WF_vars(Terminated)

NodeFairness == \A p \in Pids : WF_vars(Read(p)) /\ WF_vars(InitDone(p))

(* The timer is armed by the operating system before every invocation.     *)
FairSpec == Spec /\ ClientFairness /\ NodeFairness /\ WF_vars(Timeout)

(* A target whose inputs all end, and no help from the timer.              *)
Finishes(p) == \E ok, isBug, leaves \in BOOLEAN : Finish(p, ok, isBug, leaves)
TimerlessSpec ==
  /\ Spec /\ ClientFairness /\ NodeFairness
  /\ \A p \in Pids : WF_vars(Finishes(p))

-----------------------------------------------------------------------------
(* Every variable stays in its set.                                        *)
Fragments == [msg : Requests, part : {1, 2}]

TypeOK ==
  /\ pc \in Phases
  /\ call \in 0..MaxCalls
  /\ proc \in Pids \cup {NoProc}
  /\ last \in [call : 0..MaxCalls, kind : {"None", "Ok", "Crash", "Timeout"}]
  /\ valid \in BOOLEAN
  /\ child \in [Pids -> Lives]
  /\ task \in [Pids -> {"none", "init", "run"}]
  /\ job \in [Pids -> 0..MaxCalls]
  /\ left \in [Pids -> BOOLEAN]
  /\ stdin \in [Pids -> Seq(Fragments)]
  /\ got \in [Pids -> Nat]
  /\ stdout \in [Pids -> Seq(Replies)]
  /\ ended \in [call : 0..MaxCalls, ok : BOOLEAN, valid : BOOLEAN]

(* Two attachments at most to the shared memory, the client's and one      *)
(* child's (shmem.rs): the only process that can still run is the current  *)
(* child of a client that is up, whatever crashes and restarts preceded.   *)
OneChild ==
  \A p \in Pids : Alive(p) => p = proc /\ pc \notin {"down", "failed", "done"}

(* An answer the client can still read belongs to the invocation in        *)
(* progress: no answer outlives the invocation that it answers, so a late  *)
(* one is never taken for the verdict on the next input.                   *)
NoStaleAnswer ==
  \A p \in Pids : \A i \in 1..Len(stdout[p]) :
    p = proc /\ stdout[p][i].type = "InvokeOk"
      => stdout[p][i].call = call /\ pc \in {"awaiting", "stopping"}

(* A run reported Ok was executed to its end, by the child, without an     *)
(* exception, and is reported valid.                                       *)
OkMeansCompleted ==
  pc = "returned" /\ last.kind = "Ok" => ended.call = call /\ ended.ok /\ valid

(* The validity flag the feedbacks read is the oracle's judgement of this  *)
(* very invocation, or "valid" when the child never got to judge it.       *)
ValidityAttributed ==
  pc \in InHarness \cup {"returned"}
    => valid = (ended.call = call => ended.valid)

(* handleMessage is not awaited, so two messages could be handled at once; *)
(* yet an input is only ever started in a child that is doing nothing.     *)
Starts(p) == task'[p] = "run" /\ (task[p] # "run" \/ job'[p] # job[p])
HandlersNeverOverlap == [][\A p \in Pids : Starts(p) => task[p] = "none"]_vars

(* While the client can start an invocation the child holds no fragment of *)
(* an earlier exchange: the next Invoke is decoded alone.                  *)
CleanWhenIdle ==
  pc \in {"returned", "idle"} => stdin[proc] = <<>> /\ got[proc] = 0

(* The state of the conversation between a client and its child, the       *)
(* inductive strengthening of the invariants above: an input is in at most *)
(* one place, undecoded, running, or answered and unread, and only while   *)
(* its invocation lasts.                                                   *)
Undecoded ==
  CASE pc \in {"starting", "restarting"} -> {<<>>, Frags(Request("Init", 0))}
    [] pc = "awaiting"    -> {<<>>, Frags(Request("Invoke", call))}
    [] pc = "stopping"    -> {<<>>, Frags(Request("Invoke", call)),
                              Frags(Request("Terminate", 0)),
                              Frags(Request("Invoke", call)) \o Frags(Request("Terminate", 0))}
    [] pc = "terminating" -> {<<>>, Frags(Request("Terminate", 0))}
    [] OTHER              -> {<<>>}

Holds(type) == stdin[proc] # <<>> /\ stdin[proc][1].msg.type = type
Said(type)  == \E i \in 1..Len(stdout[proc]) : stdout[proc][i].type = type
SaidOnce(type) ==
  \A i, j \in 1..Len(stdout[proc]) :
    stdout[proc][i].type = type /\ stdout[proc][j].type = type => i = j

InvokePhase == pc \in {"awaiting", "stopping"}
InitPhase   == pc \in {"starting", "restarting"}

Conversation ==
  /\ stdin[proc] \in Undecoded
  /\ got[proc] <= Len(stdin[proc])
  /\ Holds("Init") => task[proc] = "none" /\ ~Said("InitOk")
  /\ Holds("Invoke") => task[proc] = "none" /\ ~Said("InvokeOk") /\ ended.call < call
  /\ task[proc] = "init" => InitPhase /\ stdin[proc] = <<>> /\ ~Said("InitOk")
  /\ task[proc] = "run" => InvokePhase /\ job[proc] = call /\ ended.call < call
                             /\ ~Said("InvokeOk")
  /\ Said("InitOk") => InitPhase
  /\ Said("InvokeOk") => InvokePhase /\ ended.call = call
  /\ SaidOnce("InitOk") /\ SaidOnce("InvokeOk")
  /\ \A i \in 1..Len(stdout[proc]) :
       stdout[proc][i].type = "InvokeOk"
         => stdout[proc][i].call = call /\ stdout[proc][i].ok = ended.ok

ConversationOK ==
  /\ proc = NoProc <=> pc \in {"down", "failed", "done"}
  /\ \A p \in Pids : child[p] # "none" => p = proc
  /\ proc # NoProc => Conversation
  /\ ended.call <= call
  /\ ended.ok => ended.valid
  /\ InvokePhase => call > 0
  /\ pc = "returned" => last.call = call
  /\ ValidityAttributed /\ OkMeansCompleted

(* If every input ends and nothing is left to write on the pipe, no        *)
(* invocation needs the timer: it gets an answer or a new child.           *)
EndsWithoutTimer == pc \in InHarness ~> pc \in {"returned", "down"}

(* terminate closes the child process and returns, unless asynchronous     *)
(* work that an earlier input left behind keeps the child from ever reading*)
(* the message: no timer is armed any more then (worker.rs:313).           *)
TerminateReturns ==
  pc = "terminating" ~> pc = "done" \/ \E p \in Pids : child[p] = "hung"

(* What recv keeps in its buffer is the beginning of one message whose     *)
(* remaining bytes are still to come (worker.ts:248).                      *)
KeptMeansIncomplete ==
  \A p \in Pids :
    Alive(p) /\ got[p] > 0 => got[p] < Len(Frags(stdin[p][1].msg))

-----------------------------------------------------------------------------
(* What the fuzzer sees of the client.  Terminate is the end of service.   *)
PhaseOf ==
  CASE pc \in {"down", "starting"}                -> "down"
    [] pc \in InHarness                           -> "running"
    [] pc \in {"returned", "idle"}                -> "up"
    [] OTHER                                      -> "over"

H == INSTANCE Harness WITH phase <- PhaseOf,
                           ended <- [call |-> ended.call, ok |-> ended.ok]

(* The client and its worker implement the promise made to the executor.   *)
ImplementsHarness == H!HSpec

=============================================================================
