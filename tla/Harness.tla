------------------------------- MODULE Harness ------------------------------
(***************************************************************************)
(* What LibAFL's executor is promised by a fuzzing client's harness: every *)
(* invocation ends, in order and with one verdict, and "Ok" is only said   *)
(* of an input whose run really came to its end without an exception.      *)
(* Nothing here knows of processes, pipes or restarts.                     *)
(***************************************************************************)
EXTENDS Naturals

CONSTANT MaxCalls    \* bound: invocations in a behaviour

VARIABLES
  phase,   \* "down", "up" (between invocations), "running" or "over"
  call,    \* serial number of the latest invocation
  last,    \* the latest verdict: [call, kind]
  ended    \* the latest run that came to its end: [call, ok]

hvars == <<phase, call, last, ended>>

HInit ==
  /\ phase = "down"
  /\ call = 0
  /\ last = [call |-> 0, kind |-> "None"]
  /\ ended = [call |-> 0, ok |-> TRUE]

(* A client comes up, or gives up before its first input.                  *)
Up == phase = "down" /\ phase' \in {"up", "over"} /\ UNCHANGED <<call, last, ended>>

Begin ==
  /\ phase = "up" /\ call < MaxCalls
  /\ phase' = "running"
  /\ call' = call + 1
  /\ UNCHANGED <<last, ended>>

(* The target runs the current input to its end, at most once.             *)
RunEnds ==
  /\ phase = "running" /\ ended.call < call
  /\ \E ok \in BOOLEAN : ended' = [call |-> call, ok |-> ok]
  /\ UNCHANGED <<phase, call, last>>

(* The verdict: the client survives, or dies delivering it.                *)
Return ==
  /\ phase = "running"
  /\ \E kind \in {"Ok", "Crash", "Timeout"} :
       /\ kind = "Ok" => ended = [call |-> call, ok |-> TRUE]
       /\ last' = [call |-> call, kind |-> kind]
       /\ phase' \in IF kind = "Timeout" THEN {"down"}
                     ELSE IF kind = "Ok" THEN {"up"} ELSE {"up", "down"}
  /\ UNCHANGED <<call, ended>>

Close == phase = "up" /\ phase' = "over" /\ UNCHANGED <<call, last, ended>>

HNext == Up \/ Begin \/ RunEnds \/ Return \/ Close

HSafety == HInit /\ [][HNext]_hvars
HSpec   == HSafety /\ WF_hvars(Return)

=============================================================================
