----------------------------- MODULE MCFeedback -----------------------------
(***************************************************************************)
(* Model-checking instances of Feedback.  Two edges and two hit count      *)
(* classes make coverage maps that are incomparable, equal and dominated;  *)
(* with four executions a history is built up, challenged and challenged   *)
(* again after the client died.                                            *)
(***************************************************************************)
EXTENDS Feedback, TLC

EdgeSymmetry == Permutations(Edges)

=============================================================================
