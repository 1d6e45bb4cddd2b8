------------------------------ MODULE MCWorker ------------------------------
(***************************************************************************)
(* Model-checking instances of Worker.  Two process identifiers are enough *)
(* for a replacement to coexist with the zombie it replaces; three calls   *)
(* are enough for an input to leave work behind, for the next to suffer    *)
(* from it, and for a third to be judged after the recovery.               *)
(***************************************************************************)
EXTENDS Worker

=============================================================================
