-------------------------- MODULE MCRequestTimeout --------------------------
(* Instances of RequestTimeout for TLC: those of MCApproval with a loop.   *)
EXTENDS MCApproval, RequestTimeout

CONSTANTS admin, worker
=============================================================================
