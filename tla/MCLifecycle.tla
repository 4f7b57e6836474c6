---------------------------- MODULE MCLifecycle ----------------------------
(***************************************************************************)
(* Three requests: one can be kept, one cut off and one not yet accepted.  *)
(***************************************************************************)
EXTENDS Lifecycle

CONSTANTS q1, q2, q3
MCRequest == {q1, q2, q3}
=============================================================================
