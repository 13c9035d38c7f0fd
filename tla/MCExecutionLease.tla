--------------------------- MODULE MCExecutionLease ---------------------------
(***************************************************************************)
(* The lease with named executors: two dispute it while a third one may    *)
(* contend with either.  No symmetry: one property is a refinement whose   *)
(* mapping chooses an executor, the others are liveness.                   *)
(***************************************************************************)
EXTENDS ExecutionLease

CONSTANTS e1, e2, e3
===============================================================================
