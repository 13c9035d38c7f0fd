------------------------- MODULE MCTaskRunLifecycle -------------------------
(* Two background executions may be alive at a time: one that ends and one    *)
(* that a decision created.                                                    *)
EXTENDS TaskRunLifecycle

CONSTANTS b1, b2
=============================================================================
