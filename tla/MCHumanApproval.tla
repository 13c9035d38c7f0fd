---------------------------- MODULE MCHumanApproval ----------------------------
(* Two concurrent callers and two competing decisions on one approval.        *)
EXTENDS HumanApproval

CONSTANTS c1, c2, approve, reject
================================================================================
