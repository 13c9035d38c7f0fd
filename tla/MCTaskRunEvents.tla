----------------------------- MODULE MCTaskRunEvents -----------------------------
(* Two threads (a late executor and the recovery of another process, or two   *)
(* nodes that run in parallel) and one stream whose pages hold one event.      *)
EXTENDS TaskRunEvents
CONSTANTS w1, w2, r1
================================================================================
