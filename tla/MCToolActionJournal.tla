-------------------------- MODULE MCToolActionJournal --------------------------
(* Three callers, two actions, two outputs and one error: enough for a call   *)
(* in doubt, a replay and a concurrent caller at the same time.               *)
EXTENDS ToolActionJournal

CONSTANTS c1, c2, c3, a1, a2, ok, other, failure
================================================================================
