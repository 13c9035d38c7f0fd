---------------------------- MODULE ApprovalOutcome ----------------------------
(***************************************************************************)
(* What the approval store promises: an approval node waits, and then one  *)
(* of a decision, the expiry of its deadline and a cancellation ends the   *)
(* wait, once and for ever.                                                *)
(***************************************************************************)
CONSTANT Decisions

VARIABLE outcome

Resolutions == Decisions \cup {"timed_out", "cancelled"}

Init == outcome = "absent"

Wait == outcome = "absent" /\ outcome' = "waiting"

Resolve == outcome = "waiting" /\ outcome' \in Resolutions

Next == Wait \/ Resolve

Spec == Init /\ [][Next]_outcome
================================================================================
