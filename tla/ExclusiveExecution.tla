-------------------------- MODULE ExclusiveExecution --------------------------
(***************************************************************************)
(* What the durable execution lease promises to the rest of the workbench: *)
(* an Attempt has at most one executor at a time, an executor that stops,  *)
(* for whatever reason, leaves the Attempt free, and nobody takes an       *)
(* Attempt over from an executor that is still at work.                    *)
(***************************************************************************)
CONSTANTS Executors, NoOwner

VARIABLE executor   \* who is executing the Attempt, or NoOwner

Init == executor = NoOwner

Claim(e) == executor = NoOwner /\ executor' = e

Yield == executor # NoOwner /\ executor' = NoOwner

Next == Yield \/ \E e \in Executors : Claim(e)

Spec == Init /\ [][Next]_executor
===============================================================================
