--------------------------- MODULE AtMostOnceAction ---------------------------
(***************************************************************************)
(* What the tool action journal promises of each action: it is performed   *)
(* at most once, and its outcome, once on record, is the one performing it *)
(* produced and never changes.  An action may stay in doubt for ever.      *)
(***************************************************************************)
CONSTANTS Actions, Outcomes, Absent, Prepared

VARIABLES
    recorded,  \* Absent, Prepared or an outcome
    effect     \* "none", "begun" or the outcome that performing it produced

vars == <<recorded, effect>>

Init ==
    /\ recorded = [a \in Actions |-> Absent]
    /\ effect = [a \in Actions |-> "none"]

Prepare(a) ==
    /\ recorded[a] = Absent
    /\ recorded' = [recorded EXCEPT ![a] = Prepared]
    /\ UNCHANGED effect

Perform(a) ==
    /\ recorded[a] = Prepared /\ effect[a] = "none"
    /\ effect' = [effect EXCEPT ![a] = "begun"]
    /\ UNCHANGED recorded

Produce(a) ==
    /\ recorded[a] = Prepared /\ effect[a] = "begun"
    /\ \E o \in Outcomes : effect' = [effect EXCEPT ![a] = o]
    /\ UNCHANGED recorded

Record(a) ==
    /\ recorded[a] = Prepared /\ effect[a] \in Outcomes
    /\ recorded' = [recorded EXCEPT ![a] = effect[a]]
    /\ UNCHANGED effect

Next == \E a \in Actions : Prepare(a) \/ Perform(a) \/ Produce(a) \/ Record(a)

Spec == Init /\ [][Next]_vars
================================================================================
