-------------------------------- MODULE DurableDag --------------------------------
(***************************************************************************)
(* What node checkpoints promise for one Attempt: a node is committed at   *)
(* most once and for good, after all it depends on, and for exactly the    *)
(* outputs that are committed there - whatever crashes, retries or second  *)
(* executors do.                                                           *)
(***************************************************************************)
CONSTANTS
    Nodes,
    Deps,     \* the nodes each node depends on
    Outputs   \* what a node may produce, by content hash

VARIABLES
    committed,  \* the nodes that are committed
    lineage,    \* the outputs of its dependencies a node was committed for
    output      \* the output each was committed with

vars == <<committed, lineage, output>>

Init ==
    /\ committed = {}
    /\ lineage = [n \in Nodes |-> [d \in Deps[n] |-> "none"]]
    /\ output = [n \in Nodes |-> "none"]

Commit(n) ==
    /\ n \notin committed
    /\ Deps[n] \subseteq committed
    /\ committed' = committed \cup {n}
    /\ lineage' = [lineage EXCEPT ![n] = [d \in Deps[n] |-> output[d]]]
    /\ \E v \in Outputs : output' = [output EXCEPT ![n] = v]

Next == \E n \in Nodes : Commit(n)

Spec == Init /\ [][Next]_vars
================================================================================
